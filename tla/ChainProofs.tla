---------------------------- MODULE ChainProofs ----------------------------
(***************************************************************************)
(* Proofs about ChainSelection.                                            *)
(***************************************************************************)
EXTENDS ChainSelection, Sequences, WellFoundedInduction, TLAPS

(* Most leaves are about sets, which Zenon is best at; where numbers count *)
(* the leaf cites SMT.                                                     *)
USE Zenon

-----------------------------------------------------------------------------
(* The inductive invariants *)

Stepping(t) == at[t] \in {"step", "step-coins"}
Invalidating(t) == at[t] \in {"invalidate", "invalidate-coins"}
Writing(t) == at[t] \in {"step-coins", "invalidate-coins"}

(* cs_main is held for the whole of a step and of an invalidation. *)
LockInv ==
  \A t \in Thread :
     /\ Stepping(t) \/ Invalidating(t) => lock = t
     /\ lock = t => Stepping(t) \/ Invalidating(t) \/ at[t] = "find"

(* The index is closed under parents; the active chain can be undone.      *)
TreeInv ==
  /\ \A b \in index : Chain[b] \subseteq index
  /\ Chain[tip] \ {Genesis} \subseteq undo

(* A step heads for a linked candidate, the best one; an invalidation for  *)
(* a marked block.  Between the two halves of a disconnection nothing is   *)
(* dirty, and the tip is not the genesis block.                            *)
GoalInv ==
  \A t \in Thread :
     /\ Stepping(t) => goal[t] \in cand /\ \A c \in cand : ~Worse(goal[t], c)
     /\ at[t] = "step-coins" => tip \notin Chain[goal[t]]
     /\ Invalidating(t) => goal[t] \in Block /\ goal[t] \in failedValid
     /\ at[t] = "invalidate-coins" => goal[t] \in Chain[tip]
     /\ Writing(t) => dirty = {}

(* The databases lag behind memory by the dirty entries at most.           *)
DiskInv ==
  /\ disk.index \subseteq index /\ index \ disk.index \subseteq dirty
  /\ disk.data \subseteq data /\ data \ disk.data \subseteq dirty
  /\ disk.undo \subseteq undo /\ undo \ disk.undo \subseteq dirty
  /\ disk.data \subseteq disk.index /\ disk.undo \subseteq disk.data
  /\ disk.valid \subseteq disk.index /\ disk.child \subseteq disk.index
  /\ diskTip \in Chain[tip]

BaseInv == TypeOK /\ LinksExact /\ LockInv /\ TreeInv /\ GoalInv /\ DiskInv /\ DiskUsable

(* Candidates are no worse than the tip. *)
CandidatesNotWorse == \A b \in cand : ~Worse(b, tip)

(* The thread is in the course of an activation: it will look for the best *)
(* candidate again, or it has yet to see that its goal is not the tip.     *)
Busy(t) == at[t] \notin {"idle", "check"} \/ (at[t] = "check" /\ goal[t] # tip)

NothingBetter == (\A t \in Thread : ~Busy(t)) => \A c \in cand : ~Worse(tip, c)

CandInv == CandidatesNotWorse /\ NothingBetter

(* No crash can fall into an invalidation. *)
NoTornInvalidation == MaxInvalidate = 0 \/ MaxCrash = 0

(* What is failed of the active chain and of the chain a step heads for:   *)
(* nothing, but in an invalidation its block and the tip just marked.      *)
ChainsUsable ==
  /\ (\A t \in Thread : ~Invalidating(t)) => Chain[tip] \cap Failed = {}
  /\ \A t \in Thread :
       /\ Stepping(t) => Chain[goal[t]] \cap Failed = {}
       /\ at[t] = "invalidate" => Chain[tip] \cap Failed \subseteq {goal[t]}
       /\ at[t] = "invalidate-coins" => Chain[tip] \cap Failed \subseteq {goal[t], tip}
       /\ Invalidating(t) => MaxInvalidate # 0

(* A mark on disk that memory has lost is dirty; without invalidations the *)
(* chain of the coins on disk has none.                                    *)
DiskMarks ==
  /\ disk.valid \ failedValid \subseteq dirty /\ disk.child \ failedChild \subseteq dirty
  /\ MaxInvalidate = 0 => Chain[diskTip] \cap (disk.valid \cup disk.child) = {}

UsableInv == ChainsUsable /\ DiskMarks

Connected == Chain[tip] \cap BadConnect = {}

(* A candidate that nothing will discard, above which no unfailed linked   *)
(* block is missing from the candidates.                                   *)
Anchor(r) ==
  /\ r \in cand /\ Chain[r] \cap (Failed \cup BadConnect) = {}
  /\ \A b \in linked \ Failed : ~Worse(b, r) => b \in cand

AnchorInv == (\A t \in Thread : ~Invalidating(t)) => \E r \in Index : Anchor(r)

(* A mark on a descendant has its reason below it, in memory and on disk.  *)
MarkInv ==
  /\ \A b \in failedChild : Chain[b] \cap failedValid # {}
  /\ \A b \in disk.child : Chain[b] \cap disk.valid # {}
  /\ disk.valid \subseteq failedValid /\ failedValid \ disk.valid \subseteq dirty

(* Without operator commands, only blocks that fail a check are failed. *)
FailedBad ==
  /\ failedValid \subseteq BadContext \cup BadConnect
  /\ data \cap BadContext = {}

-----------------------------------------------------------------------------
(* The tree of blocks.  Facts about all chains are proved by looking at a  *)
(* block with the least work for which they fail.                          *)

LEMMA LeastNat ==
  ASSUME NEW S \in SUBSET Nat, S # {}
  PROVE  \E n \in S : \A m \in S : n <= m
<1> DEFINE R == OpToRel(<, Nat)
<1>1. IsWellFoundedOn(R, Nat)
  BY NatLessThanWellFounded
<1> HIDE DEF R
<1>2. \E x \in S : \A y \in S : ~ (<<y, x>> \in R)
  BY <1>1, WFMin
<1>3. \A x, y \in Nat : y < x => <<y, x>> \in R
  BY DEF R, OpToRel
<1>4. PICK x \in S : \A y \in S : ~ (<<y, x>> \in R)
  BY <1>2
<1>5. \A y \in S : ~ (y < x)
  BY <1>3, <1>4
<1>6. \A y \in S : x <= y
  BY SMT, <1>5
<1> QED
  BY <1>6

(* A set of blocks that has every block whose ancestors it has is the      *)
(* whole tree.                                                             *)
LEMMA TreeInduction ==
  ASSUME NEW S, Genesis \in S, \A b \in Block : Parent[b] \in S => b \in S
  PROVE  Index \subseteq S
<1> SUFFICES ASSUME Index \ S # {} PROVE FALSE
  OBVIOUS
<1> DEFINE W == {ChainWork[b] : b \in Index \ S}
<1>1. W \in SUBSET Nat /\ W # {}
  BY SMT, TreeAssumption
<1>2. PICK n \in W : \A m \in W : n <= m
  BY <1>1, LeastNat
<1>3. PICK b \in Index \ S : n = ChainWork[b]
  BY <1>2
<1>4. b \in Block
  BY <1>3 DEF Index
<1>5. Parent[b] \in Index /\ ChainWork[Parent[b]] < ChainWork[b]
  BY <1>4, TreeAssumption
<1>6. Parent[b] \in Index \ S
  BY <1>3, <1>4, <1>5
<1>7. ChainWork[b] <= ChainWork[Parent[b]]
  BY <1>2, <1>3, <1>6
<1>8. ChainWork[b] \in Nat /\ ChainWork[Parent[b]] \in Nat
  BY <1>3, <1>5, TreeAssumption
<1> QED
  BY SMT, <1>5, <1>7, <1>8

(* Every chain starts at the genesis block and ends at its own block. *)
LEMMA ChainEnds == \A x \in Index : Genesis \in Chain[x] /\ x \in Chain[x]
<1> DEFINE S == {x \in Index : Genesis \in Chain[x] /\ x \in Chain[x]}
<1>1. Genesis \in S
  BY TreeAssumption DEF Index
<1>2. \A b \in Block : Parent[b] \in S => b \in S
  BY SMT, TreeAssumption DEF Index
<1> HIDE DEF S
<1>3. Index \subseteq S
  BY <1>1, <1>2, TreeInduction
<1> QED
  BY <1>3 DEF S

(* The chain of an ancestor is part of the chain. *)
LEMMA ChainWithin == \A x \in Index : \A y \in Chain[x] : Chain[y] \subseteq Chain[x]
<1> DEFINE S == {x \in Index : \A y \in Chain[x] : Chain[y] \subseteq Chain[x]}
<1>1. Genesis \in S
  BY TreeAssumption DEF Index
<1>2. ASSUME NEW b \in Block, Parent[b] \in S PROVE b \in S
  <2>1. Chain[b] = Chain[Parent[b]] \cup {b} /\ b \in Index
    BY TreeAssumption DEF Index
  <2> QED
    BY <1>2, <2>1
<1> HIDE DEF S
<1>3. Index \subseteq S
  BY <1>1, <1>2, TreeInduction
<1> QED
  BY <1>3 DEF S

(* Of two blocks of a chain one is an ancestor of the other. *)
LEMMA ChainTotal ==
  \A x \in Index : \A y, z \in Chain[x] : y \in Chain[z] \/ z \in Chain[y]
<1> DEFINE S == {x \in Index : \A y, z \in Chain[x] : y \in Chain[z] \/ z \in Chain[y]}
<1>1. Genesis \in S
  BY TreeAssumption DEF Index
<1>2. ASSUME NEW b \in Block, Parent[b] \in S PROVE b \in S
  <2>1. Chain[b] = Chain[Parent[b]] \cup {b} /\ b \in Index
    BY TreeAssumption DEF Index
  <2>2. \A y \in Chain[b] : y \in Chain[b]
    OBVIOUS
  <2> QED
    BY <1>2, <2>1
<1> HIDE DEF S
<1>3. Index \subseteq S
  BY <1>1, <1>2, TreeInduction
<1> QED
  BY <1>3 DEF S

(* Work grows along a chain. *)
LEMMA ChainGrows ==
  \A x \in Index : \A y \in Chain[x] : y # x => ChainWork[y] < ChainWork[x]
<1> DEFINE S == {x \in Index : \A y \in Chain[x] : y # x => ChainWork[y] < ChainWork[x]}
<1>1. Genesis \in S
  BY TreeAssumption DEF Index
<1>2. ASSUME NEW b \in Block, Parent[b] \in S PROVE b \in S
  <2>1. Chain[b] = Chain[Parent[b]] \cup {b} /\ b \in Index /\ Parent[b] \in Index
    BY TreeAssumption DEF Index
  <2>2. ASSUME NEW y \in Chain[b], y # b PROVE ChainWork[y] < ChainWork[b]
    <3>1. y \in Chain[Parent[b]] /\ y \in Index
      BY <2>1, <2>2, TreeAssumption
    <3>2. y = Parent[b] \/ ChainWork[y] < ChainWork[Parent[b]]
      BY <1>2, <3>1
    <3>3. ChainWork[Parent[b]] < ChainWork[b]
      BY TreeAssumption
    <3>4. ChainWork[y] \in Nat /\ ChainWork[b] \in Nat /\ ChainWork[Parent[b]] \in Nat
      BY <2>1, <3>1, TreeAssumption
    <3> QED
      BY SMT, <3>2, <3>3, <3>4
  <2> QED
    BY <2>1, <2>2
<1> HIDE DEF S
<1>3. Index \subseteq S
  BY <1>1, <1>2, TreeInduction
<1> QED
  BY <1>3 DEF S

(* A block of a chain other than the last one has a child in that chain. *)
LEMMA ChainStep ==
  \A x \in Index : \A y \in Chain[x] \ {x} :
     \E b \in Chain[x] \ {Genesis} : Parent[b] = y
<1> DEFINE S == {x \in Index : \A y \in Chain[x] \ {x} :
                                \E b \in Chain[x] \ {Genesis} : Parent[b] = y}
<1>1. Genesis \in S
  BY TreeAssumption DEF Index
<1>2. ASSUME NEW b \in Block, Parent[b] \in S PROVE b \in S
  <2>1. Chain[b] = Chain[Parent[b]] \cup {b} /\ b \in Index /\ b # Genesis
    BY TreeAssumption DEF Index
  <2> QED
    BY <1>2, <2>1
<1> HIDE DEF S
<1>3. Index \subseteq S
  BY <1>1, <1>2, TreeInduction
<1> QED
  BY <1>3 DEF S

-----------------------------------------------------------------------------
(* The order of candidates *)

LEMMA WorseType ==
  ASSUME NEW a \in Index
  PROVE  ChainWork[a] \in Nat /\ Hash[a] \in Nat
BY TreeAssumption

(* The comparator is a strict total order.                                 *)
LEMMA WorseStrict ==
  \A a, b \in Index :
     /\ ~ (Worse(a, b) /\ Worse(b, a)) /\ ~ Worse(a, a)
     /\ a = b \/ Worse(a, b) \/ Worse(b, a)
<1> SUFFICES ASSUME NEW a \in Index, NEW b \in Index
             PROVE  /\ ~ (Worse(a, b) /\ Worse(b, a)) /\ ~ Worse(a, a)
                    /\ a = b \/ Worse(a, b) \/ Worse(b, a)
  OBVIOUS
<1>1. Hash[a] = Hash[b] => a = b
  BY TreeAssumption
<1> QED
  BY SMT, <1>1, WorseType DEF Worse

LEMMA WorseTransitive ==
  \A a, b, c \in Index : Worse(a, b) /\ Worse(b, c) => Worse(a, c)
<1> SUFFICES ASSUME NEW a \in Index, NEW b \in Index, NEW c \in Index,
                    Worse(a, b), Worse(b, c)
             PROVE  Worse(a, c)
  OBVIOUS
<1>1. /\ ChainWork[a] \in Nat /\ ChainWork[b] \in Nat /\ ChainWork[c] \in Nat
      /\ Hash[a] \in Nat /\ Hash[b] \in Nat /\ Hash[c] \in Nat
  BY WorseType
<1> QED
  BY SMT, <1>1 DEF Worse

LEMMA NotWorseTransitive ==
  \A a, b, c \in Index : ~ Worse(a, b) /\ ~ Worse(b, c) => ~ Worse(a, c)
<1> SUFFICES ASSUME NEW a \in Index, NEW b \in Index, NEW c \in Index,
                    ~ Worse(a, b), ~ Worse(b, c), Worse(a, c)
             PROVE  FALSE
  OBVIOUS
<1>1. a = b \/ Worse(b, a)
  BY WorseStrict
<1>2. b = c \/ Worse(c, b)
  BY WorseStrict
<1>3. CASE Worse(b, a) /\ Worse(c, b)
  BY <1>3, WorseTransitive, WorseStrict
<1> QED
  BY <1>1, <1>2, <1>3, WorseStrict

(* An ancestor is worse. *)
LEMMA AncestorWorse ==
  \A x \in Index : \A y \in Chain[x] : y \in Index /\ ~ Worse(x, y)
<1> SUFFICES ASSUME NEW x \in Index, NEW y \in Chain[x]
             PROVE  y \in Index /\ ~ Worse(x, y)
  OBVIOUS
<1>1. y \in Index
  BY TreeAssumption
<1>2. CASE y = x
  BY <1>2, WorseStrict
<1>3. CASE y # x
  <2>1. ChainWork[y] < ChainWork[x]
    BY <1>3, ChainGrows
  <2> QED
    BY SMT, <1>1, <2>1, WorseType DEF Worse
<1> QED
  BY <1>1, <1>2, <1>3

(* begin() of the candidates: the best one exists.  The blocks of a finite *)
(* tree are looked at one after the other.                                 *)
LEMMA BestIsBest ==
  ASSUME NEW S \in SUBSET Index, S # {}
  PROVE  Best(S) \in S /\ \A c \in S : ~ Worse(Best(S), c)
<1>1. PICK s \in Seq(Block) : \A b \in Block : \E n \in 1..Len(s) : s[n] = b
  BY TreeAssumption DEF IsFiniteSet
<1> DEFINE Seen(n) == {b \in S : b = Genesis \/ \E i \in 1..n : b = s[i]}
           HasBest(A) == A = {} \/ \E b \in A : \A c \in A : ~ Worse(b, c)
           N == {n \in Nat : ~ HasBest(Seen(n))}
<1>2. HasBest(Seen(0))
  <2>1. Seen(0) = {} \/ Seen(0) = {Genesis}
    BY SMT
  <2> QED
    BY SMT, <2>1, WorseStrict DEF Index
<1>3. ASSUME NEW n \in Nat, HasBest(Seen(n)) PROVE HasBest(Seen(n + 1))
  <2>1. Seen(n + 1) = Seen(n) \cup {c \in S : c = s[n + 1]}
    BY SMT
  <2>2. Seen(n) \subseteq Index /\ Seen(n + 1) \subseteq Index
    OBVIOUS
  <2> HIDE DEF Seen
  <2>3. CASE Seen(n + 1) = Seen(n)
    BY <1>3, <2>3
  <2>4. ASSUME NEW c \in S, Seen(n + 1) = Seen(n) \cup {c} PROVE HasBest(Seen(n + 1))
    <3>1. CASE Seen(n) = {}
      BY <2>4, <3>1, WorseStrict
    <3>2. ASSUME NEW b \in Seen(n), \A a \in Seen(n) : ~ Worse(b, a) PROVE HasBest(Seen(n + 1))
      <4>1. CASE Worse(b, c)
        <5>1. b \in Index /\ c \in Index /\ ~ Worse(c, b) /\ ~ Worse(c, c)
          BY <2>2, <4>1, WorseStrict
        <5>2. \A a \in Seen(n) : ~ Worse(c, a)
          BY <2>2, <3>2, <5>1, NotWorseTransitive
        <5> QED
          BY <2>4, <5>1, <5>2
      <4>2. CASE ~ Worse(b, c)
        BY <2>4, <3>2, <4>2
      <4> QED
        BY <4>1, <4>2
    <3> QED
      BY <1>3, <3>1, <3>2
  <2>5. s[n + 1] \in S => Seen(n + 1) = Seen(n) \cup {s[n + 1]}
    BY <2>1
  <2>6. s[n + 1] \notin S => Seen(n + 1) = Seen(n)
    BY <2>1
  <2> QED
    BY <2>3, <2>4, <2>5, <2>6
<1> HIDE DEF HasBest, Seen
<1>4. ASSUME N # {} PROVE FALSE
  <2>1. PICK n \in N : \A m \in N : n <= m
    BY <1>4, LeastNat
  <2>2. n # 0 /\ n \in Nat
    BY <1>2
  <2>3. n - 1 \in Nat /\ n - 1 \notin N
    BY SMT, <2>1, <2>2
  <2>4. HasBest(Seen((n - 1) + 1))
    BY <1>3, <2>3
  <2>5. (n - 1) + 1 = n
    BY SMT, <2>2
  <2> QED
    BY <2>1, <2>4, <2>5
<1>5. Seen(Len(s)) = S /\ Len(s) \in Nat
  BY SMT, <1>1 DEF Seen, Index
<1>6. HasBest(S)
  BY <1>4, <1>5
<1> QED
  BY <1>6 DEF Best, HasBest

(* Of blocks, one with the most work exists. *)
LEMMA MostWork ==
  ASSUME NEW S \in SUBSET Index, S # {}
  PROVE  \E b \in S : \A c \in S : ChainWork[c] <= ChainWork[b]
<1>1. Best(S) \in S /\ \A c \in S : ~ Worse(Best(S), c)
  BY BestIsBest
<1>2. ASSUME NEW c \in S PROVE ChainWork[c] <= ChainWork[Best(S)]
  BY SMT, <1>1, WorseType DEF Worse
<1> QED
  BY <1>1, <1>2

-----------------------------------------------------------------------------
(* Facts of single states *)

LEMMA ChainType == \A x \in Index : Chain[x] \subseteq Index
BY TreeAssumption

LEMMA ParentChain ==
  \A b \in Block :
     /\ b \in Index /\ Parent[b] \in Index /\ b # Genesis
     /\ Chain[b] = Chain[Parent[b]] \cup {b} /\ b \notin Chain[Parent[b]]
BY TreeAssumption DEF Index

(* A linked block's whole chain has its data, and is linked. *)
LEMMA LinkedChain ==
  ASSUME TypeOK, LinksExact, NEW b \in linked
  PROVE  b \in Index /\ Chain[b] \subseteq data /\ Chain[b] \subseteq linked
<1>1. b \in Index /\ Chain[b] \subseteq data /\ data \subseteq index
  BY DEF TypeOK, LinksExact
<1>2. ASSUME NEW y \in Chain[b] PROVE y \in linked
  <2>1. Chain[y] \subseteq Chain[b]
    BY <1>1, ChainWithin
  <2> QED
    BY <1>1, <2>1 DEF LinksExact
<1> QED
  BY <1>1, <1>2

(* A thread that can enter cs_main and is in no step or invalidation is    *)
(* alone: no other thread is in one.                                       *)
LEMMA Quiet ==
  ASSUME LockInv, NEW t \in Thread, lock \in {Free, t}, ~ Stepping(t), ~ Invalidating(t)
  PROVE  \A u \in Thread : ~ Stepping(u) /\ ~ Invalidating(u) /\ ~ Writing(u)
<1>1. Free \notin Thread
  BY TreeAssumption
<1>2. \A u \in Thread : ~ Stepping(u) /\ ~ Invalidating(u)
  BY <1>1 DEF LockInv
<1> QED
  BY <1>2 DEF Stepping, Invalidating, Writing

LEMMA FreeQuiet ==
  ASSUME LockInv, lock = Free
  PROVE  \A u \in Thread : ~ Stepping(u) /\ ~ Invalidating(u) /\ ~ Writing(u)
<1>1. Free \notin Thread
  BY TreeAssumption
<1>2. \A u \in Thread : ~ Stepping(u) /\ ~ Invalidating(u)
  BY <1>1 DEF LockInv
<1> QED
  BY <1>2 DEF Stepping, Invalidating, Writing

(* While a thread is in a step or an invalidation no other is in one. *)
LEMMA Alone ==
  ASSUME LockInv, NEW t \in Thread, Stepping(t) \/ Invalidating(t)
  PROVE  /\ lock = t
         /\ \A u \in Thread : u # t => ~ Stepping(u) /\ ~ Invalidating(u) /\ ~ Writing(u)
BY DEF LockInv, Stepping, Invalidating, Writing

(* What a write of the entries D leaves in the block index database: all   *)
(* of memory, if D has the dirty entries.                                  *)
Wrote(w, D, undone, marked) ==
  /\ w.index = index /\ w.data = data /\ w.undo = undone
  /\ w.valid = (disk.valid \ D) \cup (failedValid \cap D)
  /\ w.child = (disk.child \ D) \cup (marked \cap D)
  /\ w.valid \subseteq index /\ w.child \subseteq index
  /\ w \in [index : SUBSET Index, data : SUBSET Index, undo : SUBSET Index,
            valid : SUBSET Index, child : SUBSET Index]

LEMMA Synced ==
  ASSUME TypeOK, DiskInv, NEW D \in SUBSET index, dirty \subseteq D,
         NEW undone \in SUBSET data, undo \subseteq undone, undone \ D \subseteq undo,
         NEW marked \in SUBSET index
  PROVE  Wrote(IndexWritten(D, undone, marked), D, undone, marked)
<1> DEFINE w == IndexWritten(D, undone, marked)
<1>1. /\ w.index = disk.index \cup D
      /\ w.data = (disk.data \ D) \cup (data \cap D)
      /\ w.undo = (disk.undo \ D) \cup (undone \cap D)
      /\ w.valid = (disk.valid \ D) \cup (failedValid \cap D)
      /\ w.child = (disk.child \ D) \cup (marked \cap D)
      /\ w = [index |-> w.index, data |-> w.data, undo |-> w.undo,
              valid |-> w.valid, child |-> w.child]
  BY DEF IndexWritten
<1> HIDE DEF w
<1>2. w.index = index
  BY <1>1 DEF DiskInv
<1>3. w.data = data
  BY <1>1 DEF DiskInv
<1>4. w.undo = undone
  BY <1>1 DEF DiskInv
<1>5. w.valid \subseteq index /\ w.child \subseteq index
  BY <1>1 DEF DiskInv, TypeOK
<1>6. index \subseteq Index /\ data \subseteq Index /\ undone \subseteq Index
  BY DEF TypeOK
<1>7. w \in [index : SUBSET Index, data : SUBSET Index, undo : SUBSET Index,
             valid : SUBSET Index, child : SUBSET Index]
  BY <1>1, <1>2, <1>3, <1>4, <1>5, <1>6
<1> QED
  BY <1>1, <1>2, <1>3, <1>4, <1>5, <1>7 DEF w, Wrote

(* The database describes what memory holds: the coins of any block of the *)
(* active chain may be beside it.                                          *)
LEMMA SyncedUsable ==
  ASSUME TypeOK, LinksExact, TreeInv, NEW d, d.data = data, d.undo = undo, d.index = index,
         NEW b \in Chain[tip]
  PROVE  /\ Chain[b] \subseteq d.data /\ Chain[b] \ {Genesis} \subseteq d.undo
         /\ \A x \in d.index : Chain[x] \subseteq d.index
<1>1. tip \in Index /\ Chain[tip] \subseteq data
  BY LinkedChain DEF TypeOK
<1>2. Chain[b] \subseteq Chain[tip]
  BY <1>1, ChainWithin
<1> QED
  BY <1>1, <1>2 DEF TreeInv

-----------------------------------------------------------------------------
(* The base invariant holds initially and is preserved by every action *)

LEMMA BaseInit == Init => BaseInv
<1> SUFFICES ASSUME Init PROVE BaseInv
  OBVIOUS
<1>1. Genesis \in Index /\ Chain[Genesis] = {Genesis}
  BY TreeAssumption DEF Index
<1>2. Free \notin Thread
  BY TreeAssumption
<1>3. TypeOK
  BY SMT, <1>1, TreeAssumption DEF Init, TypeOK, Location
<1>4. LinksExact /\ TreeInv
  BY <1>1 DEF Init, LinksExact, TreeInv
<1>5. LockInv /\ GoalInv
  BY <1>2 DEF Init, LockInv, GoalInv, Stepping, Invalidating, Writing
<1>6. DiskInv /\ DiskUsable
  BY <1>1 DEF Init, DiskInv, DiskUsable
<1> QED
  BY <1>3, <1>4, <1>5, <1>6 DEF BaseInv

LEMMA BaseStutter == ASSUME BaseInv, UNCHANGED vars PROVE BaseInv'
<1> USE DEF vars, store, flags, control, bounds
<1>1. TypeOK' /\ LinksExact' /\ TreeInv'
  BY DEF BaseInv, TypeOK, LinksExact, TreeInv
<1>2. LockInv' /\ GoalInv'
  BY DEF BaseInv, LockInv, GoalInv, Stepping, Invalidating, Writing
<1>3. DiskInv' /\ DiskUsable'
  BY DEF BaseInv, DiskInv, DiskUsable
<1> QED
  BY <1>1, <1>2, <1>3 DEF BaseInv

LEMMA BaseAcceptKnown ==
  ASSUME BaseInv, NEW t \in Thread, NEW b \in Block, AcceptKnown(t, b)
  PROVE  BaseInv'
<1> USE DEF store, flags, control, bounds, AcceptKnown, Enter
<1>1. TypeOK' /\ LinksExact' /\ TreeInv'
  BY DEF BaseInv, TypeOK, LinksExact, TreeInv, Location
<1>2. \A u \in Thread : ~ Stepping(u) /\ ~ Invalidating(u) /\ ~ Writing(u)
  BY FreeQuiet DEF BaseInv
<1>3. \A u \in Thread : ~ Stepping(u)' /\ ~ Invalidating(u)' /\ ~ Writing(u)'
  BY <1>2 DEF BaseInv, TypeOK, Stepping, Invalidating, Writing
<1>4. LockInv'
  BY <1>3, TreeAssumption DEF LockInv
<1>5. GoalInv'
  BY <1>3 DEF GoalInv, Stepping, Invalidating, Writing
<1>6. DiskInv' /\ DiskUsable'
  BY DEF BaseInv, DiskInv, DiskUsable
<1> QED
  BY <1>1, <1>4, <1>5, <1>6 DEF BaseInv

(* A header enters the index without data. *)
LEMMA BaseHeader ==
  ASSUME BaseInv, NEW t \in Thread, NEW b \in Block, Enter(t, b), b \notin data,
         index' = index \cup {b}, dirty' = dirty \cup {b},
         failedValid' \in {failedValid, failedValid \cup {b}},
         UNCHANGED <<data, linked, undo, unlinked, failedChild, cand, tip, control,
                     disk, diskTip, bounds>>
  PROVE  BaseInv'
<1> USE DEF control, bounds
<1>1. /\ b \in Index /\ b \in Chain[b] /\ Parent[b] \in index
      /\ Chain[b] = Chain[Parent[b]] \cup {b}
  BY ParentChain, ChainEnds DEF Enter, HeaderAccepted
<1>2. TypeOK'
  BY <1>1 DEF BaseInv, TypeOK
<1>3. LinksExact'
  BY <1>1 DEF BaseInv, LinksExact
<1>4. TreeInv'
  BY <1>1 DEF BaseInv, TreeInv
<1>5. \A u \in Thread : ~ Stepping(u) /\ ~ Invalidating(u) /\ ~ Writing(u)
  BY FreeQuiet DEF BaseInv, Enter
<1>6. \A u \in Thread : ~ Stepping(u)' /\ ~ Invalidating(u)' /\ ~ Writing(u)'
  BY <1>5 DEF Stepping, Invalidating, Writing
<1>7. LockInv'
  BY <1>6, TreeAssumption DEF LockInv, Enter
<1>8. GoalInv'
  BY <1>6 DEF GoalInv, Stepping, Invalidating, Writing
<1>9. DiskInv' /\ DiskUsable'
  BY DEF BaseInv, DiskInv, DiskUsable
<1> QED
  BY <1>2, <1>3, <1>4, <1>7, <1>8, <1>9 DEF BaseInv

LEMMA BaseAcceptInvalid ==
  ASSUME BaseInv, NEW t \in Thread, NEW b \in Block, AcceptInvalid(t, b)
  PROVE  BaseInv'
BY BaseHeader DEF AcceptInvalid

LEMMA BaseAcceptHeaderOnly ==
  ASSUME BaseInv, NEW t \in Thread, NEW b \in Block, AcceptHeaderOnly(t, b)
  PROVE  BaseInv'
<1>1. b \notin data
  BY DEF AcceptHeaderOnly, BaseInv, TypeOK
<1> QED
  BY <1>1, BaseHeader DEF AcceptHeaderOnly, flags

(* ReceivedBlockTransactions keeps nChainTx and mapBlocksUnlinked exact:   *)
(* the blocks it releases are those whose last missing ancestor arrived.   *)
LEMMA LinksReceived ==
  ASSUME TypeOK, LinksExact, NEW b \in Block, b \notin data, Parent[b] \in index,
         data' = data \cup {b}, index' = index \cup {b}, ReceivedBlockTransactions(b)
  PROVE  /\ LinksExact'
         /\ linked' \subseteq data' /\ linked \subseteq linked'
         /\ cand' = cand \cup Pruned(linked' \ linked, tip)
<1>1. /\ b \in Index /\ Parent[b] \in Index /\ b \in Chain[b] /\ Parent[b] \in Chain[b]
      /\ Chain[b] = Chain[Parent[b]] \cup {b} /\ b \notin Chain[Parent[b]]
  BY SMT, ParentChain, ChainEnds
<1>2. \A x \in index : Chain[x] \subseteq data => x \in linked
  BY DEF LinksExact
<1>3. \A x \in linked : x \in index /\ Chain[x] \subseteq data
  BY DEF LinksExact
<1>4. linked \subseteq data /\ data \subseteq index /\ unlinked = data \ linked /\ index \subseteq Index
  BY DEF LinksExact, TypeOK
<1>5. CASE Parent[b] \in linked
  <2>1. /\ linked' = linked \cup Released(b)
        /\ cand' = cand \cup Pruned(Released(b), tip)
        /\ unlinked' = unlinked \ Released(b)
    BY <1>5 DEF ReceivedBlockTransactions
  <2>2. ASSUME NEW d \in Released(b) PROVE d \in index' /\ Chain[d] \subseteq data'
    <3>1. CASE d = b
      BY <3>1, <1>1, <1>3, <1>5
    <3>2. CASE d # b
      BY <3>2, <1>1, <1>3, <1>4, <1>5 DEF Released
    <3> QED
      BY <3>1, <3>2
  <2>3. ASSUME NEW x \in index', Chain[x] \subseteq data', x \notin linked, x # b
        PROVE  x \in Released(b)
    <3>1. x \in index /\ x \in Index /\ x \in Chain[x]
      BY <1>1, <1>4, <2>3, ChainEnds
    <3>2. b \in Chain[x]
      BY <1>2, <2>3, <3>1
    <3>3. x \in unlinked
      BY <1>4, <2>3, <3>1
    <3>4. ASSUME NEW y \in Chain[x] \ Chain[b] PROVE y \in unlinked
      <4>1. b \in Chain[y]
        BY <3>1, <3>2, ChainTotal
      <4>2. y \notin linked
        BY <4>1, <1>3
      <4>3. y \in data
        BY <1>1, <2>3
      <4> QED
        BY <4>2, <4>3, <1>4
    <3> QED
      BY <3>2, <3>3, <3>4 DEF Released
  <2>4. b \in Released(b) /\ Released(b) \cap linked = {}
    BY <1>4 DEF Released
  <2>5. linked' = {x \in index' : Chain[x] \subseteq data'}
    BY <2>1, <2>2, <2>3, <2>4, <1>3
  <2>6. Released(b) \subseteq data'
    BY <1>4 DEF Released
  <2>7. unlinked' = data' \ linked'
    BY <2>1, <2>4, <1>4
  <2>8. linked' \ linked = Released(b)
    BY <2>1, <2>4
  <2> QED
    BY <2>1, <2>5, <2>6, <2>7, <2>8, <1>4 DEF LinksExact
<1>6. CASE Parent[b] \notin linked
  <2>1. unlinked' = unlinked \cup {b} /\ linked' = linked /\ cand' = cand
    BY <1>6 DEF ReceivedBlockTransactions
  <2>2. ASSUME NEW x \in index', Chain[x] \subseteq data' PROVE x \in linked
    <3>1. ASSUME b \in Chain[x] PROVE FALSE
      <4>1. x \in Index
        BY <1>1, <1>4
      <4>2. Chain[Parent[b]] \subseteq Chain[x]
        BY <1>1, <3>1, <4>1, ChainWithin
      <4>3. Chain[Parent[b]] \subseteq data
        BY <1>1, <2>2, <4>2
      <4> QED
        BY <4>3, <1>2, <1>6
    <3> QED
      BY <1>1, <1>2, <2>2, <3>1
  <2>3. linked' = {x \in index' : Chain[x] \subseteq data'}
    BY <2>1, <2>2, <1>3
  <2>4. unlinked' = data' \ linked'
    BY <2>1, <1>4
  <2>5. Pruned(linked' \ linked, tip) = {}
    BY <2>1 DEF Pruned
  <2> QED
    BY <2>1, <2>3, <2>4, <2>5, <1>4 DEF LinksExact
<1> QED
  BY <1>5, <1>6

LEMMA BaseAcceptStored ==
  ASSUME BaseInv, NEW t \in Thread, NEW b \in Block, AcceptStored(t, b)
  PROVE  BaseInv'
<1> USE DEF flags, bounds
<1>1. /\ b \in Index /\ Parent[b] \in index /\ b \notin data
      /\ Chain[b] = Chain[Parent[b]] \cup {b}
  BY ParentChain DEF AcceptStored, Enter, HeaderAccepted
<1>2. index' = index \cup {b} /\ data' = data \cup {b} /\ dirty' = dirty \cup {b}
  BY DEF AcceptStored
<1>3. /\ LinksExact' /\ linked' \subseteq data' /\ linked \subseteq linked'
      /\ cand' = cand \cup Pruned(linked' \ linked, tip)
  BY <1>1, <1>2, LinksReceived DEF AcceptStored, BaseInv
<1>4. cand' \subseteq linked' /\ unlinked' \subseteq data'
  BY <1>3 DEF Pruned, BaseInv, TypeOK, LinksExact
<1>5. TypeOK'
  BY <1>1, <1>2, <1>3, <1>4 DEF AcceptStored, BaseInv, TypeOK, Location
<1>6. TreeInv'
  BY <1>1, <1>2 DEF AcceptStored, BaseInv, TreeInv
<1>7. \A u \in Thread : ~ Stepping(u) /\ ~ Invalidating(u) /\ ~ Writing(u)
  BY FreeQuiet DEF BaseInv, AcceptStored, Enter
<1>8. \A u \in Thread : ~ Stepping(u)' /\ ~ Invalidating(u)' /\ ~ Writing(u)'
  BY <1>7 DEF AcceptStored, BaseInv, TypeOK, Stepping, Invalidating, Writing
<1>9. LockInv'
  BY <1>8, TreeAssumption DEF LockInv, AcceptStored, Enter
<1>10. GoalInv'
  BY <1>8 DEF GoalInv, Stepping, Invalidating, Writing
<1>11. DiskInv' /\ DiskUsable'
  BY <1>2 DEF AcceptStored, BaseInv, DiskInv, DiskUsable
<1> QED
  BY <1>3, <1>5, <1>6, <1>9, <1>10, <1>11 DEF BaseInv

(* The unusable block found on a candidate's path is a failed one, since   *)
(* candidates are linked, and the blocks above it descend from it.         *)
LEMMA DiscardFacts ==
  ASSUME BaseInv, cand # {}, Unusable # {}
  PROVE  /\ Best(cand) \in cand /\ Best(cand) \in Index
         /\ NewPart \subseteq Chain[Best(cand)] /\ NewPart \subseteq linked
         /\ NewPart \cap Chain[tip] = {}
         /\ Nearest \in NewPart /\ Nearest \in Failed
         /\ Above \subseteq NewPart
         /\ \A b \in Above \cup {Nearest} : Nearest \in Chain[b] /\ b \in Index
<1>1. cand \in SUBSET Index
  BY DEF BaseInv, TypeOK
<1>2. Best(cand) \in cand
  BY <1>1, BestIsBest
<1>3. Best(cand) \in linked /\ Best(cand) \in Index
  BY <1>1, <1>2 DEF BaseInv, TypeOK
<1>4. Chain[Best(cand)] \subseteq data /\ Chain[Best(cand)] \subseteq linked
  BY <1>3, LinkedChain DEF BaseInv
<1>5. NewPart \subseteq Chain[Best(cand)] /\ NewPart \cap Chain[tip] = {}
  BY DEF NewPart
<1>6. NewPart \subseteq Index /\ Unusable \in SUBSET Index
  BY <1>3, <1>5, ChainType DEF Unusable
<1>7. Nearest \in Unusable
  <2>1. \E b \in Unusable : \A c \in Unusable : ChainWork[c] <= ChainWork[b]
    BY <1>6, MostWork
  <2> QED
    BY <2>1 DEF Nearest
<1>8. Nearest \in NewPart /\ Nearest \in Failed
  BY <1>4, <1>5, <1>7 DEF Unusable
<1>9. Above \subseteq NewPart
  BY DEF Above
<1>10. ASSUME NEW b \in Above PROVE Nearest \in Chain[b]
  <2>1. b \in Chain[Best(cand)] /\ Nearest \in Chain[Best(cand)] /\ b \in Index /\ Nearest \in Index
    BY <1>5, <1>6, <1>8, <1>9
  <2>2. ChainWork[Nearest] < ChainWork[b]
    BY <2>1, WorseType DEF Above
  <2>3. b \notin Chain[Nearest]
    BY SMT, <2>1, <2>2, ChainGrows, WorseType
  <2> QED
    BY <2>1, <2>3, <1>3, ChainTotal
<1>11. Nearest \in Chain[Nearest] /\ Nearest \in Index
  BY <1>6, <1>8, ChainEnds
<1> QED
  BY <1>2, <1>3, <1>4, <1>5, <1>6, <1>8, <1>9, <1>10, <1>11

LEMMA BaseDiscard ==
  ASSUME BaseInv, NEW t \in Thread, Discard(t)
  PROVE  BaseInv'
<1> USE DEF bounds
<1>1. /\ Nearest \in Failed /\ Above \subseteq linked
  BY DiscardFacts DEF Discard
<1>2. /\ cand' \subseteq cand /\ failedChild' = failedChild \cup Above
      /\ unlinked' = unlinked /\ lock' = t
  BY <1>1 DEF Discard
<1>3. TypeOK'
  BY <1>1, <1>2 DEF Discard, BaseInv, TypeOK
<1>4. LinksExact' /\ TreeInv'
  BY <1>2 DEF Discard, BaseInv, LinksExact, TreeInv
<1>5. \A u \in Thread : ~ Stepping(u) /\ ~ Invalidating(u) /\ ~ Writing(u)
  <2>1. lock \in {Free, t} /\ ~ Stepping(t) /\ ~ Invalidating(t)
    BY DEF Discard, Stepping, Invalidating
  <2> QED
    BY <2>1, Quiet DEF BaseInv
<1>6. \A u \in Thread : ~ Stepping(u)' /\ ~ Invalidating(u)' /\ ~ Writing(u)'
  BY <1>5 DEF Discard, Stepping, Invalidating, Writing
<1>7. LockInv'
  BY <1>2, <1>6 DEF LockInv, Discard
<1>8. GoalInv'
  BY <1>6 DEF GoalInv, Stepping, Invalidating, Writing
<1>9. DiskInv' /\ DiskUsable'
  BY DEF Discard, BaseInv, DiskInv, DiskUsable
<1> QED
  BY <1>3, <1>4, <1>7, <1>8, <1>9 DEF BaseInv

LEMMA BaseSelect ==
  ASSUME BaseInv, NEW t \in Thread, Select(t)
  PROVE  BaseInv'
<1> USE DEF store, flags, bounds
<1>1. \A u \in Thread : ~ Stepping(u) /\ ~ Invalidating(u) /\ ~ Writing(u)
  <2>1. lock \in {Free, t} /\ ~ Stepping(t) /\ ~ Invalidating(t)
    BY DEF Select, Stepping, Invalidating
  <2> QED
    BY <2>1, Quiet DEF BaseInv
<1>2. LinksExact' /\ TreeInv'
  BY DEF Select, BaseInv, LinksExact, TreeInv
<1>3. DiskInv' /\ DiskUsable'
  BY DEF Select, BaseInv, DiskInv, DiskUsable
<1>4. Free \notin Thread
  BY TreeAssumption
<1>5. CASE cand = {} \/ Best(cand) = tip
  <2>1. at' = [at EXCEPT ![t] = "idle"] /\ lock' = Free /\ goal' = goal /\ old' = old
    BY <1>5 DEF Select
  <2>2. TypeOK'
    BY <2>1 DEF Select, BaseInv, TypeOK, Location
  <2>3. \A u \in Thread : ~ Stepping(u)' /\ ~ Invalidating(u)' /\ ~ Writing(u)'
    BY <1>1, <2>1 DEF BaseInv, TypeOK, Stepping, Invalidating, Writing
  <2>4. LockInv'
    BY <1>4, <2>1, <2>3 DEF LockInv
  <2>5. GoalInv'
    BY <2>3 DEF GoalInv, Stepping, Invalidating, Writing
  <2> QED
    BY <1>2, <1>3, <2>2, <2>4, <2>5 DEF BaseInv
<1>6. CASE ~ (cand = {} \/ Best(cand) = tip)
  <2>1. /\ at' = [at EXCEPT ![t] = "step"] /\ lock' = t
        /\ goal' = [goal EXCEPT ![t] = Best(cand)] /\ old' = tip
    BY <1>6 DEF Select
  <2>2. /\ Best(cand) \in cand /\ Best(cand) \in Index
        /\ \A c \in cand : ~ Worse(Best(cand), c)
    <3>1. cand \in SUBSET Index
      BY DEF BaseInv, TypeOK
    <3> QED
      BY <3>1, <1>6, BestIsBest
  <2>3. TypeOK'
    BY <2>1, <2>2 DEF Select, BaseInv, TypeOK, Location
  <2>4. /\ at'[t] = "step" /\ goal'[t] = Best(cand)
        /\ \A u \in Thread : u # t => at'[u] = at[u]
    BY <2>1 DEF BaseInv, TypeOK
  <2>5. \A u \in Thread : u # t => ~ Stepping(u)' /\ ~ Invalidating(u)' /\ ~ Writing(u)'
    BY <1>1, <2>4 DEF Stepping, Invalidating, Writing
  <2>6. LockInv'
    BY <2>1, <2>4, <2>5 DEF LockInv, Stepping, Invalidating
  <2>7. cand' = cand /\ ~ Invalidating(t)' /\ ~ Writing(t)'
    BY <2>4 DEF Select, Invalidating, Writing
  <2>8. GoalInv'
    BY <2>2, <2>4, <2>5, <2>7 DEF GoalInv, Stepping, Invalidating, Writing, Worse
  <2> QED
    BY <1>2, <1>3, <2>3, <2>6, <2>8 DEF BaseInv
<1> QED
  BY <1>5, <1>6

(* A write of the index by the thread that disconnects the tip. *)
LEMMA BaseDisconnectWriteIndex ==
  ASSUME BaseInv, NEW t \in Thread, DisconnectWriteIndex(t)
  PROVE  BaseInv'
<1> USE DEF store, bounds
<1>1. /\ index' = index /\ data' = data /\ linked' = linked /\ undo' = undo
      /\ unlinked' = unlinked /\ tip' = tip /\ diskTip' = diskTip /\ lock' = lock
      /\ goal' = goal /\ old' = old /\ failedValid' = failedValid /\ dirty' = {}
      /\ UNCHANGED bounds
  BY DEF DisconnectWriteIndex
<1>2. tip \in index /\ tip \in Index
  BY DEF BaseInv, TypeOK
<1>3. LinksExact' /\ TreeInv'
  BY <1>1 DEF BaseInv, LinksExact, TreeInv
<1>4. Stepping(t) \/ Invalidating(t)
  BY DEF DisconnectWriteIndex, Stepping, Invalidating
<1>5. /\ lock = t
      /\ \A u \in Thread : u # t => ~ Stepping(u) /\ ~ Invalidating(u) /\ ~ Writing(u)
  BY <1>4, Alone DEF BaseInv
<1>6. PICK D \in SUBSET index, marked \in SUBSET index :
         dirty \subseteq D /\ disk' = IndexWritten(D, undo, marked)
  <2>1. dirty \in SUBSET index /\ dirty \cup {tip} \in SUBSET index /\ failedChild \in SUBSET index
    BY <1>2 DEF BaseInv, TypeOK
  <2>2. failedChild \cup {tip} \in SUBSET index
    BY <1>2, <2>1
  <2>3. \/ disk' = IndexWritten(dirty, undo, failedChild)
        \/ disk' = IndexWritten(dirty \cup {tip}, undo, failedChild \cup {tip})
    BY DEF DisconnectWriteIndex
  <2> QED
    BY <2>1, <2>2, <2>3
<1>7. /\ disk'.index = index /\ disk'.data = data /\ disk'.undo = undo
      /\ disk'.valid \subseteq index /\ disk'.child \subseteq index
      /\ disk' \in [index : SUBSET Index, data : SUBSET Index, undo : SUBSET Index,
                    valid : SUBSET Index, child : SUBSET Index]
  <2>1. undo \in SUBSET data /\ undo \subseteq undo /\ undo \ D \subseteq undo
    BY DEF BaseInv, TypeOK
  <2>2. Wrote(disk', D, undo, marked)
    BY <2>1, <1>6, Synced DEF BaseInv
  <2> QED
    BY <2>2 DEF Wrote
<1>8. DiskInv'
  BY <1>1, <1>7 DEF BaseInv, TypeOK, DiskInv
<1>9. DiskUsable'
  <2>1. /\ Chain[diskTip] \subseteq data /\ Chain[diskTip] \ {Genesis} \subseteq undo
        /\ \A x \in index : Chain[x] \subseteq index
    BY DEF BaseInv, DiskInv, DiskUsable, TreeInv
  <2> QED
    BY <1>1, <1>7, <2>1 DEF DiskUsable
<1>10. CASE /\ at[t] = "step" /\ tip \notin Chain[goal[t]]
            /\ at' = [at EXCEPT ![t] = "step-coins"]
            /\ UNCHANGED <<failedChild, cand>>
  <2>1. TypeOK'
    BY <1>1, <1>7, <1>10 DEF BaseInv, TypeOK, Location
  <2>2. at'[t] = "step-coins" /\ \A u \in Thread : u # t => at'[u] = at[u]
    BY <1>10 DEF BaseInv, TypeOK
  <2>3. \A u \in Thread : u # t => ~ Stepping(u)' /\ ~ Invalidating(u)' /\ ~ Writing(u)'
    BY <1>5, <2>2 DEF Stepping, Invalidating, Writing
  <2>4. LockInv'
    BY <1>1, <1>5, <2>2, <2>3 DEF LockInv, Stepping, Invalidating
  <2>5. goal[t] \in cand /\ \A c \in cand : ~ Worse(goal[t], c)
    BY <1>10 DEF BaseInv, GoalInv, Stepping
  <2>6. GoalInv'
    BY <1>1, <1>10, <2>2, <2>3, <2>5 DEF GoalInv, Stepping, Invalidating, Writing, Worse
  <2> QED
    BY <1>3, <1>8, <1>9, <2>1, <2>4, <2>6 DEF BaseInv
<1>11. CASE /\ at[t] = "invalidate" /\ goal[t] \in Chain[tip]
            /\ at' = [at EXCEPT ![t] = "invalidate-coins"]
            /\ failedChild' = failedChild \cup {tip}
            /\ cand' = cand \ {tip}
  <2>1. TypeOK'
    BY <1>1, <1>2, <1>7, <1>11 DEF BaseInv, TypeOK, Location
  <2>2. at'[t] = "invalidate-coins" /\ \A u \in Thread : u # t => at'[u] = at[u]
    BY <1>11 DEF BaseInv, TypeOK
  <2>3. \A u \in Thread : u # t => ~ Stepping(u)' /\ ~ Invalidating(u)' /\ ~ Writing(u)'
    BY <1>5, <2>2 DEF Stepping, Invalidating, Writing
  <2>4. LockInv'
    BY <1>1, <1>5, <2>2, <2>3 DEF LockInv, Stepping, Invalidating
  <2>5. goal[t] \in Block /\ goal[t] \in failedValid
    BY <1>11 DEF BaseInv, GoalInv, Invalidating
  <2>6. GoalInv'
    BY <1>1, <1>11, <2>2, <2>3, <2>5 DEF GoalInv, Stepping, Invalidating, Writing
  <2> QED
    BY <1>3, <1>8, <1>9, <2>1, <2>4, <2>6 DEF BaseInv
<1> QED
  BY <1>10, <1>11 DEF DisconnectWriteIndex

(* The tip that is disconnected is not the genesis block. *)
LEMMA DisconnectFacts ==
  ASSUME BaseInv, NEW t \in Thread, Writing(t)
  PROVE  /\ tip \in Block /\ Parent[tip] \in Index /\ Parent[tip] \in linked
         /\ Chain[tip] = Chain[Parent[tip]] \cup {tip} /\ tip \notin Chain[Parent[tip]]
         /\ dirty = {}
<1>1. tip \in Index /\ Chain[tip] \subseteq linked
  BY LinkedChain DEF BaseInv, TypeOK
<1>2. tip # Genesis
  <2>1. CASE at[t] = "step-coins"
    <3>1. goal[t] \in Index /\ tip \notin Chain[goal[t]]
      BY <2>1 DEF BaseInv, TypeOK, GoalInv
    <3> QED
      BY <3>1, ChainEnds
  <2>2. CASE at[t] = "invalidate-coins"
    <3>1. goal[t] \in Block /\ goal[t] \in Chain[tip]
      BY <2>2 DEF BaseInv, GoalInv, Invalidating
    <3> QED
      BY SMT, <3>1, TreeAssumption
  <2> QED
    BY <2>1, <2>2 DEF Writing
<1>3. tip \in Block
  BY <1>1, <1>2 DEF Index
<1>4. /\ Parent[tip] \in Index /\ Chain[tip] = Chain[Parent[tip]] \cup {tip}
      /\ tip \notin Chain[Parent[tip]] /\ Parent[tip] \in Chain[Parent[tip]]
  BY <1>3, ParentChain, ChainEnds
<1>5. dirty = {}
  BY DEF BaseInv, GoalInv
<1> QED
  BY <1>1, <1>3, <1>4, <1>5

LEMMA BaseDisconnectTip ==
  ASSUME BaseInv, NEW t \in Thread, DisconnectTip(t)
  PROVE  BaseInv'
<1> USE DEF store, flags, bounds
<1>1. Writing(t) /\ (Stepping(t) \/ Invalidating(t))
  BY DEF DisconnectTip, Writing, Stepping, Invalidating
<1>2. /\ tip \in Block /\ Parent[tip] \in Index /\ Parent[tip] \in linked
      /\ Chain[tip] = Chain[Parent[tip]] \cup {tip} /\ dirty = {}
  BY <1>1, DisconnectFacts
<1>3. /\ lock = t
      /\ \A u \in Thread : u # t => ~ Stepping(u) /\ ~ Invalidating(u) /\ ~ Writing(u)
  BY <1>1, Alone DEF BaseInv
<1>4. tip' = Parent[tip] /\ diskTip' = Parent[tip] /\ dirty' = {} /\ lock' = lock
  BY <1>2 DEF DisconnectTip
<1>5. LinksExact' /\ TreeInv'
  BY <1>2, <1>4 DEF DisconnectTip, BaseInv, LinksExact, TreeInv
<1>6. disk.index = index /\ disk.data = data /\ disk.undo = undo
  BY <1>2 DEF BaseInv, DiskInv
<1>7. DiskInv'
  BY <1>2, <1>4, <1>6, ChainEnds DEF DisconnectTip, BaseInv, DiskInv
<1>8. DiskUsable'
  <2>1. Parent[tip] \in Chain[tip]
    BY <1>2, ChainEnds
  <2>2. /\ Chain[Parent[tip]] \subseteq disk.data /\ Chain[Parent[tip]] \ {Genesis} \subseteq disk.undo
        /\ \A x \in disk.index : Chain[x] \subseteq disk.index
    BY <1>6, <2>1, SyncedUsable DEF BaseInv
  <2> QED
    BY <1>4, <2>2 DEF DisconnectTip, DiskUsable
<1>9. TypeOK'
  BY <1>2, <1>4 DEF DisconnectTip, BaseInv, TypeOK, Location
<1>10. \A u \in Thread : u # t => at'[u] = at[u]
  BY DEF DisconnectTip, BaseInv, TypeOK
<1>11. \A u \in Thread : u # t => ~ Stepping(u)' /\ ~ Invalidating(u)' /\ ~ Writing(u)'
  BY <1>3, <1>10 DEF Stepping, Invalidating, Writing
<1>12. \/ at[t] = "step-coins" /\ at'[t] = "step"
       \/ at[t] = "invalidate-coins" /\ at'[t] = "invalidate"
  BY DEF DisconnectTip, BaseInv, TypeOK
<1>13. LockInv'
  BY <1>3, <1>4, <1>11, <1>12 DEF LockInv, Stepping, Invalidating
<1>14. cand' = cand /\ goal' = goal /\ failedValid' = failedValid
  BY DEF DisconnectTip
<1>15. /\ Stepping(t) => goal[t] \in cand /\ \A c \in cand : ~Worse(goal[t], c)
       /\ Invalidating(t) => goal[t] \in Block /\ goal[t] \in failedValid
  BY DEF BaseInv, GoalInv
<1>16. GoalInv'
  BY <1>11, <1>12, <1>14, <1>15 DEF GoalInv, Stepping, Invalidating, Writing, Worse
<1> QED
  BY <1>5, <1>7, <1>8, <1>9, <1>13, <1>16 DEF BaseInv

(* The next block on the way to the goal. *)
LEMMA ConnectFacts ==
  ASSUME BaseInv, NEW t \in Thread, Connecting(t)
  PROVE  /\ Next1(t) \in Block /\ Next1(t) \in Index /\ Next1(t) \in linked
         /\ Next1(t) \in index /\ Next1(t) \in data
         /\ Parent[Next1(t)] = tip /\ Chain[Next1(t)] = Chain[tip] \cup {Next1(t)}
         /\ Next1(t) \notin Chain[tip]
         /\ goal[t] \in cand /\ goal[t] \in Index /\ Next1(t) \in Chain[goal[t]]
         /\ Chain[Next1(t)] \subseteq Chain[goal[t]]
         /\ lock = t /\ Stepping(t)
         /\ \A u \in Thread : u # t => ~ Stepping(u) /\ ~ Invalidating(u) /\ ~ Writing(u)
<1>1. Stepping(t) /\ tip \in Chain[goal[t]] \ {goal[t]}
  BY DEF Connecting, Stepping
<1>2. goal[t] \in cand /\ goal[t] \in linked /\ goal[t] \in Index
  BY <1>1 DEF BaseInv, TypeOK, GoalInv
<1>3. \E b \in Chain[goal[t]] \ {Genesis} : Parent[b] = tip
  BY <1>1, <1>2, ChainStep
<1>4. Next1(t) \in Chain[goal[t]] \ {Genesis} /\ Parent[Next1(t)] = tip
  BY <1>3 DEF Next1
<1>5. Chain[goal[t]] \subseteq Index /\ Chain[goal[t]] \subseteq linked
  BY <1>2, LinkedChain, ChainType DEF BaseInv
<1>6. Next1(t) \in Block /\ Next1(t) \in Index /\ Next1(t) \in linked
  BY <1>4, <1>5 DEF Index
<1>7. Next1(t) \in index /\ Next1(t) \in data
  BY <1>6 DEF BaseInv, TypeOK
<1>8. Chain[Next1(t)] = Chain[tip] \cup {Next1(t)} /\ Next1(t) \notin Chain[tip]
  BY <1>4, <1>6, ParentChain
<1>9. Chain[Next1(t)] \subseteq Chain[goal[t]]
  BY <1>2, <1>4, ChainWithin
<1>10. /\ lock = t
       /\ \A u \in Thread : u # t => ~ Stepping(u) /\ ~ Invalidating(u) /\ ~ Writing(u)
  BY <1>1, Alone DEF BaseInv
<1> QED
  BY <1>1, <1>2, <1>4, <1>6, <1>7, <1>8, <1>9, <1>10

(* The thread leaves the step: nobody is in a step or an invalidation. *)
LEMMA LeaveQuiet ==
  ASSUME TypeOK, NEW t \in Thread, LeaveStep(t),
         \A u \in Thread : u # t => ~ Stepping(u) /\ ~ Invalidating(u) /\ ~ Writing(u)
  PROVE  /\ LockInv' /\ GoalInv' /\ lock' \in Thread \cup {Free} /\ at' \in [Thread -> Location]
         /\ at'[t] = "check" /\ \A u \in Thread : u # t => at'[u] = at[u]
         /\ \A u \in Thread : ~ Stepping(u)' /\ ~ Invalidating(u)' /\ ~ Writing(u)'
<1>1. at'[t] = "check" /\ \A u \in Thread : u # t => at'[u] = at[u]
  BY DEF LeaveStep, TypeOK
<1>2. \A u \in Thread : ~ Stepping(u)' /\ ~ Invalidating(u)' /\ ~ Writing(u)'
  BY <1>1 DEF Stepping, Invalidating, Writing
<1>3. LockInv'
  BY <1>2, TreeAssumption DEF LockInv, LeaveStep
<1>4. GoalInv'
  BY <1>2 DEF GoalInv, Stepping, Invalidating, Writing
<1>5. lock' \in Thread \cup {Free} /\ at' \in [Thread -> Location]
  BY DEF LeaveStep, TypeOK, Location
<1> QED
  BY <1>1, <1>2, <1>3, <1>4, <1>5

LEMMA BaseConnectInvalid ==
  ASSUME BaseInv, NEW t \in Thread, ConnectInvalid(t)
  PROVE  BaseInv'
<1> USE DEF store, bounds
<1> DEFINE b == Next1(t)
<1>1. /\ b \in index /\ b \in Index
      /\ \A u \in Thread : u # t => ~ Stepping(u) /\ ~ Invalidating(u) /\ ~ Writing(u)
  BY ConnectFacts DEF ConnectInvalid
<1>2. /\ failedValid' = failedValid \cup {b} /\ dirty' = dirty \cup {b}
      /\ cand' = cand \ {b} /\ LeaveStep(t)
  BY DEF ConnectInvalid
<1> HIDE DEF b
<1>3. LockInv' /\ GoalInv' /\ lock' \in Thread \cup {Free} /\ at' \in [Thread -> Location]
  BY <1>1, <1>2, LeaveQuiet DEF BaseInv
<1>4. TypeOK'
  BY <1>1, <1>2, <1>3 DEF ConnectInvalid, BaseInv, TypeOK
<1>5. LinksExact' /\ TreeInv'
  BY DEF ConnectInvalid, BaseInv, LinksExact, TreeInv
<1>6. DiskInv' /\ DiskUsable'
  BY <1>2 DEF ConnectInvalid, BaseInv, DiskInv, DiskUsable
<1> QED
  BY <1>3, <1>4, <1>5, <1>6 DEF BaseInv

LEMMA BaseConnectTip ==
  ASSUME BaseInv, NEW t \in Thread, ConnectTip(t)
  PROVE  BaseInv'
<1> USE DEF flags, bounds
<1> DEFINE b == Next1(t)
<1>1. /\ b \in Index /\ b \in linked /\ b \in index /\ b \in data
      /\ Chain[b] = Chain[tip] \cup {b}
      /\ goal[t] \in cand /\ goal[t] \in Index /\ b \in Chain[goal[t]] /\ lock = t
      /\ \A u \in Thread : u # t => ~ Stepping(u) /\ ~ Invalidating(u) /\ ~ Writing(u)
  BY ConnectFacts DEF ConnectTip
<1>2. /\ undo' = undo \cup {b} /\ tip' = b /\ cand' = Pruned(cand, b)
      /\ \/ dirty' = dirty \cup {b} /\ UNCHANGED <<disk, diskTip>>
         \/ /\ dirty' = {}
            /\ disk' = IndexWritten(dirty \cup {b}, undo', failedChild)
            /\ diskTip' = b
      /\ IF StepDone(t, b) THEN LeaveStep(t) ELSE UNCHANGED <<lock, at>>
      /\ UNCHANGED <<index, data, linked, unlinked, flags, goal, old, bounds>>
  BY DEF ConnectTip
<1>3. at[t] = "step"
  BY DEF ConnectTip, Connecting
<1> HIDE DEF b
<1>4. LinksExact' /\ TreeInv'
  BY <1>1, <1>2 DEF BaseInv, LinksExact, TreeInv
<1>5. undo' \in SUBSET data /\ undo \subseteq undo' /\ undo' \ (dirty \cup {b}) \subseteq undo
  BY <1>1, <1>2 DEF BaseInv, TypeOK
<1>6. /\ DiskInv' /\ DiskUsable' /\ dirty' \subseteq index /\ diskTip' \in Index
      /\ disk' \in [index : SUBSET Index, data : SUBSET Index, undo : SUBSET Index,
                    valid : SUBSET Index, child : SUBSET Index]
  <2>1. CASE dirty' = dirty \cup {b} /\ UNCHANGED <<disk, diskTip>>
    <3>1. DiskInv'
      BY <1>1, <1>2, <2>1 DEF BaseInv, DiskInv
    <3>2. DiskUsable'
      BY <2>1 DEF BaseInv, DiskUsable
    <3> QED
      BY <3>1, <3>2, <2>1, <1>1 DEF BaseInv, TypeOK
  <2>2. CASE /\ dirty' = {}
             /\ disk' = IndexWritten(dirty \cup {b}, undo', failedChild)
             /\ diskTip' = b
    <3>1. dirty \cup {b} \in SUBSET index /\ failedChild \in SUBSET index /\ TypeOK /\ DiskInv
      BY <1>1 DEF BaseInv, TypeOK
    <3>6. Wrote(disk', dirty \cup {b}, undo', failedChild)
      BY <3>1, <2>2, <1>5, Synced
    <3>2. /\ disk'.index = index /\ disk'.data = data /\ disk'.undo = undo'
          /\ disk'.valid \subseteq index /\ disk'.child \subseteq index
          /\ disk' \in [index : SUBSET Index, data : SUBSET Index, undo : SUBSET Index,
                        valid : SUBSET Index, child : SUBSET Index]
      BY <3>6 DEF Wrote
    <3>3. DiskInv'
      BY <1>1, <1>2, <1>5, <2>2, <3>2, ChainEnds DEF BaseInv, TypeOK, DiskInv
    <3>4. Chain[b] \subseteq data /\ Chain[b] \ {Genesis} \subseteq undo'
      BY <1>1, <1>2, <1>4, LinkedChain DEF BaseInv, TreeInv
    <3>5. DiskUsable'
      BY <2>2, <3>2, <3>4 DEF BaseInv, DiskUsable, TreeInv
    <3> QED
      BY <3>2, <3>3, <3>5, <2>2, <1>1
  <2> QED
    BY <2>1, <2>2, <1>2
<1>7. cand' \subseteq cand
  BY <1>2 DEF Pruned
<1>8. CASE StepDone(t, b)
  <2>1. LockInv' /\ GoalInv' /\ lock' \in Thread \cup {Free} /\ at' \in [Thread -> Location]
    BY <1>1, <1>2, <1>8, LeaveQuiet DEF BaseInv
  <2>2. TypeOK'
    BY <1>1, <1>2, <1>5, <1>6, <1>7, <2>1 DEF BaseInv, TypeOK
  <2> QED
    BY <1>4, <1>6, <2>1, <2>2 DEF BaseInv
<1>9. CASE ~ StepDone(t, b)
  <2>1. lock' = lock /\ at' = at
    BY <1>2, <1>9
  <2>2. TypeOK'
    BY <1>1, <1>2, <1>5, <1>6, <1>7, <2>1 DEF BaseInv, TypeOK
  <2>3. LockInv'
    BY <2>1 DEF BaseInv, LockInv, Stepping, Invalidating
  <2>4. goal[t] \in cand'
    BY <1>1, <1>2, AncestorWorse DEF Pruned
  <2>5. \A c \in cand' : ~ Worse(goal[t], c)
    BY <1>3, <1>7 DEF BaseInv, GoalInv, Stepping
  <2>6. GoalInv'
    BY <1>1, <1>2, <1>3, <2>1, <2>4, <2>5
       DEF GoalInv, Stepping, Invalidating, Writing, Worse
  <2> QED
    BY <1>4, <1>6, <2>2, <2>3, <2>6 DEF BaseInv
<1> QED
  BY <1>8, <1>9

LEMMA BaseLoopCheck ==
  ASSUME BaseInv, NEW t \in Thread, LoopCheck(t)
  PROVE  BaseInv'
<1> USE DEF store, flags, bounds
<1>1. /\ at'[t] \in {"idle", "find"} /\ at' \in [Thread -> Location]
      /\ \A u \in Thread : u # t => at'[u] = at[u]
  BY DEF LoopCheck, BaseInv, TypeOK, Location
<1>2. TypeOK'
  BY <1>1 DEF LoopCheck, BaseInv, TypeOK
<1>3. LinksExact' /\ TreeInv'
  BY DEF LoopCheck, BaseInv, LinksExact, TreeInv
<1>4. DiskInv' /\ DiskUsable'
  BY DEF LoopCheck, BaseInv, DiskInv, DiskUsable
<1>5. LockInv'
  <2>1. lock' = lock /\ at[t] = "check"
    BY DEF LoopCheck
  <2>2. lock # t
    BY <2>1 DEF BaseInv, LockInv, Stepping, Invalidating
  <2> QED
    BY <1>1, <2>1, <2>2 DEF BaseInv, LockInv, Stepping, Invalidating
<1>6. GoalInv'
  <2>1. UNCHANGED <<goal, cand, tip, failedValid, dirty>>
    BY DEF LoopCheck
  <2> QED
    BY <1>1, <2>1 DEF BaseInv, GoalInv, Stepping, Invalidating, Writing, Worse
<1> QED
  BY <1>2, <1>3, <1>4, <1>5, <1>6 DEF BaseInv

LEMMA BaseInvalidateBlock ==
  ASSUME BaseInv, NEW t \in Thread, NEW b \in Block, InvalidateBlock(t, b)
  PROVE  BaseInv'
<1> USE DEF store
<1>1. \A u \in Thread : ~ Stepping(u) /\ ~ Invalidating(u) /\ ~ Writing(u)
  BY FreeQuiet DEF BaseInv, InvalidateBlock
<1>2. /\ at'[t] = "invalidate" /\ goal'[t] = b /\ at' \in [Thread -> Location]
      /\ goal' \in [Thread -> Index]
      /\ \A u \in Thread : u # t => at'[u] = at[u]
  BY DEF InvalidateBlock, BaseInv, TypeOK, Location, Index
<1>3. \A u \in Thread : u # t => ~ Stepping(u)' /\ ~ Invalidating(u)' /\ ~ Writing(u)'
  BY <1>1, <1>2 DEF Stepping, Invalidating, Writing
<1>4. invalidates' \in 0..MaxInvalidate
  BY SMT, TreeAssumption DEF InvalidateBlock, BaseInv, TypeOK
<1>5. TypeOK'
  BY <1>2, <1>4 DEF InvalidateBlock, BaseInv, TypeOK
<1>6. LinksExact' /\ TreeInv'
  BY DEF InvalidateBlock, BaseInv, LinksExact, TreeInv
<1>7. DiskInv' /\ DiskUsable'
  BY DEF InvalidateBlock, BaseInv, DiskInv, DiskUsable
<1>8. LockInv'
  BY <1>2, <1>3 DEF InvalidateBlock, LockInv, Stepping, Invalidating
<1>9. GoalInv'
  BY <1>2, <1>3 DEF InvalidateBlock, GoalInv, Stepping, Invalidating, Writing
<1> QED
  BY <1>5, <1>6, <1>7, <1>8, <1>9 DEF BaseInv

LEMMA BaseInvalidateDone ==
  ASSUME BaseInv, NEW t \in Thread, InvalidateDone(t)
  PROVE  BaseInv'
<1> USE DEF store, flags, bounds
<1>1. Invalidating(t)
  BY DEF InvalidateDone, Invalidating
<1>2. \A u \in Thread : u # t => ~ Stepping(u) /\ ~ Invalidating(u) /\ ~ Writing(u)
  BY <1>1, Alone DEF BaseInv
<1>3. /\ at'[t] = "find" /\ at' \in [Thread -> Location]
      /\ \A u \in Thread : u # t => at'[u] = at[u]
  BY DEF InvalidateDone, BaseInv, TypeOK, Location
<1>4. \A u \in Thread : ~ Stepping(u)' /\ ~ Invalidating(u)' /\ ~ Writing(u)'
  BY <1>2, <1>3 DEF Stepping, Invalidating, Writing
<1>5. TypeOK'
  BY <1>3 DEF InvalidateDone, Refilled, BaseInv, TypeOK
<1>6. LinksExact' /\ TreeInv'
  BY DEF InvalidateDone, BaseInv, LinksExact, TreeInv
<1>7. DiskInv' /\ DiskUsable'
  BY DEF InvalidateDone, BaseInv, DiskInv, DiskUsable
<1>8. LockInv'
  BY <1>4, TreeAssumption DEF InvalidateDone, LockInv
<1>9. GoalInv'
  BY <1>4 DEF GoalInv, Stepping, Invalidating, Writing
<1> QED
  BY <1>5, <1>6, <1>7, <1>8, <1>9 DEF BaseInv

LEMMA BaseReconsiderBlock ==
  ASSUME BaseInv, NEW t \in Thread, NEW b \in Block, ReconsiderBlock(t, b)
  PROVE  BaseInv'
<1> USE DEF store
<1>1. \A u \in Thread : ~ Stepping(u) /\ ~ Invalidating(u) /\ ~ Writing(u)
  BY FreeQuiet DEF BaseInv, ReconsiderBlock
<1>2. /\ at'[t] = "find" /\ at' \in [Thread -> Location]
      /\ \A u \in Thread : u # t => at'[u] = at[u]
  BY DEF ReconsiderBlock, BaseInv, TypeOK, Location
<1>3. \A u \in Thread : ~ Stepping(u)' /\ ~ Invalidating(u)' /\ ~ Writing(u)'
  BY <1>1, <1>2 DEF Stepping, Invalidating, Writing
<1>4. reconsiders' \in 0..MaxReconsider
  BY SMT, TreeAssumption DEF ReconsiderBlock, BaseInv, TypeOK
<1>5. /\ failedValid' \subseteq failedValid /\ failedChild' \subseteq failedChild
      /\ dirty \subseteq dirty' /\ dirty' \subseteq index /\ cand' \subseteq linked
  BY DEF ReconsiderBlock, Failed, BaseInv, TypeOK
<1>6. TypeOK'
  BY <1>2, <1>4, <1>5 DEF ReconsiderBlock, BaseInv, TypeOK
<1>7. LinksExact' /\ TreeInv'
  BY DEF ReconsiderBlock, BaseInv, LinksExact, TreeInv
<1>8. DiskInv' /\ DiskUsable'
  BY <1>5 DEF ReconsiderBlock, BaseInv, DiskInv, DiskUsable
<1>9. LockInv'
  BY <1>3, TreeAssumption DEF ReconsiderBlock, LockInv
<1>10. GoalInv'
  BY <1>3 DEF GoalInv, Stepping, Invalidating, Writing
<1> QED
  BY <1>6, <1>7, <1>8, <1>9, <1>10 DEF BaseInv

LEMMA BaseFlush ==
  ASSUME BaseInv, Flush
  PROVE  BaseInv'
<1> USE DEF store, flags, control, bounds
<1>1. \A u \in Thread : ~ Stepping(u) /\ ~ Invalidating(u) /\ ~ Writing(u)
  BY FreeQuiet DEF BaseInv, Flush
<1>2. \A u \in Thread : ~ Stepping(u)' /\ ~ Invalidating(u)' /\ ~ Writing(u)'
  BY <1>1 DEF Flush, Stepping, Invalidating, Writing
<1>3. Wrote(disk', dirty, undo, failedChild)
  <2>1. /\ dirty \in SUBSET index /\ dirty \subseteq dirty /\ undo \in SUBSET data
        /\ undo \subseteq undo /\ undo \ dirty \subseteq undo /\ failedChild \in SUBSET index
    BY DEF BaseInv, TypeOK
  <2>2. disk' = IndexWritten(dirty, undo, failedChild)
    BY DEF Flush
  <2> QED
    BY <2>1, <2>2, Synced DEF BaseInv
<1>4. /\ disk'.index = index /\ disk'.data = data /\ disk'.undo = undo
      /\ disk'.valid \subseteq index /\ disk'.child \subseteq index
      /\ disk' \in [index : SUBSET Index, data : SUBSET Index, undo : SUBSET Index,
                    valid : SUBSET Index, child : SUBSET Index]
  BY <1>3 DEF Wrote
<1>5. diskTip' \in Chain[tip] /\ diskTip' \in Index
  BY ChainEnds DEF Flush, BaseInv, DiskInv, TypeOK
<1>6. TypeOK'
  BY <1>4, <1>5 DEF Flush, BaseInv, TypeOK
<1>7. LinksExact' /\ TreeInv'
  BY DEF Flush, BaseInv, LinksExact, TreeInv
<1>8. DiskInv'
  BY <1>4, <1>5 DEF Flush, BaseInv, DiskInv, TypeOK
<1>9. DiskUsable'
  <2>1. /\ Chain[diskTip'] \subseteq disk'.data /\ Chain[diskTip'] \ {Genesis} \subseteq disk'.undo
        /\ \A x \in disk'.index : Chain[x] \subseteq disk'.index
    BY <1>4, <1>5, SyncedUsable DEF BaseInv
  <2> QED
    BY <2>1 DEF DiskUsable
<1>10. LockInv'
  BY <1>2, TreeAssumption DEF Flush, LockInv
<1>11. GoalInv'
  BY <1>2 DEF GoalInv, Stepping, Invalidating, Writing
<1> QED
  BY <1>6, <1>7, <1>8, <1>9, <1>10, <1>11 DEF BaseInv

LEMMA BaseRestart ==
  ASSUME BaseInv, Restart
  PROVE  BaseInv'
<1>1. /\ index' = disk.index /\ data' = disk.data /\ undo' = disk.undo
      /\ linked' = {x \in disk.data : Chain[x] \subseteq disk.data}
      /\ unlinked' = disk.data \ linked' /\ tip' = diskTip /\ dirty' = {}
      /\ failedValid' = disk.valid /\ failedChild' = disk.child
      /\ cand' = Pruned(linked' \ (disk.valid \cup disk.child), diskTip)
      /\ lock' = Free /\ old' = Genesis /\ disk' = disk /\ diskTip' = diskTip
      /\ at' = [t \in Thread |-> IF t = Main THEN "find" ELSE "idle"]
      /\ goal' = [t \in Thread |-> Genesis]
  BY DEF Restart
<1>2. diskTip \in Index /\ diskTip \in Chain[diskTip] /\ Genesis \in Index
  BY ChainEnds DEF BaseInv, TypeOK, Index
<1>3. disk.data \subseteq disk.index /\ disk.undo \subseteq disk.data /\ disk.index \subseteq Index
  BY DEF BaseInv, DiskInv, TypeOK
<1>4. crashes' \in 0..MaxCrash /\ invalidates' = invalidates /\ reconsiders' = reconsiders
  BY SMT, TreeAssumption DEF Restart, BaseInv, TypeOK
<1>5. tip' \in linked' /\ cand' \subseteq linked'
  BY <1>1, <1>2 DEF BaseInv, DiskUsable, Pruned
<1>6. TypeOK'
  <2>1. at' \in [Thread -> Location] /\ goal' \in [Thread -> Index]
    BY <1>1, <1>2 DEF Location
  <2>2. failedValid' \subseteq index' /\ failedChild' \subseteq index'
    BY <1>1 DEF BaseInv, DiskInv
  <2> QED
    BY <1>1, <1>2, <1>3, <1>4, <1>5, <2>1, <2>2 DEF BaseInv, TypeOK
<1>7. LinksExact'
  <2>1. \A x \in disk.index : Chain[x] \subseteq disk.data => x \in disk.data
    BY <1>3, ChainEnds
  <2> QED
    BY <1>1, <1>3, <2>1 DEF LinksExact
<1>8. TreeInv'
  BY <1>1 DEF BaseInv, DiskUsable, TreeInv
<1>9. DiskInv'
  BY <1>1, <1>2, <1>3 DEF BaseInv, DiskInv
<1>10. DiskUsable'
  BY <1>1 DEF BaseInv, DiskUsable
<1>11. \A u \in Thread : ~ Stepping(u)' /\ ~ Invalidating(u)' /\ ~ Writing(u)'
  BY <1>1 DEF Stepping, Invalidating, Writing
<1>12. LockInv'
  BY <1>1, <1>11, TreeAssumption DEF LockInv
<1>13. GoalInv'
  BY <1>11 DEF GoalInv, Stepping, Invalidating, Writing
<1> QED
  BY <1>6, <1>7, <1>8, <1>9, <1>10, <1>12, <1>13 DEF BaseInv

LEMMA BaseNext == BaseInv /\ [Next]_vars => BaseInv'
<1> SUFFICES ASSUME BaseInv, [Next]_vars PROVE BaseInv'
  OBVIOUS
<1>1. ASSUME NEW t \in Thread, Proceed(t) PROVE BaseInv'
  BY <1>1, BaseDiscard, BaseSelect, BaseDisconnectWriteIndex, BaseDisconnectTip,
     BaseConnectInvalid, BaseConnectTip, BaseLoopCheck, BaseInvalidateDone DEF Proceed
<1>2. ASSUME NEW t \in Thread, NEW b \in Block,
             Accept(t, b) \/ InvalidateBlock(t, b) \/ ReconsiderBlock(t, b)
      PROVE  BaseInv'
  BY <1>2, BaseAcceptKnown, BaseAcceptInvalid, BaseAcceptHeaderOnly, BaseAcceptStored,
     BaseInvalidateBlock, BaseReconsiderBlock DEF Accept
<1> QED
  BY <1>1, <1>2, BaseFlush, BaseRestart, BaseStutter DEF Next

LEMMA BaseAlways == Spec => []BaseInv
<1>1. Init => BaseInv
  BY BaseInit
<1>2. BaseInv /\ [Next]_vars => BaseInv'
  BY BaseNext
<1> QED
  BY <1>1, <1>2, PTL DEF Spec

-----------------------------------------------------------------------------
(* Candidates are no worse than the tip, and when every thread has seen    *)
(* its goal reached none is better.                                        *)

LEMMA NotWorseKept ==
  ASSUME CandidatesNotWorse, cand' \subseteq cand, tip' = tip
  PROVE  CandidatesNotWorse'
BY DEF CandidatesNotWorse, Worse

LEMMA BusyThread ==
  ASSUME NEW t \in Thread, Busy(t)'
  PROVE  NothingBetter'
BY DEF NothingBetter

LEMMA NothingKept ==
  ASSUME NothingBetter, UNCHANGED <<at, goal, cand, tip>>
  PROVE  NothingBetter'
BY DEF NothingBetter, Busy, Worse

LEMMA CandProceed ==
  ASSUME BaseInv, CandInv, NEW t \in Thread, Proceed(t)
  PROVE  CandInv'
<1> USE DEF CandInv
<1>0. cand \in SUBSET Index /\ tip \in Index
  BY DEF BaseInv, TypeOK
<1>1. CASE Discard(t)
  <2>1. Busy(t)' /\ cand' \subseteq cand /\ tip' = tip
    BY <1>1 DEF Discard, Busy
  <2> QED
    BY <2>1, NotWorseKept, BusyThread
<1>2. CASE Select(t)
  <2>1. cand' = cand /\ tip' = tip
    BY <1>2 DEF Select
  <2>2. CASE cand = {} \/ Best(cand) = tip
    <3>1. \A c \in cand : ~ Worse(tip, c)
      BY <1>0, <2>2, BestIsBest
    <3>2. NothingBetter'
      BY <2>1, <3>1 DEF NothingBetter, Worse
    <3> QED
      BY <2>1, <3>2, NotWorseKept
  <2>3. CASE ~ (cand = {} \/ Best(cand) = tip)
    <3>1. Busy(t)'
      BY <1>2, <2>3 DEF Select, Busy, BaseInv, TypeOK
    <3> QED
      BY <2>1, <3>1, NotWorseKept, BusyThread
  <2> QED
    BY <2>2, <2>3
<1>3. CASE DisconnectWriteIndex(t)
  <2>1. Busy(t)' /\ cand' \subseteq cand /\ tip' = tip
    BY <1>3 DEF DisconnectWriteIndex, Busy, BaseInv, TypeOK
  <2> QED
    BY <2>1, NotWorseKept, BusyThread
<1>4. CASE DisconnectTip(t)
  <2>1. Busy(t)' /\ cand' = cand /\ tip' = Parent[tip] /\ Writing(t)
    BY <1>4 DEF DisconnectTip, Busy, BaseInv, TypeOK, Writing
  <2>2. Parent[tip] \in Index /\ Parent[tip] \in Chain[tip]
    BY <2>1, DisconnectFacts, ChainEnds
  <2>3. ~ Worse(tip, Parent[tip])
    BY <1>0, <2>2, AncestorWorse
  <2>4. \A c \in cand : ~ Worse(c, Parent[tip])
    BY <1>0, <2>2, <2>3, NotWorseTransitive DEF CandidatesNotWorse
  <2>5. CandidatesNotWorse'
    BY <2>1, <2>4 DEF CandidatesNotWorse, Worse
  <2> QED
    BY <2>1, <2>5, BusyThread
<1>5. CASE ConnectInvalid(t)
  <2>1. /\ cand' \subseteq cand /\ tip' = tip /\ goal' = goal /\ goal[t] # tip
        /\ at'[t] = "check"
    BY <1>5 DEF ConnectInvalid, Connecting, LeaveStep, BaseInv, TypeOK
  <2>2. Busy(t)'
    BY <2>1 DEF Busy
  <2> QED
    BY <2>1, <2>2, NotWorseKept, BusyThread
<1>6. CASE ConnectTip(t)
  <2> DEFINE b == Next1(t)
  <2>1. /\ cand' = Pruned(cand, b) /\ tip' = b /\ goal' = goal /\ at[t] = "step"
        /\ IF StepDone(t, b) THEN LeaveStep(t) ELSE UNCHANGED <<lock, at>>
    BY <1>6 DEF ConnectTip, Connecting
  <2> HIDE DEF b
  <2>2. CandidatesNotWorse'
    BY <2>1 DEF CandidatesNotWorse, Pruned, Worse
  <2>3. CASE b = goal[t]
    <3>1. \A c \in cand : ~ Worse(goal[t], c)
      BY <2>1 DEF BaseInv, GoalInv, Stepping
    <3>2. \A c \in cand' : ~ Worse(b, c)
      BY <2>1, <2>3, <3>1 DEF Pruned
    <3>3. NothingBetter'
      BY <2>1, <3>2 DEF NothingBetter, Worse
    <3> QED
      BY <2>2, <3>3
  <2>4. CASE b # goal[t]
    <3>1. at'[t] \in {"check", "step"}
      BY <2>1 DEF LeaveStep, BaseInv, TypeOK
    <3>2. Busy(t)'
      BY <2>1, <2>4, <3>1 DEF Busy
    <3> QED
      BY <2>2, <3>2, BusyThread
  <2> QED
    BY <2>3, <2>4
<1>7. CASE LoopCheck(t)
  <2>1. cand' = cand /\ tip' = tip /\ goal' = goal /\ at[t] = "check"
    BY <1>7 DEF LoopCheck
  <2>2. \A u \in Thread : u # t => at'[u] = at[u]
    BY <1>7 DEF LoopCheck, BaseInv, TypeOK
  <2>3. CASE goal[t] = tip
    <3>1. ~ Busy(t)
      BY <2>1, <2>3 DEF Busy
    <3>2. \A u \in Thread : ~ Busy(u)' => ~ Busy(u)
      BY <2>1, <2>2, <3>1 DEF Busy
    <3>3. NothingBetter'
      BY <2>1, <3>2 DEF NothingBetter, Worse
    <3> QED
      BY <2>1, <3>3, NotWorseKept
  <2>4. CASE goal[t] # tip
    <3>1. at'[t] = "find"
      BY <1>7, <2>4 DEF LoopCheck, BaseInv, TypeOK
    <3>2. Busy(t)'
      BY <3>1 DEF Busy
    <3> QED
      BY <2>1, <3>2, NotWorseKept, BusyThread
  <2> QED
    BY <2>3, <2>4
<1>8. CASE InvalidateDone(t)
  <2>1. cand' = Refilled /\ tip' = tip /\ at'[t] = "find"
    BY <1>8 DEF InvalidateDone, BaseInv, TypeOK
  <2>2. Busy(t)'
    BY <2>1 DEF Busy
  <2>3. CandidatesNotWorse'
    BY <2>1 DEF CandidatesNotWorse, Refilled, Worse
  <2> QED
    BY <2>2, <2>3, BusyThread
<1> QED
  BY <1>1, <1>2, <1>3, <1>4, <1>5, <1>6, <1>7, <1>8 DEF Proceed

LEMMA CandRequest ==
  ASSUME BaseInv, CandInv, NEW t \in Thread, NEW b \in Block,
         Accept(t, b) \/ InvalidateBlock(t, b) \/ ReconsiderBlock(t, b)
  PROVE  CandInv'
<1> USE DEF CandInv
<1>1. CASE AcceptKnown(t, b)
  <2>1. Busy(t)' /\ cand' \subseteq cand /\ tip' = tip
    BY <1>1 DEF AcceptKnown, Busy, BaseInv, TypeOK
  <2> QED
    BY <2>1, NotWorseKept, BusyThread
<1>2. CASE AcceptInvalid(t, b)
  <2>1. UNCHANGED <<at, goal, cand, tip>>
    BY <1>2 DEF AcceptInvalid, control
  <2> QED
    BY <2>1, NotWorseKept, NothingKept
<1>3. CASE AcceptHeaderOnly(t, b)
  <2>1. UNCHANGED <<at, goal, cand, tip>>
    BY <1>3 DEF AcceptHeaderOnly, control
  <2> QED
    BY <2>1, NotWorseKept, NothingKept
<1>4. CASE AcceptStored(t, b)
  <2>1. /\ b \notin data /\ Parent[b] \in index
        /\ data' = data \cup {b} /\ index' = index \cup {b} /\ ReceivedBlockTransactions(b)
    BY <1>4 DEF AcceptStored, Enter, HeaderAccepted
  <2>2. cand' = cand \cup Pruned(linked' \ linked, tip)
    BY <2>1, LinksReceived DEF BaseInv
  <2>3. tip' = tip /\ Busy(t)'
    BY <1>4 DEF AcceptStored, Busy, BaseInv, TypeOK
  <2>4. CandidatesNotWorse'
    BY <2>2, <2>3 DEF CandidatesNotWorse, Pruned, Worse
  <2> QED
    BY <2>3, <2>4, BusyThread
<1>5. CASE InvalidateBlock(t, b)
  <2>1. Busy(t)' /\ cand' \subseteq cand /\ tip' = tip
    BY <1>5 DEF InvalidateBlock, Busy, BaseInv, TypeOK
  <2> QED
    BY <2>1, NotWorseKept, BusyThread
<1>6. CASE ReconsiderBlock(t, b)
  <2>1. tip' = tip /\ Busy(t)'
    BY <1>6 DEF ReconsiderBlock, Busy, BaseInv, TypeOK
  <2>2. \A c \in cand' : c \in cand \/ (c \in linked /\ Worse(tip, c))
    BY <1>6 DEF ReconsiderBlock
  <2>3. linked \subseteq Index /\ tip \in Index
    BY DEF BaseInv, TypeOK
  <2>4. \A c \in cand' : ~ Worse(c, tip)
    BY <2>2, <2>3, WorseStrict DEF CandidatesNotWorse
  <2>5. CandidatesNotWorse'
    BY <2>1, <2>4 DEF CandidatesNotWorse, Worse
  <2> QED
    BY <2>1, <2>5, BusyThread
<1> QED
  BY <1>1, <1>2, <1>3, <1>4, <1>5, <1>6 DEF Accept

LEMMA CandNext == BaseInv /\ CandInv /\ [Next]_vars => CandInv'
<1> SUFFICES ASSUME BaseInv, CandInv, [Next]_vars PROVE CandInv'
  OBVIOUS
<1>1. CASE Flush \/ UNCHANGED vars
  <2>1. UNCHANGED <<at, goal, cand, tip>>
    BY <1>1 DEF Flush, vars, control
  <2> QED
    BY <2>1, NotWorseKept, NothingKept DEF CandInv
<1>2. CASE Restart
  <2>1. Main \in Thread /\ at'[Main] = "find"
    BY <1>2, TreeAssumption DEF Restart
  <2>2. Busy(Main)'
    BY <2>1 DEF Busy
  <2>3. CandidatesNotWorse'
    BY <1>2 DEF Restart, CandidatesNotWorse, Pruned, Worse
  <2> QED
    BY <2>1, <2>2, <2>3, BusyThread DEF CandInv
<1> QED
  BY <1>1, <1>2, CandProceed, CandRequest DEF Next

LEMMA CandAlways == Spec => [](BaseInv /\ CandInv)
<1>1. Init => CandInv
  <2>1. Genesis \in Index
    BY DEF Index
  <2> QED
    BY SMT, <2>1, WorseStrict DEF Init, CandInv, CandidatesNotWorse, NothingBetter
<1>2. BaseInv /\ CandInv /\ [Next]_vars => CandInv'
  BY CandNext
<1> QED
  BY <1>1, <1>2, BaseAlways, PTL DEF Spec

-----------------------------------------------------------------------------
(* The active chain is usable *)

LEMMA QuietNext ==
  ASSUME LockInv', NEW t \in Thread, lock' \in {Free, t},
         at'[t] \in {"idle", "find", "check"}
  PROVE  \A u \in Thread : ~ Stepping(u)' /\ ~ Invalidating(u)'
BY SMT, TreeAssumption DEF LockInv, Stepping, Invalidating

(* With nobody in a step or an invalidation only the tip matters. *)
LEMMA QuietUsable ==
  ASSUME \A u \in Thread : ~ Stepping(u)' /\ ~ Invalidating(u)',
         Chain[tip'] \cap Failed' = {}
  PROVE  ChainsUsable'
BY DEF ChainsUsable, Stepping, Invalidating

LEMMA TipUnfailed ==
  ASSUME ChainsUsable, \A u \in Thread : ~ Invalidating(u)
  PROVE  Chain[tip] \cap Failed = {}
BY DEF ChainsUsable

(* A thread is in a step: the tip and the goal have usable chains. *)
LEMMA StepUsable ==
  ASSUME BaseInv, ChainsUsable, NEW t \in Thread, Stepping(t)
  PROVE  /\ Chain[tip] \cap Failed = {} /\ Chain[goal[t]] \cap Failed = {}
         /\ \A u \in Thread : ~ Invalidating(u)
<1>1. \A u \in Thread : ~ Invalidating(u)
  BY Alone DEF BaseInv, Stepping, Invalidating
<1> QED
  BY <1>1 DEF ChainsUsable

LEMMA UsableProceed ==
  ASSUME BaseInv, BaseInv', ChainsUsable, NEW t \in Thread, Proceed(t)
  PROVE  ChainsUsable'
<1>1. CASE Discard(t)
  <2>1. \A u \in Thread : ~ Stepping(u)' /\ ~ Invalidating(u)'
    BY <1>1, QuietNext DEF Discard, BaseInv
  <2>2. \A u \in Thread : ~ Invalidating(u)
    BY <1>1, <2>1 DEF Discard, Invalidating
  <2>3. Chain[tip] \cap Failed = {}
    BY <2>2, TipUnfailed
  <2>4. Above \cap Chain[tip] = {}
    BY <1>1, DiscardFacts DEF Discard
  <2>5. tip' = tip /\ Failed' \subseteq Failed \cup Above
    BY <1>1 DEF Discard, Failed
  <2> QED
    BY <2>1, <2>3, <2>4, <2>5, QuietUsable
<1>2. CASE Select(t)
  <2>1. lock \in {Free, t} /\ ~ Stepping(t) /\ ~ Invalidating(t)
    BY <1>2 DEF Select, Stepping, Invalidating
  <2>2. \A u \in Thread : ~ Stepping(u) /\ ~ Invalidating(u)
    BY <2>1, Quiet DEF BaseInv
  <2>3. Chain[tip] \cap Failed = {}
    BY <2>2, TipUnfailed
  <2>4. tip' = tip /\ Failed' = Failed
    BY <1>2 DEF Select, Failed, flags
  <2>5. CASE cand = {} \/ Best(cand) = tip
    <3>1. lock' = Free /\ at'[t] = "idle"
      BY <1>2, <2>5 DEF Select, BaseInv, TypeOK
    <3>2. \A u \in Thread : ~ Stepping(u)' /\ ~ Invalidating(u)'
      BY <3>1, QuietNext DEF BaseInv
    <3> QED
      BY <2>3, <2>4, <3>2, QuietUsable
  <2>6. CASE ~ (cand = {} \/ Best(cand) = tip)
    <3>1. /\ at'[t] = "step" /\ goal'[t] = Best(cand)
          /\ \A u \in Thread : u # t => at'[u] = at[u]
      BY <1>2, <2>6 DEF Select, BaseInv, TypeOK
    <3>2. Unusable = {}
      BY <1>2, <2>6 DEF Select
    <3>3. Chain[Best(cand)] \cap Failed = {}
      BY <2>3, <3>2 DEF Unusable, NewPart
    <3>4. \A u \in Thread : ~ Invalidating(u)' /\ (Stepping(u)' => u = t)
      BY <2>2, <3>1 DEF Stepping, Invalidating
    <3> QED
      BY <2>3, <2>4, <3>1, <3>3, <3>4 DEF ChainsUsable, Invalidating
  <2> QED
    BY <2>5, <2>6
<1>3. CASE DisconnectWriteIndex(t)
  <2>1. tip' = tip /\ goal' = goal /\ failedValid' = failedValid
    BY <1>3 DEF DisconnectWriteIndex
  <2>2. \A u \in Thread : u # t => at'[u] = at[u]
    BY <1>3 DEF DisconnectWriteIndex, BaseInv, TypeOK
  <2>3. CASE at[t] = "step"
    <3>1. at'[t] = "step-coins" /\ Failed' = Failed
      BY <1>3, <2>1, <2>3 DEF DisconnectWriteIndex, BaseInv, TypeOK, Failed
    <3>2. /\ Chain[tip] \cap Failed = {} /\ Chain[goal[t]] \cap Failed = {}
          /\ \A u \in Thread : ~ Invalidating(u)
      BY <2>3, StepUsable DEF Stepping
    <3>3. \A u \in Thread : ~ Invalidating(u)'
      BY <2>2, <3>1, <3>2 DEF Invalidating
    <3>4. \A u \in Thread : Stepping(u)' => u = t
      BY <2>2, <2>3, Alone, <3>1 DEF BaseInv, Stepping
    <3> QED
      BY <2>1, <3>1, <3>2, <3>3, <3>4 DEF ChainsUsable, Invalidating
  <2>4. CASE at[t] = "invalidate"
    <3>1. at'[t] = "invalidate-coins" /\ Failed' = Failed \cup {tip}
      BY <1>3, <2>1, <2>4 DEF DisconnectWriteIndex, BaseInv, TypeOK, Failed
    <3>2. Chain[tip] \cap Failed \subseteq {goal[t]} /\ MaxInvalidate # 0
      BY <2>4 DEF ChainsUsable, Invalidating
    <3>3. \A u \in Thread : u # t => ~ Stepping(u)' /\ ~ Invalidating(u)'
      BY <2>2, <2>4, Alone DEF BaseInv, Stepping, Invalidating
    <3> QED
      BY <2>1, <3>1, <3>2, <3>3 DEF ChainsUsable, Invalidating, Stepping
  <2> QED
    BY <1>3, <2>3, <2>4 DEF DisconnectWriteIndex
<1>4. CASE DisconnectTip(t)
  <2>1. goal' = goal /\ Failed' = Failed /\ tip' = Parent[tip] /\ Writing(t)
    BY <1>4 DEF DisconnectTip, Writing, Failed, flags
  <2>2. Chain[tip] = Chain[tip'] \cup {tip} /\ tip \notin Chain[tip']
    BY <2>1, DisconnectFacts
  <2>3. \A u \in Thread : u # t => at'[u] = at[u]
    BY <1>4 DEF DisconnectTip, BaseInv, TypeOK
  <2>4. CASE at[t] = "step-coins"
    <3>1. at'[t] = "step"
      BY <1>4, <2>4 DEF DisconnectTip, BaseInv, TypeOK
    <3>2. /\ Chain[tip] \cap Failed = {} /\ Chain[goal[t]] \cap Failed = {}
          /\ \A u \in Thread : ~ Invalidating(u)
      BY <2>4, StepUsable DEF Stepping
    <3>3. \A u \in Thread : ~ Invalidating(u)'
      BY <2>3, <3>1, <3>2 DEF Invalidating
    <3>4. \A u \in Thread : Stepping(u)' => u = t
      BY <2>3, <2>4, Alone, <3>1 DEF BaseInv, Stepping
    <3> QED
      BY <2>1, <2>2, <3>1, <3>2, <3>3, <3>4 DEF ChainsUsable, Invalidating
  <2>5. CASE at[t] = "invalidate-coins"
    <3>1. at'[t] = "invalidate"
      BY <1>4, <2>5 DEF DisconnectTip, BaseInv, TypeOK
    <3>2. Chain[tip] \cap Failed \subseteq {goal[t], tip} /\ MaxInvalidate # 0
      BY <2>5 DEF ChainsUsable, Invalidating
    <3>3. \A u \in Thread : u # t => ~ Stepping(u)' /\ ~ Invalidating(u)'
      BY <2>3, <2>5, Alone DEF BaseInv, Stepping, Invalidating
    <3> QED
      BY SMT, <2>1, <2>2, <3>1, <3>2, <3>3 DEF ChainsUsable, Invalidating, Stepping
  <2> QED
    BY <2>1, <2>4, <2>5 DEF Writing
<1>5. CASE ConnectInvalid(t)
  <2>1. Connecting(t) /\ Stepping(t)
    BY <1>5 DEF ConnectInvalid, Connecting, Stepping
  <2>2. Chain[tip] \cap Failed = {}
    BY <2>1, StepUsable
  <2>3. Next1(t) \notin Chain[tip]
    BY <2>1, ConnectFacts
  <2>4. tip' = tip /\ Failed' = Failed \cup {Next1(t)} /\ lock' = Free /\ at'[t] = "check"
    BY <1>5 DEF ConnectInvalid, LeaveStep, Failed, BaseInv, TypeOK
  <2>5. \A u \in Thread : ~ Stepping(u)' /\ ~ Invalidating(u)'
    BY <2>4, QuietNext DEF BaseInv
  <2> QED
    BY <2>2, <2>3, <2>4, <2>5, QuietUsable
<1>6. CASE ConnectTip(t)
  <2>1. Connecting(t) /\ Stepping(t)
    BY <1>6 DEF ConnectTip, Connecting, Stepping
  <2>2. /\ Chain[goal[t]] \cap Failed = {} /\ \A u \in Thread : ~ Invalidating(u)
    BY <2>1, StepUsable
  <2>3. Chain[Next1(t)] \subseteq Chain[goal[t]]
    BY <2>1, ConnectFacts
  <2>4. tip' = Next1(t) /\ Failed' = Failed /\ goal' = goal
    BY <1>6 DEF ConnectTip, Failed, flags
  <2>5. at' = at \/ LeaveStep(t)
    BY <1>6 DEF ConnectTip
  <2>6. CASE at' = at
    <3>1. \A u \in Thread : ~ Invalidating(u)' /\ (Stepping(u)' => u = t)
      BY <2>1, <2>2, <2>6, Alone DEF BaseInv, Stepping, Invalidating
    <3> QED
      BY <2>2, <2>3, <2>4, <3>1 DEF ChainsUsable, Invalidating
  <2>7. CASE LeaveStep(t)
    <3>1. lock' = Free /\ at'[t] = "check"
      BY <2>7 DEF LeaveStep, BaseInv, TypeOK
    <3>2. \A u \in Thread : ~ Stepping(u)' /\ ~ Invalidating(u)'
      BY <3>1, QuietNext DEF BaseInv
    <3> QED
      BY <2>2, <2>3, <2>4, <3>2, QuietUsable
  <2> QED
    BY <2>5, <2>6, <2>7
<1>7. CASE LoopCheck(t)
  <2>1. tip' = tip /\ Failed' = Failed /\ goal' = goal /\ at[t] = "check"
    BY <1>7 DEF LoopCheck, Failed, flags
  <2>2. at'[t] \in {"idle", "find"} /\ \A u \in Thread : u # t => at'[u] = at[u]
    BY <1>7 DEF LoopCheck, BaseInv, TypeOK
  <2>3. \A u \in Thread : /\ Stepping(u)' <=> Stepping(u)
                          /\ Invalidating(u)' <=> Invalidating(u)
                          /\ at'[u] = "invalidate" <=> at[u] = "invalidate"
                          /\ at'[u] = "invalidate-coins" <=> at[u] = "invalidate-coins"
    BY <2>1, <2>2 DEF Stepping, Invalidating
  <2> QED
    BY <2>1, <2>3 DEF ChainsUsable
<1>8. CASE InvalidateDone(t)
  <2>1. Chain[tip] \cap Failed \subseteq {goal[t]} /\ goal[t] \notin Chain[tip]
    BY <1>8 DEF InvalidateDone, ChainsUsable
  <2>2. lock' = Free /\ at'[t] = "find" /\ tip' = tip /\ Failed' = Failed
    BY <1>8 DEF InvalidateDone, Failed, flags, BaseInv, TypeOK
  <2>3. \A u \in Thread : ~ Stepping(u)' /\ ~ Invalidating(u)'
    BY <2>2, QuietNext DEF BaseInv
  <2> QED
    BY <2>1, <2>2, <2>3, QuietUsable
<1> QED
  BY <1>1, <1>2, <1>3, <1>4, <1>5, <1>6, <1>7, <1>8 DEF Proceed

LEMMA UsableRequest ==
  ASSUME BaseInv, BaseInv', ChainsUsable, NEW t \in Thread, NEW b \in Block,
         Accept(t, b) \/ InvalidateBlock(t, b) \/ ReconsiderBlock(t, b)
  PROVE  ChainsUsable'
<1>1. lock = Free /\ tip' = tip
  BY DEF Accept, AcceptKnown, AcceptInvalid, AcceptHeaderOnly, AcceptStored, Enter,
         InvalidateBlock, ReconsiderBlock
<1>2. \A u \in Thread : ~ Stepping(u) /\ ~ Invalidating(u)
  BY <1>1, FreeQuiet DEF BaseInv
<1>3. Chain[tip] \cap Failed = {}
  BY <1>2, TipUnfailed
<1>4. CASE Accept(t, b)
  <2>1. lock' = Free /\ at'[t] \in {"idle", "find"}
    BY <1>1, <1>4 DEF Accept, AcceptKnown, AcceptInvalid, AcceptHeaderOnly, AcceptStored, Enter,
       control, BaseInv, TypeOK
  <2>2. \A u \in Thread : ~ Stepping(u)' /\ ~ Invalidating(u)'
    BY <2>1, QuietNext DEF BaseInv
  <2>3. Failed' = Failed \/ (Failed' = Failed \cup {b} /\ b \notin data)
    BY <1>4 DEF Accept, AcceptKnown, AcceptInvalid, AcceptHeaderOnly, AcceptStored, flags, Failed
  <2>4. Chain[tip] \subseteq data
    BY LinkedChain DEF BaseInv, TypeOK
  <2> QED
    BY <1>1, <1>3, <2>2, <2>3, <2>4, QuietUsable
<1>5. CASE InvalidateBlock(t, b)
  <2>1. /\ at'[t] = "invalidate" /\ goal'[t] = b /\ Failed' = Failed \cup {b}
        /\ \A u \in Thread : u # t => at'[u] = at[u]
    BY <1>5 DEF InvalidateBlock, Failed, BaseInv, TypeOK
  <2>2. MaxInvalidate # 0
    BY SMT, <1>5 DEF InvalidateBlock, BaseInv, TypeOK
  <2>3. \A u \in Thread : u # t => ~ Stepping(u)' /\ ~ Invalidating(u)'
    BY <1>2, <2>1 DEF Stepping, Invalidating
  <2> QED
    BY <1>1, <1>3, <2>1, <2>2, <2>3 DEF ChainsUsable, Stepping, Invalidating
<1>6. CASE ReconsiderBlock(t, b)
  <2>1. lock' = Free /\ at'[t] = "find" /\ Failed' \subseteq Failed
    BY <1>1, <1>6 DEF ReconsiderBlock, Failed, BaseInv, TypeOK
  <2>2. \A u \in Thread : ~ Stepping(u)' /\ ~ Invalidating(u)'
    BY <2>1, QuietNext DEF BaseInv
  <2> QED
    BY <1>1, <1>3, <2>1, <2>2, QuietUsable
<1> QED
  BY <1>4, <1>5, <1>6

(* Nothing is lost on disk, so what it marks is failed in memory. *)
LEMMA MarksSynced ==
  ASSUME BaseInv', ChainsUsable', disk'.valid \subseteq failedValid',
         disk'.child \subseteq failedChild'
  PROVE  DiskMarks'
<1>1. ASSUME MaxInvalidate = 0 PROVE Chain[diskTip'] \cap (disk'.valid \cup disk'.child) = {}
  <2>1. \A u \in Thread : ~ Invalidating(u)'
    BY <1>1 DEF ChainsUsable
  <2>2. Chain[tip'] \cap Failed' = {}
    BY <2>1 DEF ChainsUsable
  <2>3. tip' \in Index /\ diskTip' \in Chain[tip']
    BY DEF BaseInv, TypeOK, DiskInv
  <2>4. Chain[diskTip'] \subseteq Chain[tip']
    BY <2>3, ChainWithin
  <2>5. disk'.valid \cup disk'.child \subseteq Failed'
    BY DEF Failed
  <2> QED
    BY <2>2, <2>4, <2>5
<1> QED
  BY <1>1 DEF DiskMarks

LEMMA MarksKept ==
  ASSUME DiskMarks, UNCHANGED <<disk, diskTip>>, dirty \subseteq dirty',
         failedValid \ failedValid' \subseteq dirty', failedChild \ failedChild' \subseteq dirty'
  PROVE  DiskMarks'
BY DEF DiskMarks

(* A write of the dirty entries leaves only the marks of memory on disk. *)
LEMMA MarksWritten ==
  ASSUME BaseInv, DiskMarks, NEW D \in SUBSET index, dirty \subseteq D,
         NEW undone \in SUBSET data, undo \subseteq undone, undone \ D \subseteq undo,
         NEW marked \in SUBSET index, failedChild \subseteq marked
  PROVE  /\ IndexWritten(D, undone, marked).valid \subseteq failedValid
         /\ IndexWritten(D, undone, marked).child \subseteq marked
<1>1. Wrote(IndexWritten(D, undone, marked), D, undone, marked)
  BY Synced DEF BaseInv
<1> QED
  BY <1>1 DEF Wrote, DiskMarks

LEMMA MarksNext ==
  ASSUME BaseInv, BaseInv', ChainsUsable', DiskMarks, [Next]_vars
  PROVE  DiskMarks'
<1>0. /\ dirty \in SUBSET index /\ undo \in SUBSET data /\ failedChild \in SUBSET index
      /\ tip \in index /\ dirty \subseteq dirty /\ undo \subseteq undo
      /\ undo \ dirty \subseteq undo /\ failedChild \subseteq failedChild
  BY DEF BaseInv, TypeOK
<1>1. CASE Flush
  <2>1. disk' = IndexWritten(dirty, undo, failedChild) /\ UNCHANGED flags
    BY <1>1 DEF Flush
  <2>2. disk'.valid \subseteq failedValid /\ disk'.child \subseteq failedChild
    BY <1>0, <2>1, MarksWritten
  <2> QED
    BY <2>1, <2>2, MarksSynced DEF flags
<1>2. ASSUME NEW t \in Thread, DisconnectWriteIndex(t) PROVE DiskMarks'
  <2>1. failedValid' = failedValid
    BY <1>2 DEF DisconnectWriteIndex
  <2>2. CASE disk' = IndexWritten(dirty, undo, failedChild) /\ failedChild' = failedChild
    <3>1. disk'.valid \subseteq failedValid /\ disk'.child \subseteq failedChild
      BY <1>0, <2>2, MarksWritten
    <3> QED
      BY <2>1, <2>2, <3>1, MarksSynced
  <2>3. CASE /\ disk' = IndexWritten(dirty \cup {tip}, undo, failedChild \cup {tip})
             /\ failedChild' = failedChild \cup {tip}
    <3>1. /\ dirty \cup {tip} \in SUBSET index /\ dirty \subseteq dirty \cup {tip}
          /\ undo \ (dirty \cup {tip}) \subseteq undo
          /\ failedChild \cup {tip} \in SUBSET index /\ failedChild \subseteq failedChild \cup {tip}
      BY <1>0
    <3>2. disk'.valid \subseteq failedValid /\ disk'.child \subseteq failedChild \cup {tip}
      BY <1>0, <2>3, <3>1, MarksWritten
    <3> QED
      BY <2>1, <2>3, <3>2, MarksSynced
  <2> QED
    BY <1>2, <2>2, <2>3 DEF DisconnectWriteIndex
<1>3. ASSUME NEW t \in Thread, DisconnectTip(t) PROVE DiskMarks'
  <2>1. Writing(t) /\ disk' = disk /\ UNCHANGED flags
    BY <1>3 DEF DisconnectTip, Writing
  <2>2. dirty = {}
    BY <2>1, DisconnectFacts
  <2>3. disk'.valid \subseteq failedValid' /\ disk'.child \subseteq failedChild'
    BY <2>1, <2>2 DEF DiskMarks, flags
  <2> QED
    BY <2>3, MarksSynced
<1>4. ASSUME NEW t \in Thread, ConnectTip(t) PROVE DiskMarks'
  <2> DEFINE b == Next1(t)
  <2>1. b \in index /\ b \in data
    BY <1>4, ConnectFacts DEF ConnectTip
  <2>2. /\ undo' = undo \cup {b} /\ UNCHANGED flags
        /\ \/ dirty' = dirty \cup {b} /\ UNCHANGED <<disk, diskTip>>
           \/ disk' = IndexWritten(dirty \cup {b}, undo', failedChild)
    BY <1>4 DEF ConnectTip
  <2> HIDE DEF b
  <2>3. CASE dirty' = dirty \cup {b} /\ UNCHANGED <<disk, diskTip>>
    BY <2>2, <2>3, MarksKept DEF flags
  <2>4. CASE disk' = IndexWritten(dirty \cup {b}, undo', failedChild)
    <3>1. /\ dirty \cup {b} \in SUBSET index /\ dirty \subseteq dirty \cup {b}
          /\ undo' \in SUBSET data /\ undo \subseteq undo'
          /\ undo' \ (dirty \cup {b}) \subseteq undo
      BY <1>0, <2>1, <2>2
    <3>2. disk'.valid \subseteq failedValid /\ disk'.child \subseteq failedChild
      BY <1>0, <2>4, <3>1, MarksWritten
    <3> QED
      BY <2>2, <3>2, MarksSynced DEF flags
  <2> QED
    BY <2>2, <2>3, <2>4
<1>5. ASSUME NEW t \in Thread,
             Discard(t) \/ Select(t) \/ ConnectInvalid(t) \/ LoopCheck(t) \/ InvalidateDone(t)
      PROVE  DiskMarks'
  <2>1. /\ UNCHANGED <<disk, diskTip>> /\ dirty \subseteq dirty'
        /\ failedValid \subseteq failedValid' /\ failedChild \subseteq failedChild'
    BY <1>5 DEF Discard, Select, ConnectInvalid, LoopCheck, InvalidateDone, flags
  <2> QED
    BY <2>1, MarksKept
<1>6. ASSUME NEW t \in Thread, NEW b \in Block, Accept(t, b) \/ InvalidateBlock(t, b)
      PROVE  DiskMarks'
  <2>1. /\ UNCHANGED <<disk, diskTip>> /\ dirty \subseteq dirty'
        /\ failedValid \subseteq failedValid' /\ failedChild \subseteq failedChild'
    BY <1>6 DEF Accept, AcceptKnown, AcceptInvalid, AcceptHeaderOnly, AcceptStored,
       InvalidateBlock, flags
  <2> QED
    BY <2>1, MarksKept
<1>7. ASSUME NEW t \in Thread, NEW b \in Block, ReconsiderBlock(t, b) PROVE DiskMarks'
  <2>1. /\ UNCHANGED <<disk, diskTip>> /\ dirty \subseteq dirty'
        /\ failedValid \ failedValid' \subseteq dirty' /\ failedChild \ failedChild' \subseteq dirty'
    BY <1>7 DEF ReconsiderBlock
  <2> QED
    BY <2>1, MarksKept
<1>8. CASE Restart
  BY <1>8 DEF Restart, DiskMarks
<1>9. CASE UNCHANGED vars
  BY <1>9 DEF vars, flags, DiskMarks
<1> QED
  BY <1>1, <1>2, <1>3, <1>4, <1>5, <1>6, <1>7, <1>8, <1>9 DEF Next, Proceed

LEMMA UsableNext ==
  ASSUME NoTornInvalidation, BaseInv, BaseInv', UsableInv, [Next]_vars
  PROVE  UsableInv'
<1>1. ChainsUsable'
  <2>1. CASE Restart
    <3>1. lock' = Free /\ tip' = diskTip /\ Failed' = disk.valid \cup disk.child
      BY <2>1 DEF Restart, Failed
    <3>2. MaxInvalidate = 0
      BY SMT, <2>1 DEF Restart, NoTornInvalidation, BaseInv, TypeOK
    <3>3. Chain[tip'] \cap Failed' = {}
      BY <3>1, <3>2 DEF UsableInv, DiskMarks
    <3>4. \A u \in Thread : ~ Stepping(u)' /\ ~ Invalidating(u)'
      BY <2>1 DEF Restart, Stepping, Invalidating
    <3> QED
      BY <3>3, <3>4, QuietUsable
  <2>2. CASE Flush \/ UNCHANGED vars
    <3>1. UNCHANGED <<at, goal, tip, failedValid, failedChild>>
      BY <2>2 DEF Flush, vars, flags, control
    <3> QED
      BY <3>1 DEF UsableInv, ChainsUsable, Stepping, Invalidating, Failed
  <2> QED
    BY <2>1, <2>2, UsableProceed, UsableRequest DEF Next, UsableInv
<1>2. DiskMarks'
  BY <1>1, MarksNext DEF UsableInv
<1> QED
  BY <1>1, <1>2 DEF UsableInv

LEMMA UsableAlways == NoTornInvalidation => (Spec => [](BaseInv /\ UsableInv))
<1> SUFFICES ASSUME NoTornInvalidation PROVE Spec => [](BaseInv /\ UsableInv)
  OBVIOUS
<1>1. Init => UsableInv
  BY SMT DEF Init, UsableInv, ChainsUsable, DiskMarks, Failed, Stepping, Invalidating
<1>2. BaseInv /\ BaseInv' /\ UsableInv /\ [Next]_vars => UsableInv'
  BY UsableNext
<1> QED
  BY <1>1, <1>2, BaseAlways, PTL DEF Spec

-----------------------------------------------------------------------------
(* Marks and their causes, without reconsiderblock *)

(* Only ConnectTip extends the active chain. *)
LEMMA TipMoves ==
  ASSUME BaseInv, [Next]_vars
  PROVE  \/ tip' = tip
         \/ tip' \in Chain[tip]
         \/ \E t \in Thread : ConnectTip(t)
<1>1. ASSUME NEW t \in Thread, DisconnectTip(t) PROVE tip' \in Chain[tip]
  <2>1. Writing(t) /\ tip' = Parent[tip]
    BY <1>1 DEF DisconnectTip, Writing
  <2> QED
    BY <2>1, DisconnectFacts, ChainEnds
<1>2. CASE Restart
  BY <1>2 DEF Restart, BaseInv, DiskInv
<1>3. ASSUME NEW t \in Thread,
             \/ Discard(t) \/ Select(t) \/ DisconnectWriteIndex(t) \/ ConnectInvalid(t)
             \/ LoopCheck(t) \/ InvalidateDone(t)
      PROVE  tip' = tip
  BY <1>3 DEF Discard, Select, DisconnectWriteIndex, ConnectInvalid, LoopCheck, InvalidateDone
<1>4. ASSUME NEW t \in Thread, NEW b \in Block,
             Accept(t, b) \/ InvalidateBlock(t, b) \/ ReconsiderBlock(t, b)
      PROVE  tip' = tip
  BY <1>4 DEF Accept, AcceptKnown, AcceptInvalid, AcceptHeaderOnly, AcceptStored,
     InvalidateBlock, ReconsiderBlock
<1>5. CASE Flush \/ UNCHANGED vars
  BY <1>5 DEF Flush, vars
<1> QED
  BY <1>1, <1>2, <1>3, <1>4, <1>5 DEF Next, Proceed

LEMMA ConnectedNext ==
  ASSUME BaseInv, Connected, [Next]_vars
  PROVE  Connected'
<1>1. CASE tip' = tip \/ tip' \in Chain[tip]
  <2>1. tip \in Index
    BY DEF BaseInv, TypeOK
  <2>2. Chain[tip'] \subseteq Chain[tip]
    BY <1>1, <2>1, ChainWithin
  <2> QED
    BY <2>2 DEF Connected
<1>2. ASSUME NEW t \in Thread, ConnectTip(t) PROVE Connected'
  <2>1. /\ tip' = Next1(t) /\ Next1(t) \notin BadConnect
        /\ Chain[Next1(t)] = Chain[tip] \cup {Next1(t)}
    BY <1>2, ConnectFacts DEF ConnectTip
  <2> QED
    BY <2>1 DEF Connected
<1> QED
  BY <1>1, <1>2, TipMoves

LEMMA ConnectedAlways == Spec => []Connected
<1>1. Init => Connected
  BY SMT, TreeAssumption DEF Init, Connected
<1>2. BaseInv /\ Connected /\ [Next]_vars => Connected'
  BY ConnectedNext
<1> QED
  BY <1>1, <1>2, BaseAlways, PTL DEF Spec

LEMMA MarkKept ==
  ASSUME MarkInv, UNCHANGED disk, dirty \subseteq dirty', failedValid \subseteq failedValid',
         failedValid' \ failedValid \subseteq dirty', failedChild' = failedChild
  PROVE  MarkInv'
BY DEF MarkInv

(* A write leaves exactly the marks of memory, with their causes. *)
LEMMA MarkWritten ==
  ASSUME BaseInv, MarkInv, NEW D \in SUBSET index, dirty \subseteq D,
         NEW undone \in SUBSET data, undo \subseteq undone, undone \ D \subseteq undo,
         NEW marked \in SUBSET index, \A b \in marked : Chain[b] \cap failedValid # {},
         disk' = IndexWritten(D, undone, marked), failedValid' = failedValid,
         failedChild' = marked
  PROVE  MarkInv'
<1>1. Wrote(disk', D, undone, marked)
  BY Synced DEF BaseInv
<1>2. disk'.valid = failedValid
  BY <1>1 DEF Wrote, MarkInv
<1>3. ASSUME NEW b \in disk'.child PROVE Chain[b] \cap failedValid # {}
  <2>1. b \in disk.child \/ b \in marked
    BY <1>1, <1>3 DEF Wrote
  <2> QED
    BY <2>1 DEF MarkInv
<1> QED
  BY <1>2, <1>3 DEF MarkInv

LEMMA MarkNext ==
  ASSUME MaxReconsider = 0, BaseInv, MarkInv, [Next]_vars
  PROVE  MarkInv'
<1>0. /\ dirty \in SUBSET index /\ undo \in SUBSET data /\ failedChild \in SUBSET index
      /\ tip \in index /\ dirty \subseteq dirty /\ undo \subseteq undo
      /\ undo \ dirty \subseteq undo
      /\ \A b \in failedChild : Chain[b] \cap failedValid # {}
  BY DEF BaseInv, TypeOK, MarkInv
<1>1. CASE Flush
  <2>1. disk' = IndexWritten(dirty, undo, failedChild) /\ UNCHANGED flags
    BY <1>1 DEF Flush
  <2> QED
    BY <1>0, <2>1, MarkWritten DEF flags
<1>2. ASSUME NEW t \in Thread, DisconnectWriteIndex(t) PROVE MarkInv'
  <2>1. failedValid' = failedValid
    BY <1>2 DEF DisconnectWriteIndex
  <2>2. CASE disk' = IndexWritten(dirty, undo, failedChild) /\ failedChild' = failedChild
    BY <1>0, <2>1, <2>2, MarkWritten
  <2>3. CASE /\ at[t] = "invalidate" /\ goal[t] \in Chain[tip]
             /\ disk' = IndexWritten(dirty \cup {tip}, undo, failedChild \cup {tip})
             /\ failedChild' = failedChild \cup {tip}
    <3>1. /\ dirty \cup {tip} \in SUBSET index /\ dirty \subseteq dirty \cup {tip}
          /\ undo \ (dirty \cup {tip}) \subseteq undo
          /\ failedChild \cup {tip} \in SUBSET index
      BY <1>0
    <3>2. Chain[tip] \cap failedValid # {}
      BY <2>3 DEF BaseInv, GoalInv, Invalidating
    <3>3. \A b \in failedChild \cup {tip} : Chain[b] \cap failedValid # {}
      BY <1>0, <3>2
    <3> QED
      BY <1>0, <2>1, <2>3, <3>1, <3>3, MarkWritten
  <2> QED
    BY <1>2, <2>2, <2>3 DEF DisconnectWriteIndex
<1>3. ASSUME NEW t \in Thread, ConnectTip(t) PROVE MarkInv'
  <2> DEFINE b == Next1(t)
  <2>1. b \in index /\ b \in data
    BY <1>3, ConnectFacts DEF ConnectTip
  <2>2. /\ undo' = undo \cup {b} /\ UNCHANGED flags
        /\ \/ dirty' = dirty \cup {b} /\ UNCHANGED <<disk, diskTip>>
           \/ disk' = IndexWritten(dirty \cup {b}, undo', failedChild)
    BY <1>3 DEF ConnectTip
  <2> HIDE DEF b
  <2>3. CASE dirty' = dirty \cup {b} /\ UNCHANGED <<disk, diskTip>>
    BY <2>2, <2>3, MarkKept DEF flags
  <2>4. CASE disk' = IndexWritten(dirty \cup {b}, undo', failedChild)
    <3>1. /\ dirty \cup {b} \in SUBSET index /\ dirty \subseteq dirty \cup {b}
          /\ undo' \in SUBSET data /\ undo \subseteq undo'
          /\ undo' \ (dirty \cup {b}) \subseteq undo
      BY <1>0, <2>1, <2>2
    <3> QED
      BY <1>0, <2>2, <2>4, <3>1, MarkWritten DEF flags
  <2> QED
    BY <2>2, <2>3, <2>4
<1>4. ASSUME NEW t \in Thread, Discard(t) PROVE MarkInv'
  <2>1. Nearest \in Failed /\ \A b \in Above : Nearest \in Chain[b] /\ b \in Index
    BY <1>4, DiscardFacts DEF Discard
  <2>2. /\ failedChild' = failedChild \cup Above /\ failedValid' = failedValid
        /\ disk' = disk /\ dirty' = dirty
    BY <1>4, <2>1 DEF Discard
  <2>3. Nearest \in Index /\ Nearest \in Chain[Nearest]
    BY <1>4, DiscardFacts DEF Discard
  <2>4. Chain[Nearest] \cap failedValid # {}
    BY <1>0, <2>1, <2>3 DEF Failed
  <2>5. ASSUME NEW b \in Above PROVE Chain[b] \cap failedValid # {}
    <3>1. Chain[Nearest] \subseteq Chain[b]
      BY <2>1, ChainWithin
    <3> QED
      BY <3>1, <2>4
  <2> QED
    BY <2>2, <2>5 DEF MarkInv
<1>5. ASSUME NEW t \in Thread,
             Select(t) \/ DisconnectTip(t) \/ LoopCheck(t) \/ InvalidateDone(t)
      PROVE  MarkInv'
  <2>1. UNCHANGED <<failedValid, failedChild, disk, dirty>>
    BY <1>5 DEF Select, DisconnectTip, LoopCheck, InvalidateDone, flags
  <2> QED
    BY <2>1, MarkKept
<1>6. ASSUME NEW t \in Thread, ConnectInvalid(t) PROVE MarkInv'
  BY <1>6, MarkKept DEF ConnectInvalid
<1>7. ASSUME NEW t \in Thread, NEW b \in Block, Accept(t, b) \/ InvalidateBlock(t, b)
      PROVE  MarkInv'
  <2>1. /\ UNCHANGED <<disk, failedChild>> /\ dirty \subseteq dirty'
        /\ failedValid \subseteq failedValid' /\ failedValid' \ failedValid \subseteq dirty'
    BY <1>7 DEF Accept, AcceptKnown, AcceptInvalid, AcceptHeaderOnly, AcceptStored,
       InvalidateBlock, flags
  <2> QED
    BY <2>1, MarkKept
<1>8. ASSUME NEW t \in Thread, NEW b \in Block, ReconsiderBlock(t, b) PROVE FALSE
  BY SMT, <1>8 DEF ReconsiderBlock, BaseInv, TypeOK
<1>9. CASE Restart
  BY <1>9 DEF Restart, MarkInv
<1>10. CASE UNCHANGED vars
  BY <1>10 DEF vars, flags, MarkInv
<1> QED
  BY <1>1, <1>2, <1>3, <1>4, <1>5, <1>6, <1>7, <1>8, <1>9, <1>10 DEF Next, Proceed

LEMMA MarkAlways == MaxReconsider = 0 => (Spec => []MarkInv)
<1> SUFFICES ASSUME MaxReconsider = 0 PROVE Spec => []MarkInv
  OBVIOUS
<1>1. Init => MarkInv
  BY SMT DEF Init, MarkInv
<1>2. BaseInv /\ MarkInv /\ [Next]_vars => MarkInv'
  BY MarkNext
<1> QED
  BY <1>1, <1>2, BaseAlways, PTL DEF Spec

-----------------------------------------------------------------------------
(* A candidate that cannot be lost, without reconsiderblock *)

LEMMA AnchorSame ==
  ASSUME AnchorInv, \A u \in Thread : Invalidating(u) => Invalidating(u)',
         UNCHANGED <<cand, linked, failedValid, failedChild>>
  PROVE  AnchorInv'
BY DEF AnchorInv, Anchor, Failed, Worse

(* In a state outside an invalidation the anchor is linked and no worse    *)
(* than the tip.                                                           *)
LEMMA AnchorFacts ==
  ASSUME BaseInv, CandInv, AnchorInv, \A u \in Thread : ~ Invalidating(u)
  PROVE  \E r \in Index : /\ Anchor(r) /\ r \in linked /\ Chain[r] \subseteq data
                          /\ ~ Worse(r, tip)
<1>1. PICK r \in Index : Anchor(r)
  BY DEF AnchorInv
<1>2. r \in cand /\ r \in linked
  BY <1>1 DEF Anchor, BaseInv, TypeOK
<1> QED
  BY <1>1, <1>2, LinkedChain DEF BaseInv, CandInv, CandidatesNotWorse

(* Blocks outside the anchor's chain may fail, and lose their place.       *)
LEMMA AnchorMarked ==
  ASSUME NEW r \in Index, Anchor(r), NEW M, Chain[r] \cap M = {}, r \notin M,
         Failed' = Failed \cup M, linked' = linked,
         cand' \subseteq cand, cand \ cand' \subseteq Failed'
  PROVE  AnchorInv'
<1>1. r \in cand' /\ Chain[r] \cap (Failed' \cup BadConnect) = {}
  <2>1. r \in Chain[r]
    BY ChainEnds
  <2> QED
    BY <2>1 DEF Anchor
<1>2. \A b \in linked' \ Failed' : ~ Worse(b, r) => b \in cand'
  BY DEF Anchor
<1> QED
  BY <1>1, <1>2 DEF AnchorInv, Anchor, Worse

LEMMA AnchorAccept ==
  ASSUME BaseInv, CandInv, AnchorInv, NEW t \in Thread, NEW b \in Block, Accept(t, b)
  PROVE  AnchorInv'
<1>1. lock = Free
  BY DEF Accept, AcceptKnown, AcceptInvalid, AcceptHeaderOnly, AcceptStored, Enter
<1>2. \A u \in Thread : ~ Invalidating(u)
  BY <1>1, FreeQuiet DEF BaseInv
<1>3. PICK r \in Index : /\ Anchor(r) /\ r \in linked /\ Chain[r] \subseteq data
                         /\ ~ Worse(r, tip)
  BY <1>2, AnchorFacts
<1>4. CASE AcceptStored(t, b)
  <2>1. /\ b \notin data /\ Parent[b] \in index
        /\ data' = data \cup {b} /\ index' = index \cup {b} /\ ReceivedBlockTransactions(b)
    BY <1>4 DEF AcceptStored, Enter, HeaderAccepted
  <2>2. cand' = cand \cup Pruned(linked' \ linked, tip) /\ LinksExact'
    BY <2>1, LinksReceived DEF BaseInv
  <2>3. linked' \subseteq Index /\ tip \in Index
    BY SMT, <2>1, <2>2, ParentChain DEF LinksExact, BaseInv, TypeOK
  <2>4. Failed' = Failed
    BY <1>4 DEF AcceptStored, flags, Failed
  <2>5. ASSUME NEW x \in linked' \ Failed', ~ Worse(x, r) PROVE x \in cand'
    <3>1. CASE x \in linked
      BY <1>3, <2>2, <2>4, <2>5, <3>1 DEF Anchor
    <3>2. CASE x \notin linked
      <4>1. ~ Worse(x, tip)
        BY <1>3, <2>3, <2>5, NotWorseTransitive
      <4> QED
        BY <2>2, <3>2, <4>1 DEF Pruned
    <3> QED
      BY <3>1, <3>2
  <2>6. r \in cand' /\ Chain[r] \cap (Failed' \cup BadConnect) = {}
    BY <1>3, <2>2, <2>4 DEF Anchor
  <2> QED
    BY <2>5, <2>6 DEF AnchorInv, Anchor, Worse
<1>5. CASE AcceptKnown(t, b) \/ AcceptHeaderOnly(t, b)
  <2>1. UNCHANGED <<cand, linked, failedValid, failedChild>>
    BY <1>5 DEF AcceptKnown, AcceptHeaderOnly, store, flags
  <2> QED
    BY <1>2, <2>1, AnchorSame
<1>6. CASE AcceptInvalid(t, b)
  <2>1. /\ b \notin data /\ Failed' = Failed \cup {b} /\ linked' = linked /\ cand' = cand
    BY <1>6 DEF AcceptInvalid, Failed
  <2>2. r \notin {b} /\ Chain[r] \cap {b} = {}
    BY <1>3, <2>1, ChainEnds
  <2> QED
    BY <1>3, <2>1, <2>2, AnchorMarked
<1> QED
  BY <1>4, <1>5, <1>6 DEF Accept

LEMMA AnchorDiscard ==
  ASSUME BaseInv, CandInv, AnchorInv, NEW t \in Thread, Discard(t)
  PROVE  AnchorInv'
<1>1. lock \in {Free, t} /\ ~ Stepping(t) /\ ~ Invalidating(t)
  BY DEF Discard, Stepping, Invalidating
<1>2. \A u \in Thread : ~ Invalidating(u)
  BY <1>1, Quiet DEF BaseInv
<1>3. PICK r \in Index : Anchor(r)
  BY <1>2, AnchorFacts
<1>4. /\ Nearest \in Failed
      /\ \A b \in Above \cup {Nearest} : Nearest \in Chain[b] /\ b \in Index
  BY DiscardFacts DEF Discard
<1>5. ASSUME NEW b \in Above \cup {Nearest}, b \in Chain[r] PROVE FALSE
  <2>1. Nearest \in Chain[r]
    BY <1>4, <1>5, ChainWithin
  <2> QED
    BY <1>3, <1>4, <2>1 DEF Anchor
<1>6. r \notin Above /\ Chain[r] \cap Above = {}
  BY <1>5, ChainEnds
<1>7. /\ Failed' = Failed \cup Above /\ linked' = linked
      /\ cand' = cand \ (Above \cup {Nearest})
  BY <1>4 DEF Discard, Failed
<1>8. cand' \subseteq cand /\ cand \ cand' \subseteq Failed'
  BY <1>4, <1>7
<1> QED
  BY <1>3, <1>6, <1>7, <1>8, AnchorMarked

LEMMA AnchorConnectInvalid ==
  ASSUME BaseInv, CandInv, AnchorInv, NEW t \in Thread, ConnectInvalid(t)
  PROVE  AnchorInv'
<1>1. Connecting(t) /\ Stepping(t)
  BY DEF ConnectInvalid, Connecting, Stepping
<1>2. \A u \in Thread : ~ Invalidating(u)
  BY <1>1, Alone DEF BaseInv, Stepping, Invalidating
<1>3. PICK r \in Index : Anchor(r)
  BY <1>2, AnchorFacts
<1>4. /\ Next1(t) \in BadConnect /\ Failed' = Failed \cup {Next1(t)} /\ linked' = linked
      /\ cand' = cand \ {Next1(t)}
  BY DEF ConnectInvalid, Failed, store
<1>5. r \notin {Next1(t)} /\ Chain[r] \cap {Next1(t)} = {}
  BY <1>3, <1>4, ChainEnds DEF Anchor
<1>6. cand' \subseteq cand /\ cand \ cand' \subseteq Failed'
  BY <1>4
<1> QED
  BY <1>3, <1>4, <1>5, <1>6, AnchorMarked

(* When the tip passes the anchor, the tip becomes the anchor. *)
LEMMA AnchorConnectTip ==
  ASSUME BaseInv, CandInv, ChainsUsable, Connected', AnchorInv,
         NEW t \in Thread, ConnectTip(t)
  PROVE  AnchorInv'
<1> DEFINE b == Next1(t)
<1>1. Connecting(t) /\ Stepping(t)
  BY DEF ConnectTip, Connecting, Stepping
<1>2. Chain[goal[t]] \cap Failed = {} /\ \A u \in Thread : ~ Invalidating(u)
  BY <1>1, StepUsable
<1>3. PICK r \in Index : Anchor(r)
  BY <1>2, AnchorFacts
<1>4. b \in Index /\ b \in linked /\ Chain[b] \subseteq Chain[goal[t]] /\ b \in Chain[b]
  BY <1>1, ConnectFacts, ChainEnds
<1>5. /\ tip' = b /\ cand' = Pruned(cand, b) /\ linked' = linked /\ Failed' = Failed
  BY DEF ConnectTip, Failed, flags
<1> HIDE DEF b
<1>6. cand \subseteq Index /\ linked \subseteq Index
  BY DEF BaseInv, TypeOK
<1>7. CASE Worse(r, b)
  <2>1. ~ Worse(b, r)
    BY <1>4, <1>7, WorseStrict
  <2>2. b \in cand
    BY <1>2, <1>3, <1>4, <2>1 DEF Anchor
  <2>3. b \in cand' /\ Chain[b] \cap (Failed' \cup BadConnect) = {}
    BY <1>2, <1>4, <1>5, <2>2, WorseStrict DEF Pruned, Connected
  <2>4. ASSUME NEW x \in linked' \ Failed', ~ Worse(x, b) PROVE x \in cand'
    <3>1. x \in Index /\ x \in linked \ Failed
      BY <1>5, <1>6
    <3>2. ~ Worse(x, r)
      BY <1>4, <2>1, <2>4, <3>1, NotWorseTransitive
    <3> QED
      BY <1>3, <1>5, <2>4, <3>1, <3>2 DEF Anchor, Pruned
  <2> QED
    BY <1>4, <2>3, <2>4 DEF AnchorInv, Anchor, Worse
<1>8. CASE ~ Worse(r, b)
  <2>1. r \in cand' /\ Chain[r] \cap (Failed' \cup BadConnect) = {}
    BY <1>3, <1>5, <1>8 DEF Anchor, Pruned
  <2>2. ASSUME NEW x \in linked' \ Failed', ~ Worse(x, r) PROVE x \in cand'
    <3>1. x \in Index /\ x \in cand
      BY <1>3, <1>5, <1>6, <2>2 DEF Anchor
    <3>2. ~ Worse(x, b)
      BY <1>4, <1>8, <2>2, <3>1, NotWorseTransitive
    <3> QED
      BY <1>5, <3>1, <3>2 DEF Pruned
  <2> QED
    BY <2>1, <2>2 DEF AnchorInv, Anchor, Worse
<1> QED
  BY <1>7, <1>8

(* A state in which every unfailed linked block as good as the tip is a    *)
(* candidate, and the tip's chain is usable: the tip is an anchor.         *)
LEMMA AnchorTip ==
  ASSUME BaseInv', Connected', Chain[tip'] \cap Failed' = {},
         \A x \in linked' \ Failed' : ~ Worse(x, tip') => x \in cand'
  PROVE  AnchorInv'
<1>1. tip' \in Index /\ tip' \in linked' /\ tip' \in Chain[tip']
  BY ChainEnds DEF BaseInv, TypeOK
<1>2. tip' \in cand'
  BY <1>1, WorseStrict
<1>3. Chain[tip'] \cap (Failed' \cup BadConnect) = {}
  BY DEF Connected
<1> QED
  BY <1>1, <1>2, <1>3 DEF AnchorInv, Anchor, Worse

LEMMA AnchorNext ==
  ASSUME NoTornInvalidation, MaxReconsider = 0, BaseInv, BaseInv', CandInv, UsableInv, UsableInv',
         Connected', AnchorInv, [Next]_vars
  PROVE  AnchorInv'
<1>1. ASSUME NEW t \in Thread, Select(t) \/ LoopCheck(t) PROVE AnchorInv'
  <2>1. UNCHANGED <<cand, linked, failedValid, failedChild>>
    BY <1>1 DEF Select, LoopCheck, store, flags
  <2>2. ~ Invalidating(t) /\ \A u \in Thread : u # t => at'[u] = at[u]
    BY <1>1 DEF Select, LoopCheck, Invalidating, BaseInv, TypeOK
  <2>3. \A u \in Thread : Invalidating(u) => Invalidating(u)'
    BY <2>2 DEF Invalidating
  <2> QED
    BY <2>1, <2>3, AnchorSame
<1>2. ASSUME NEW t \in Thread, DisconnectWriteIndex(t) \/ DisconnectTip(t) PROVE AnchorInv'
  <2>1. CASE Invalidating(t)
    <3>1. Invalidating(t)'
      BY <1>2, <2>1 DEF DisconnectWriteIndex, DisconnectTip, Invalidating, BaseInv, TypeOK
    <3> QED
      BY <3>1 DEF AnchorInv
  <2>2. CASE ~ Invalidating(t)
    <3>1. UNCHANGED <<cand, linked, failedValid, failedChild>>
      BY <1>2, <2>2 DEF DisconnectWriteIndex, DisconnectTip, Invalidating, store, flags
    <3>2. \A u \in Thread : u # t => at'[u] = at[u]
      BY <1>2 DEF DisconnectWriteIndex, DisconnectTip, BaseInv, TypeOK
    <3>3. \A u \in Thread : Invalidating(u) => Invalidating(u)'
      BY <2>2, <3>2 DEF Invalidating
    <3> QED
      BY <3>1, <3>3, AnchorSame
  <2> QED
    BY <2>1, <2>2
<1>3. ASSUME NEW t \in Thread, InvalidateDone(t) PROVE AnchorInv'
  <2>1. /\ lock' = Free /\ at'[t] = "find" /\ cand' = Refilled /\ linked' = linked
        /\ tip' = tip /\ Failed' = Failed
    BY <1>3 DEF InvalidateDone, store, flags, Failed, BaseInv, TypeOK
  <2>2. \A u \in Thread : ~ Invalidating(u)'
    BY <2>1, QuietNext DEF BaseInv
  <2>3. Chain[tip'] \cap Failed' = {}
    BY <2>2 DEF UsableInv, ChainsUsable
  <2>4. \A x \in linked' \ Failed' : ~ Worse(x, tip') => x \in cand'
    BY <2>1 DEF Refilled
  <2> QED
    BY <2>3, <2>4, AnchorTip
<1>4. ASSUME NEW t \in Thread, NEW b \in Block, InvalidateBlock(t, b) PROVE AnchorInv'
  <2>1. Invalidating(t)'
    BY <1>4 DEF InvalidateBlock, Invalidating, BaseInv, TypeOK
  <2> QED
    BY <2>1 DEF AnchorInv
<1>5. ASSUME NEW t \in Thread, NEW b \in Block, ReconsiderBlock(t, b) PROVE FALSE
  BY SMT, <1>5 DEF ReconsiderBlock, BaseInv, TypeOK
<1>6. CASE Flush \/ UNCHANGED vars
  <2>1. UNCHANGED <<cand, linked, failedValid, failedChild, at>>
    BY <1>6 DEF Flush, vars, store, flags, control
  <2> QED
    BY <2>1, AnchorSame DEF Invalidating
<1>7. CASE Restart
  <2>1. /\ tip' = diskTip /\ Failed' = disk.valid \cup disk.child
        /\ cand' = Pruned(linked' \ (disk.valid \cup disk.child), diskTip)
    BY <1>7 DEF Restart, Failed
  <2>2. MaxInvalidate = 0
    BY SMT, <1>7 DEF Restart, NoTornInvalidation, BaseInv, TypeOK
  <2>3. Chain[tip'] \cap Failed' = {}
    BY <2>1, <2>2 DEF UsableInv, DiskMarks
  <2>4. \A x \in linked' \ Failed' : ~ Worse(x, tip') => x \in cand'
    BY <2>1 DEF Pruned
  <2> QED
    BY <2>3, <2>4, AnchorTip
<1> QED
  BY <1>1, <1>2, <1>3, <1>4, <1>5, <1>6, <1>7, AnchorAccept, AnchorDiscard,
     AnchorConnectInvalid, AnchorConnectTip DEF Next, Proceed, UsableInv

LEMMA AnchorAlways ==
  NoTornInvalidation /\ MaxReconsider = 0 =>
     (Spec => [](BaseInv /\ CandInv /\ UsableInv /\ Connected /\ MarkInv /\ AnchorInv))
<1> SUFFICES ASSUME NoTornInvalidation, MaxReconsider = 0
             PROVE  Spec => [](BaseInv /\ CandInv /\ UsableInv /\ Connected /\ MarkInv /\ AnchorInv)
  OBVIOUS
<1>1. Spec => [](BaseInv /\ UsableInv)
  BY UsableAlways
<1>2. Spec => []MarkInv
  BY MarkAlways
<1>3. Init => AnchorInv
  <2>1. Genesis \in Index
    BY DEF Index
  <2> QED
    BY SMT, <2>1, TreeAssumption DEF Init, AnchorInv, Anchor, Failed
<1>4. /\ BaseInv /\ BaseInv' /\ CandInv /\ UsableInv /\ UsableInv' /\ Connected'
      /\ AnchorInv /\ [Next]_vars
      => AnchorInv'
  BY AnchorNext
<1> QED
  BY <1>1, <1>2, <1>3, <1>4, CandAlways, ConnectedAlways, PTL DEF Spec

-----------------------------------------------------------------------------
(* Blocks that pass every check, without operator commands *)

LEMMA BadNext ==
  ASSUME MaxInvalidate = 0, MaxReconsider = 0, BaseInv, MarkInv, FailedBad, [Next]_vars
  PROVE  FailedBad'
<1>1. ASSUME NEW t \in Thread,
             \/ Discard(t) \/ Select(t) \/ DisconnectWriteIndex(t) \/ DisconnectTip(t)
             \/ ConnectTip(t) \/ LoopCheck(t) \/ InvalidateDone(t)
      PROVE  UNCHANGED <<failedValid, data>>
  BY <1>1 DEF Discard, Select, DisconnectWriteIndex, DisconnectTip, ConnectTip, LoopCheck,
     InvalidateDone, store, flags
<1>2. ASSUME NEW t \in Thread, ConnectInvalid(t) PROVE FailedBad'
  BY <1>2 DEF ConnectInvalid, store, FailedBad
<1>3. ASSUME NEW t \in Thread, NEW b \in Block, Accept(t, b) PROVE FailedBad'
  BY <1>3 DEF Accept, AcceptKnown, AcceptInvalid, AcceptHeaderOnly, AcceptStored, store, flags,
     FailedBad
<1>4. ASSUME NEW t \in Thread, NEW b \in Block, InvalidateBlock(t, b) \/ ReconsiderBlock(t, b)
      PROVE  FALSE
  BY SMT, <1>4 DEF InvalidateBlock, ReconsiderBlock, BaseInv, TypeOK
<1>5. CASE Flush \/ UNCHANGED vars
  BY <1>5 DEF Flush, vars, store, flags, FailedBad
<1>6. CASE Restart
  <2>1. failedValid' = disk.valid /\ data' = disk.data
    BY <1>6 DEF Restart
  <2> QED
    BY <2>1 DEF FailedBad, MarkInv, BaseInv, DiskInv
<1> QED
  BY <1>1, <1>2, <1>3, <1>4, <1>5, <1>6 DEF Next, Proceed, FailedBad

LEMMA BadAlways == MaxInvalidate = 0 /\ MaxReconsider = 0 => (Spec => []FailedBad)
<1> SUFFICES ASSUME MaxInvalidate = 0, MaxReconsider = 0 PROVE Spec => []FailedBad
  OBVIOUS
<1>1. Init => FailedBad
  BY SMT, TreeAssumption DEF Init, FailedBad
<1>2. BaseInv /\ MarkInv /\ FailedBad /\ [Next]_vars => FailedBad'
  BY BadNext
<1>3. Spec => []MarkInv
  BY MarkAlways
<1> QED
  BY <1>1, <1>2, <1>3, BaseAlways, PTL DEF Spec

-----------------------------------------------------------------------------
(* The theorems *)

(* Every variable of the block index has its type, whatever the tree of    *)
(* blocks, the number of threads, operator commands and crashes.           *)
THEOREM ChainTyped == Spec => []TypeOK
<1>1. BaseInv => TypeOK
  BY DEF BaseInv
<1> QED
  BY <1>1, BaseAlways, PTL

(* nChainTx and mapBlocksUnlinked are exact in every state, whatever order *)
(* the data of the blocks arrived in, and after every restart.             *)
THEOREM LinksAlwaysExact == Spec => []LinksExact
<1>1. BaseInv => LinksExact
  BY DEF BaseInv
<1> QED
  BY <1>1, BaseAlways, PTL

(* The coins on disk always belong to a block whose chain is in the block  *)
(* index on disk with data and undo data, because every flush writes the   *)
(* index before the coins.                                                 *)
THEOREM DiskAlwaysUsable == Spec => []DiskUsable
<1>1. BaseInv => DiskUsable
  BY DEF BaseInv
<1> QED
  BY <1>1, BaseAlways, PTL

(* PruneBlockIndexCandidates never empties the set it prunes after a block *)
(* is connected: the goal of the step is still in it.                      *)
THEOREM PruneLeavesGoal ==
  Spec => [][\A t \in Thread : ConnectTip(t) => cand' # {}]_vars
<1>1. ASSUME BaseInv, NEW t \in Thread, ConnectTip(t) PROVE cand' # {}
  <2>1. /\ goal[t] \in cand /\ goal[t] \in Index /\ Next1(t) \in Chain[goal[t]]
    BY <1>1, ConnectFacts DEF ConnectTip
  <2>2. cand' = Pruned(cand, Next1(t))
    BY <1>1 DEF ConnectTip
  <2>3. ~ Worse(goal[t], Next1(t))
    BY <2>1, AncestorWorse
  <2> QED
    BY <2>1, <2>2, <2>3 DEF Pruned
<1>2. BaseInv /\ [Next]_vars => [\A t \in Thread : ConnectTip(t) => cand' # {}]_vars
  BY <1>1
<1> QED
  BY <1>2, BaseAlways, PTL DEF Spec

(* FindMostWorkChain may stop at the active chain: whenever cs_main is     *)
(* free no block of it is failed and each can be disconnected, unless a    *)
(* crash can fall into an invalidation.                                    *)
THEOREM ActiveChainAlwaysUsable ==
  MaxInvalidate = 0 \/ MaxCrash = 0 => (Spec => []ActiveChainUsable)
<1> SUFFICES ASSUME MaxInvalidate = 0 \/ MaxCrash = 0 PROVE Spec => []ActiveChainUsable
  OBVIOUS
<1>1. BaseInv /\ UsableInv => ActiveChainUsable
  <2> SUFFICES ASSUME BaseInv, UsableInv, lock = Free
               PROVE  Chain[tip] \subseteq data \ Failed /\ Chain[tip] \ {Genesis} \subseteq undo
    BY DEF ActiveChainUsable
  <2>1. \A u \in Thread : ~ Invalidating(u)
    BY FreeQuiet DEF BaseInv
  <2>2. Chain[tip] \cap Failed = {}
    BY <2>1, TipUnfailed DEF UsableInv
  <2>3. Chain[tip] \subseteq data
    BY LinkedChain DEF BaseInv, TypeOK
  <2> QED
    BY <2>2, <2>3 DEF BaseInv, TreeInv
<1>2. Spec => [](BaseInv /\ UsableInv)
  BY UsableAlways DEF NoTornInvalidation
<1> QED
  BY <1>1, <1>2, PTL

(* setBlockIndexCandidates is empty only inside InvalidateBlock, which     *)
(* refills it, when nothing is reconsidered and no crash falls into an     *)
(* invalidation: some candidate has a chain that no check will refuse.     *)
THEOREM CandidateAlwaysLeft ==
  (MaxInvalidate = 0 \/ MaxCrash = 0) /\ MaxReconsider = 0 => (Spec => []CandidateLeft)
<1> SUFFICES ASSUME MaxInvalidate = 0 \/ MaxCrash = 0, MaxReconsider = 0
             PROVE  Spec => []CandidateLeft
  OBVIOUS
<1>1. AnchorInv => CandidateLeft
  BY DEF AnchorInv, Anchor, CandidateLeft, Invalidating
<1>2. Spec => []AnchorInv
  BY AnchorAlways, PTL DEF NoTornInvalidation
<1> QED
  BY <1>1, <1>2, PTL

(* At rest the anchor is the tip itself. *)
LEMMA SettledAnchor ==
  ASSUME BaseInv, CandInv, AnchorInv, Settled
  PROVE  Anchor(tip) /\ \A c \in cand : ~ Worse(tip, c)
<1>1. \A u \in Thread : ~ Busy(u) /\ ~ Invalidating(u)
  BY DEF Settled, Busy, Invalidating
<1>2. \A c \in cand : ~ Worse(tip, c)
  BY <1>1 DEF CandInv, NothingBetter
<1>3. PICK r \in Index : Anchor(r) /\ ~ Worse(r, tip)
  BY <1>1, AnchorFacts
<1>4. ~ Worse(tip, r) /\ tip \in Index
  BY <1>2, <1>3 DEF Anchor, BaseInv, TypeOK
<1>5. r = tip
  BY <1>3, <1>4, WorseStrict
<1> QED
  BY <1>2, <1>3, <1>5

LEMMA SettledBest ==
  ASSUME BaseInv, CandInv, AnchorInv
  PROVE  BestTip
<1> SUFFICES ASSUME Settled, NEW b \in linked, Chain[b] \cap Failed = {}
             PROVE  ~ Worse(tip, b)
  BY DEF BestTip
<1>1. Anchor(tip) /\ \A c \in cand : ~ Worse(tip, c)
  BY SettledAnchor
<1>2. b \in Index /\ tip \in Index /\ b \in Chain[b]
  BY ChainEnds DEF BaseInv, TypeOK
<1>3. CASE Worse(b, tip)
  BY <1>2, <1>3, WorseStrict
<1>4. CASE ~ Worse(b, tip)
  BY <1>1, <1>2, <1>4 DEF Anchor
<1> QED
  BY <1>3, <1>4

(* Whenever no activation is under way the tip is the best stored chain    *)
(* free of failed blocks, however the threads of ActivateBestChain         *)
(* interleaved, under the conditions of CandidateAlwaysLeft.               *)
THEOREM TipAlwaysBest ==
  (MaxInvalidate = 0 \/ MaxCrash = 0) /\ MaxReconsider = 0 => (Spec => []BestTip)
<1> SUFFICES ASSUME MaxInvalidate = 0 \/ MaxCrash = 0, MaxReconsider = 0
             PROVE  Spec => []BestTip
  OBVIOUS
<1>1. BaseInv /\ CandInv /\ AnchorInv => BestTip
  BY SettledBest
<1>2. Spec => [](BaseInv /\ CandInv /\ AnchorInv)
  BY AnchorAlways, PTL DEF NoTornInvalidation
<1> QED
  BY <1>1, <1>2, PTL

(* At rest the candidates are exactly what CheckBlockIndex asks for, under *)
(* the same conditions.                                                    *)
THEOREM CandidatesAlwaysSettled ==
  (MaxInvalidate = 0 \/ MaxCrash = 0) /\ MaxReconsider = 0 => (Spec => []CandidatesSettled)
<1> SUFFICES ASSUME MaxInvalidate = 0 \/ MaxCrash = 0, MaxReconsider = 0
             PROVE  Spec => []CandidatesSettled
  OBVIOUS
<1>1. BaseInv /\ CandInv /\ MarkInv /\ AnchorInv => CandidatesSettled
  <2> SUFFICES ASSUME BaseInv, CandInv, MarkInv, AnchorInv, Settled PROVE CandidatesMatch
    BY DEF CandidatesSettled
  <2>1. Anchor(tip)
    BY SettledAnchor
  <2>2. \A b \in cand : b \in linked /\ ~ Worse(b, tip)
    BY DEF CandInv, CandidatesNotWorse, BaseInv, TypeOK
  <2>3. ASSUME NEW b \in linked, ~ Worse(b, tip), Chain[b] \cap failedValid = {}
        PROVE  b \in cand
    <3>1. b \in Chain[b]
      BY ChainEnds DEF BaseInv, TypeOK
    <3>2. b \notin Failed
      BY <2>3, <3>1 DEF MarkInv, Failed
    <3> QED
      BY <2>1, <2>3, <3>2 DEF Anchor
  <2> QED
    BY <2>2, <2>3 DEF CandidatesMatch
<1>2. Spec => [](BaseInv /\ CandInv /\ MarkInv /\ AnchorInv)
  BY AnchorAlways, PTL DEF NoTornInvalidation
<1> QED
  BY <1>1, <1>2, PTL

(* Once every valid block is stored and activation is over, the tip is the *)
(* best valid block: it depends on the set of blocks only, not on the      *)
(* order of arrival, on the interleaving of threads or on crashes.         *)
THEOREM AlwaysOrderIndependent ==
  MaxInvalidate = 0 /\ MaxReconsider = 0 => (Spec => []OrderIndependent)
<1> SUFFICES ASSUME MaxInvalidate = 0, MaxReconsider = 0 PROVE Spec => []OrderIndependent
  OBVIOUS
<1>1. BaseInv /\ CandInv /\ MarkInv /\ AnchorInv /\ Connected /\ FailedBad => OrderIndependent
  <2> SUFFICES ASSUME BaseInv, CandInv, MarkInv, AnchorInv, Connected, FailedBad,
                      Settled, ValidBlocks \subseteq data
               PROVE  tip = Best(ValidBlocks)
    BY DEF OrderIndependent
  <2>1. BestTip
    BY SettledBest
  <2>2. tip \in ValidBlocks
    <3>1. tip \in Index /\ Chain[tip] \subseteq data
      BY LinkedChain DEF BaseInv, TypeOK
    <3> QED
      BY <3>1 DEF ValidBlocks, Connected, FailedBad
  <2>3. ASSUME NEW b \in ValidBlocks PROVE ~ Worse(tip, b)
    <3>1. b \in Index /\ Chain[b] \cap (BadContext \cup BadConnect) = {}
      BY DEF ValidBlocks
    <3>2. Chain[b] \subseteq ValidBlocks
      BY <3>1, ChainWithin, ChainType DEF ValidBlocks
    <3>3. b \in linked
      BY <3>1, <3>2, ChainEnds DEF BaseInv, TypeOK, LinksExact
    <3>4. ASSUME NEW c \in Chain[b], c \in Failed PROVE FALSE
      <4>1. c \in Index /\ Chain[c] \subseteq Chain[b] /\ c \in Chain[c]
        BY <3>1, ChainWithin, ChainType, ChainEnds
      <4>2. Chain[c] \cap failedValid # {}
        BY <3>4, <4>1 DEF Failed, MarkInv
      <4> QED
        BY <3>1, <4>1, <4>2 DEF FailedBad
    <3> QED
      BY <2>1, <3>3, <3>4 DEF BestTip
  <2>4. ValidBlocks \in SUBSET Index /\ ValidBlocks # {}
    BY <2>2 DEF ValidBlocks
  <2>5. Best(ValidBlocks) \in ValidBlocks /\ ~ Worse(Best(ValidBlocks), tip)
    BY <2>2, <2>4, BestIsBest
  <2> QED
    BY <2>2, <2>3, <2>4, <2>5, WorseStrict
<1>2. Spec => [](BaseInv /\ CandInv /\ MarkInv /\ AnchorInv /\ Connected)
  BY AnchorAlways, PTL DEF NoTornInvalidation
<1>3. Spec => []FailedBad
  BY BadAlways
<1> QED
  BY <1>1, <1>2, <1>3, PTL
=============================================================================
