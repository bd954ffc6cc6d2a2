-------------------------- MODULE BlockRelayProofs --------------------------
(***************************************************************************)
(* The books on blocks in flight agree, for every tree of blocks, every    *)
(* number of peers and every limit.                                        *)
(***************************************************************************)
EXTENDS BlockRelay, FiniteSetTheorems, WellFoundedInduction, TLAPS

(* Most leaves are about sets, which Zenon is best at; where numbers count *)
(* the leaf cites SMT.                                                     *)
USE Zenon

(* The part of the state the books are about. *)
FlightType ==
    /\ flying \in [Block -> Peer \cup {None}]
    /\ list \in [Peer -> SUBSET Block]
    /\ count \in [Peer -> Nat]
    /\ queued \in Nat
    /\ stalling \subseteq Peer
    /\ peers \subseteq Peer /\ leaving \subseteq peers

Flying == {b \in Block : flying[b] # None}

(* FlightExact, StallersOwe and FlyingMissing are inductive together: a    *)
(* stalling peer is reset through the owner that mapBlocksInFlight names,  *)
(* and only the lists say what goes when a peer is finalized.              *)
Books == FlightType /\ FlightExact /\ StallersOwe /\ FlyingMissing

LEMMA FiniteBlocks ==
    ASSUME NEW S \in SUBSET Block
    PROVE  IsFiniteSet(S) /\ Cardinality(S) \in Nat
BY RelayAssumption, FS_Subset, FS_CardinalityType

(* Books is true of the initial state. *)
LEMMA InitBooks == Init => Books
<1> SUFFICES ASSUME Init PROVE Books
    OBVIOUS
<1>1. FlightType
    BY DEF Init, FlightType
<1>2. Cardinality({}) = 0
    BY FS_EmptySet
<1>3. \A p \in Peer : {b \in Block : flying[b] = p} = {}
    BY RelayAssumption DEF Init
<1>4. {b \in Block : flying[b] # None} = {}
    BY DEF Init
<1>5. FlightExact
  <2>1. \A b \in Block : flying[b] # None => flying[b] \in peers
      BY DEF Init
  <2>2. \A p \in Peer : list[p] = {} /\ count[p] = 0
      BY DEF Init
  <2>3. queued >= Cardinality({b \in Block : flying[b] # None})
      BY SMT, <1>2, <1>4 DEF Init
  <2> QED
      BY <1>2, <1>3, <2>1, <2>2, <2>3 DEF FlightExact
<1>6. StallersOwe /\ FlyingMissing
    BY DEF Init, StallersOwe, FlyingMissing
<1> QED
    BY <1>1, <1>5, <1>6 DEF Books

(* MarkBlockAsReceived keeps the books, and only takes a block off them. *)
LEMMA ReceivedKeepsBooks ==
    ASSUME Books, NEW b \in Block, MarkBlockAsReceived({b}), peers' = peers, leaving' = leaving
    PROVE  /\ FlightType' /\ FlightExact' /\ StallersOwe'
           /\ \A c \in Block : flying'[c] # None => c # b /\ flying[c] # None
<1> DEFINE owed(p) == Owed(p, {b})
<1>t. FlightType /\ FlightExact /\ StallersOwe
    BY DEF Books
<1>1. \A p \in Peer : owed(p) = IF flying[b] = p THEN {b} ELSE {}
    BY DEF Owed
<1>2. flying' = [c \in Block |-> IF c \in {b} THEN None ELSE flying[c]]
    BY DEF MarkBlockAsReceived
<1>3. list' = [p \in Peer |-> list[p] \ owed(p)]
    BY DEF MarkBlockAsReceived
<1>4. count' = [p \in Peer |-> count[p] - Cardinality(owed(p))]
    BY DEF MarkBlockAsReceived
<1>5. queued' = queued - Cardinality({c \in {b} : flying[c] # None})
    BY DEF MarkBlockAsReceived
<1>6. stalling' = {p \in stalling : owed(p) = {}}
    BY DEF MarkBlockAsReceived
<1> HIDE DEF owed
<1>c. Cardinality({}) = 0 /\ Cardinality({b}) = 1
    BY FS_EmptySet, FS_Singleton
<1>7. \A c \in Block : flying'[c] # None => c # b /\ flying[c] # None
    BY <1>2
<1>8. \A p \in Peer : list'[p] = {c \in Block : flying'[c] = p}
    BY <1>1, <1>2, <1>3, <1>t, RelayAssumption DEF FlightType, FlightExact
<1>9. \A p \in Peer : count'[p] = Cardinality(list'[p]) /\ count'[p] \in Nat
  <2> SUFFICES ASSUME NEW p \in Peer
               PROVE  count'[p] = Cardinality(list'[p]) /\ count'[p] \in Nat
      OBVIOUS
  <2>1. list[p] \in SUBSET Block /\ list'[p] \in SUBSET Block
      BY <1>3, <1>t DEF FlightType
  <2>2. count[p] = Cardinality(list[p]) /\ Cardinality(list'[p]) \in Nat
      BY <1>t, <2>1, FiniteBlocks DEF FlightExact
  <2>3. CASE flying[b] = p
    <3>1. b \in list[p]
        BY <2>3, <1>t DEF FlightExact
    <3>2. list'[p] = list[p] \ {b} /\ count'[p] = count[p] - 1
        BY <2>3, <1>1, <1>3, <1>4, <1>c
    <3>3. Cardinality(list[p] \ {b}) = Cardinality(list[p]) - 1
        BY <3>1, <2>1, FiniteBlocks, FS_RemoveElement
    <3> QED
        BY <3>2, <3>3, <2>2
  <2>4. CASE flying[b] # p
    <3>1. list'[p] = list[p] /\ Cardinality(owed(p)) = 0
        BY <2>4, <1>1, <1>3, <1>c
    <3>2. count'[p] = count[p] - 0
        BY <3>1, <1>4
    <3>3. count[p] \in Nat
        BY <1>t DEF FlightType
    <3> QED
        BY SMT, <3>1, <3>2, <3>3, <2>2
  <2> QED
      BY <2>3, <2>4
<1>10. queued' >= Cardinality({c \in Block : flying'[c] # None}) /\ queued' \in Nat
  <2>1. Flying \in SUBSET Block
      BY DEF Flying
  <2>2. queued >= Cardinality(Flying) /\ queued \in Nat
      BY <1>t DEF FlightExact, FlightType, Flying
  <2>3. {c \in Block : flying'[c] # None} = Flying \ {b}
      BY <1>2 DEF Flying
  <2>4. CASE flying[b] # None
    <3>1. {c \in {b} : flying[c] # None} = {b}
        BY <2>4
    <3>2. queued' = queued - 1
        BY <3>1, <1>5, <1>c
    <3>3. Cardinality(Flying \ {b}) = Cardinality(Flying) - 1
      <4>1. b \in Flying
          BY <2>4 DEF Flying
      <4> QED
          BY <4>1, <2>1, FiniteBlocks, FS_RemoveElement
    <3>4. Cardinality(Flying \ {b}) \in Nat /\ Cardinality(Flying) \in Nat
        BY <2>1, FiniteBlocks
    <3>5. queued' >= Cardinality(Flying \ {b}) /\ queued' \in Nat
      <4> DEFINE m == Cardinality(Flying)
                 n == Cardinality(Flying \ {b})
      <4>1. n = m - 1 /\ n \in Nat /\ m \in Nat /\ queued >= m
          BY <3>3, <3>4, <2>2
      <4> HIDE DEF m, n
      <4>2. queued - 1 >= n /\ queued - 1 \in Nat
          BY SMT, <4>1, <2>2
      <4> QED
          BY <4>2, <3>2 DEF n
    <3> QED
        BY <3>5, <2>3
  <2>5. CASE flying[b] = None
    <3>1. {c \in {b} : flying[c] # None} = {} /\ Flying \ {b} = Flying
        BY <2>5 DEF Flying
    <3>2. queued' = queued - 0
        BY <3>1, <1>5, <1>c
    <3> QED
        BY SMT, <3>1, <3>2, <2>2, <2>3
  <2> QED
      BY <2>4, <2>5
<1>11. FlightExact'
    BY <1>2, <1>8, <1>9, <1>10, <1>t DEF FlightExact
<1>12. StallersOwe'
    BY <1>1, <1>3, <1>6, <1>t DEF StallersOwe, FlightType
<1>13. FlightType'
  <2>1. flying' \in [Block -> Peer \cup {None}]
      BY <1>2, <1>t DEF FlightType
  <2>2. list' \in [Peer -> SUBSET Block]
      BY <1>3, <1>t DEF FlightType
  <2>3. count' \in [Peer -> Nat]
      BY <1>4, <1>9
  <2> QED
      BY <2>1, <2>2, <2>3, <1>6, <1>10, <1>t DEF FlightType
<1> QED
    BY <1>7, <1>11, <1>12, <1>13

(* The blocks Fetch names are missing and in flight from nobody. *)
LEMMA FetchIsFree ==
    ASSUME NEW k, NEW n
    PROVE  /\ Fetch(k, n) \in SUBSET Block
           /\ \A b \in Fetch(k, n) : b \notin data /\ flying[b] = None
<1>1. Walk(k) \in SUBSET Block
    BY DEF Walk
<1> QED
    BY <1>1 DEF Fetch

(* A staller is a peer that a block is in flight from. *)
LEMMA StallerOwes ==
    ASSUME NEW p, NEW k
    PROVE  \A q \in Staller(p, k) : \E b \in Block : flying[b] = q /\ q # None
<1>1. Walk(k) \in SUBSET Block
    BY DEF Walk
<1> QED
    BY <1>1 DEF Staller, Lowest

(* MarkBlockAsInFlight of missing blocks keeps the books. *)
LEMMA RequestKeepsBooks ==
    ASSUME Books, NEW p \in peers, NEW bs \in SUBSET Block, NEW staller,
           \A b \in bs : b \notin data /\ flying[b] = None,
           \A q \in staller : \E b \in Block : flying[b] = q /\ q # None,
           MarkBlockAsInFlight(p, bs, staller),
           peers' = peers, leaving' = leaving, data' = data
    PROVE  Books'
<1>t. FlightType /\ FlightExact /\ StallersOwe /\ FlyingMissing
    BY DEF Books
<1>p. p \in Peer /\ p # None
    BY <1>t, RelayAssumption DEF FlightType
<1>1. \A q \in Peer : Owed(q, bs) = {}
    BY RelayAssumption DEF Owed
<1>2. flying' = [b \in Block |-> IF b \in bs THEN p ELSE flying[b]]
    BY DEF MarkBlockAsInFlight
<1>3. list' = [q \in Peer |-> list[q] \cup (IF q = p THEN bs ELSE {})]
  <2>1. list' = [q \in Peer |-> (list[q] \ Owed(q, bs)) \cup (IF q = p THEN bs ELSE {})]
      BY DEF MarkBlockAsInFlight
  <2> QED
      BY <2>1, <1>1
<1>4. \A q \in Peer : count'[q] = count[q] + (IF q = p THEN Cardinality(bs) ELSE 0)
  <2>1. count' = [q \in Peer |-> count[q] - Cardinality(Owed(q, bs))
                                  + (IF q = p THEN Cardinality(bs) ELSE 0)]
      BY DEF MarkBlockAsInFlight
  <2>2. \A q \in Peer : Cardinality(Owed(q, bs)) = 0
      BY <1>1, FS_EmptySet
  <2>3. Cardinality(bs) \in Nat /\ \A q \in Peer : count[q] \in Nat
      BY <1>t, FiniteBlocks DEF FlightType
  <2>4. \A q \in Peer : count'[q] = count[q] - Cardinality(Owed(q, bs))
                                     + (IF q = p THEN Cardinality(bs) ELSE 0)
      BY <2>1
  <2> QED
      BY SMT, <2>2, <2>3, <2>4
<1>5. queued' = queued + Cardinality(bs)
  <2>1. {b \in bs : flying[b] = None} = bs
      OBVIOUS
  <2> QED
      BY <2>1 DEF MarkBlockAsInFlight
<1>6. stalling' \subseteq stalling \cup staller
    BY DEF MarkBlockAsInFlight
<1>7. \A q \in Peer : list'[q] = {b \in Block : flying'[b] = q}
    BY SMT, <1>2, <1>3, <1>p, <1>t, RelayAssumption DEF FlightType, FlightExact
<1>8. \A q \in Peer : count'[q] = Cardinality(list'[q]) /\ count'[q] \in Nat
  <2> SUFFICES ASSUME NEW q \in Peer
               PROVE  count'[q] = Cardinality(list'[q]) /\ count'[q] \in Nat
      OBVIOUS
  <2>1. /\ IsFiniteSet(list[q]) /\ Cardinality(list[q]) \in Nat
        /\ IsFiniteSet(bs) /\ Cardinality(bs) \in Nat
      BY <1>t, FiniteBlocks DEF FlightType
  <2>2. count[q] = Cardinality(list[q])
      BY <1>t DEF FlightExact
  <2>3. CASE q = p
    <3>1. list[q] \cap bs = {}
      <4>1. \A b \in list[q] : flying[b] = q
          BY SMT, <1>t DEF FlightExact
      <4>2. \A b \in bs : flying[b] # q
          BY <2>3, <1>p
      <4> QED
          BY <4>1, <4>2
    <3>2. Cardinality(list[q] \cup bs) = Cardinality(list[q]) + Cardinality(bs)
      <4>1. Cardinality(list[q] \cup bs)
              = Cardinality(list[q]) + Cardinality(bs) - Cardinality(list[q] \cap bs)
          BY <2>1, FS_Union
      <4>2. Cardinality(list[q] \cap bs) = 0
          BY <3>1, FS_EmptySet
      <4> QED
          BY SMT, <4>1, <4>2, <2>1
    <3>3. list'[q] = list[q] \cup bs /\ count'[q] = count[q] + Cardinality(bs)
        BY <2>3, <1>3, <1>4
    <3> QED
        BY SMT, <3>2, <3>3, <2>1, <2>2
  <2>4. CASE q # p
    <3>1. list'[q] = list[q] /\ count'[q] = count[q] + 0
        BY <2>4, <1>3, <1>4
    <3> QED
        BY SMT, <3>1, <2>1, <2>2
  <2> QED
      BY <2>3, <2>4
<1>9. queued' >= Cardinality({b \in Block : flying'[b] # None}) /\ queued' \in Nat
  <2>1. {b \in Block : flying'[b] # None} = Flying \cup bs /\ Flying \cap bs = {}
      BY <1>2, <1>p DEF Flying
  <2>2. /\ IsFiniteSet(Flying) /\ Cardinality(Flying) \in Nat
        /\ IsFiniteSet(bs) /\ Cardinality(bs) \in Nat
    <3>1. Flying \in SUBSET Block
        BY DEF Flying
    <3> QED
        BY <3>1, FiniteBlocks
  <2>3. Cardinality(Flying \cup bs) = Cardinality(Flying) + Cardinality(bs)
    <3>1. Cardinality(Flying \cup bs)
            = Cardinality(Flying) + Cardinality(bs) - Cardinality(Flying \cap bs)
        BY <2>2, FS_Union
    <3>2. Cardinality(Flying \cap bs) = 0
        BY <2>1, FS_EmptySet
    <3> QED
        BY SMT, <3>1, <3>2, <2>2
  <2>4. queued >= Cardinality(Flying) /\ queued \in Nat
      BY <1>t DEF FlightExact, FlightType, Flying
  <2>5. queued' >= Cardinality(Flying \cup bs) /\ queued' \in Nat
      BY SMT, <2>2, <2>3, <2>4, <1>5
  <2> QED
      BY <2>1, <2>5
<1>10. FlightExact'
  <2>1. \A b \in Block : flying'[b] # None => flying'[b] \in peers'
      BY <1>2, <1>t DEF FlightExact
  <2> QED
      BY <2>1, <1>7, <1>8, <1>9 DEF FlightExact
<1>11. StallersOwe'
  <2> SUFFICES ASSUME NEW q \in stalling' PROVE list'[q] # {}
      BY DEF StallersOwe
  <2>1. q \in Peer /\ list[q] # {}
    <3>1. CASE q \in stalling
        BY <3>1, <1>t DEF FlightType, StallersOwe
    <3>2. CASE q \in staller
      <4>1. PICK b \in Block : flying[b] = q /\ q # None
          BY <3>2
      <4>2. q \in Peer
          BY <4>1, <1>t DEF FlightType
      <4> QED
          BY <4>1, <4>2, <1>t DEF FlightExact
    <3> QED
        BY <3>1, <3>2, <1>6
  <2> QED
      BY <2>1, <1>3
<1>12. FlyingMissing'
    BY <1>2, <1>t DEF FlyingMissing
<1>13. FlightType'
  <2>1. flying' \in [Block -> Peer \cup {None}]
      BY <1>2, <1>p, <1>t DEF FlightType
  <2>2. list' \in [Peer -> SUBSET Block]
      BY <1>3, <1>t DEF FlightType
  <2>3. count' \in [Peer -> Nat]
    <3>1. count' = [q \in Peer |-> count'[q]]
        BY DEF MarkBlockAsInFlight
    <3> QED
        BY <3>1, <1>8
  <2>4. stalling' \subseteq Peer
    <3>1. \A q \in staller : q \in Peer
        BY <1>t DEF FlightType
    <3> QED
        BY <3>1, <1>6, <1>t DEF FlightType
  <2> QED
      BY <2>1, <2>2, <2>3, <2>4, <1>9, <1>t DEF FlightType
<1> QED
    BY <1>10, <1>11, <1>12, <1>13 DEF Books

(* FinalizeNode takes everything its peer owes off the books. *)
LEMMA FinalizeKeepsBooks ==
    ASSUME Books, NEW p \in Peer, FinalizeNode(p)
    PROVE  Books'
<1>t. FlightType /\ FlightExact /\ StallersOwe /\ FlyingMissing
    BY DEF Books
<1>1. flying' = [b \in Block |-> IF b \in list[p] THEN None ELSE flying[b]]
    BY DEF FinalizeNode
<1>2. list' = [list EXCEPT ![p] = {}] /\ count' = [count EXCEPT ![p] = 0]
    BY DEF FinalizeNode
<1>3. /\ stalling' = stalling \ {p} /\ peers' = peers \ {p} /\ leaving' = leaving \ {p}
      /\ queued' = queued /\ data' = data
    BY DEF FinalizeNode, chainVars
<1>4. list[p] = {b \in Block : flying[b] = p}
    BY <1>t DEF FlightExact
<1>5. \A b \in Block : flying'[b] # None => flying'[b] = flying[b] /\ flying[b] # p
    BY <1>1, <1>4
<1>6. FlightType'
    BY <1>1, <1>2, <1>3, <1>t DEF FlightType
<1>7. FlightExact'
  <2>1. \A b \in Block : flying'[b] # None => flying'[b] \in peers'
      BY <1>3, <1>5, <1>t DEF FlightExact
  <2>2. \A q \in Peer : list'[q] = {b \in Block : flying'[b] = q}
    <3> SUFFICES ASSUME NEW q \in Peer PROVE list'[q] = {b \in Block : flying'[b] = q}
        OBVIOUS
    <3>1. q # None
        BY RelayAssumption
    <3>2. CASE q = p
      <4>1. list'[q] = {}
          BY <3>2, <1>2, <1>t DEF FlightType
      <4>2. \A b \in Block : flying'[b] # q
          BY <3>1, <3>2, <1>1, <1>4
      <4> QED
          BY <4>1, <4>2
    <3>3. CASE q # p
      <4>1. list'[q] = list[q]
          BY <3>3, <1>2, <1>t DEF FlightType
      <4>2. \A b \in Block : flying'[b] = q <=> flying[b] = q
          BY <3>1, <3>3, <1>1, <1>4
      <4>3. list[q] = {b \in Block : flying[b] = q}
          BY <1>t DEF FlightExact
      <4> QED
          BY <4>1, <4>2, <4>3
    <3> QED
        BY <3>2, <3>3
  <2>3. \A q \in Peer : count'[q] = Cardinality(list'[q])
      BY <1>2, <1>t, FS_EmptySet DEF FlightType, FlightExact
  <2>4. queued' >= Cardinality({b \in Block : flying'[b] # None})
    <3> DEFINE Left == {b \in Block : flying'[b] # None}
    <3>1. Left \in SUBSET Flying /\ Flying \in SUBSET Block
        BY <1>1 DEF Flying
    <3>2. Left \in SUBSET Block
        BY <3>1
    <3>3. IsFiniteSet(Flying) /\ Cardinality(Flying) \in Nat /\ Cardinality(Left) \in Nat
        BY <3>1, <3>2, FiniteBlocks
    <3>4. Cardinality(Left) <= Cardinality(Flying)
        BY <3>1, <3>3, FS_Subset
    <3>5. queued >= Cardinality(Flying) /\ queued \in Nat
        BY <1>t DEF FlightExact, FlightType, Flying
    <3> HIDE DEF Left
    <3>6. queued' >= Cardinality(Left)
        BY SMT, <3>3, <3>4, <3>5, <1>3
    <3> QED
        BY <3>6 DEF Left
  <2> QED
      BY <2>1, <2>2, <2>3, <2>4 DEF FlightExact
<1>8. StallersOwe'
    BY <1>2, <1>3, <1>t DEF StallersOwe, FlightType
<1>9. FlyingMissing'
    BY <1>3, <1>5, <1>t DEF FlyingMissing
<1> QED
    BY <1>6, <1>7, <1>8, <1>9 DEF Books

(* A step that leaves the books alone, and stores nothing. *)
LEMMA UntouchedKeepsBooks ==
    ASSUME Books, UNCHANGED <<flying, queued, list, count, stalling>>, data' = data,
           peers \subseteq peers', peers' \subseteq Peer, leaving' \subseteq peers'
    PROVE  Books'
<1>t. FlightType /\ FlightExact /\ StallersOwe /\ FlyingMissing
    BY DEF Books
<1>1. FlightType'
    BY <1>t DEF FlightType
<1>2. FlightExact'
  <2>1. \A b \in Block : flying'[b] # None => flying'[b] \in peers'
      BY <1>t DEF FlightExact
  <2> QED
      BY <2>1, <1>t DEF FlightExact
<1>3. StallersOwe' /\ FlyingMissing'
    BY <1>t DEF StallersOwe, FlyingMissing
<1> QED
    BY <1>1, <1>2, <1>3 DEF Books

(* ProcessNewBlock stores at most the block it has just taken off the      *)
(* books.                                                                  *)
LEMMA ProcessKeepsBooks ==
    ASSUME Books, NEW b \in Block, ProcessNewBlock(b), UNCHANGED peerVars
    PROVE  Books'
<1>1. MarkBlockAsReceived({b}) /\ AcceptBlock(b) /\ peers' = peers /\ leaving' = leaving
    BY DEF ProcessNewBlock, AcceptBlock, peerVars
<1>2. /\ FlightType' /\ FlightExact' /\ StallersOwe'
      /\ \A c \in Block : flying'[c] # None => c # b /\ flying[c] # None
    BY <1>1, ReceivedKeepsBooks
<1>3. data' \subseteq data \cup {b}
    BY <1>1 DEF AcceptBlock, chainVars
<1>4. FlyingMissing
    BY DEF Books
<1>5. FlyingMissing'
    BY <1>2, <1>3, <1>4 DEF FlyingMissing
<1> QED
    BY <1>2, <1>5 DEF Books

(* Every step keeps the books. *)
LEMMA NextKeepsBooks == Books /\ [Next]_vars => Books'
<1> SUFFICES ASSUME Books, [Next]_vars PROVE Books'
    OBVIOUS
<1>t. peers \subseteq Peer /\ leaving \subseteq peers
    BY DEF Books, FlightType
<1>0. CASE UNCHANGED vars
  <2>1. UNCHANGED <<flying, queued, list, count, stalling>> /\ data' = data
        /\ peers' = peers /\ leaving' = leaving
      BY <1>0 DEF vars, flightVars, chainVars, peerVars
  <2> QED
      BY <2>1, <1>t, UntouchedKeepsBooks
<1>1. CASE Tick \/ TakeDue
  <2>1. UNCHANGED <<flying, queued, list, count, stalling>> /\ data' = data
        /\ peers' = peers /\ leaving' = leaving
      BY <1>1 DEF Tick, TakeDue, flightVars, chainVars, peerVars
  <2> QED
      BY <2>1, <1>t, UntouchedKeepsBooks
<1>2. ASSUME NEW p \in Peer, InitializeNode(p) PROVE Books'
  <2>1. UNCHANGED <<flying, queued, list, count, stalling>> /\ data' = data
        /\ peers' = peers \cup {p} /\ leaving' = leaving
      BY <1>2 DEF InitializeNode, flightVars, chainVars
  <2> QED
      BY <2>1, <1>t, UntouchedKeepsBooks
<1>3. ASSUME NEW p \in Peer, Leave(p) \/ TimeOut(p) PROVE Books'
  <2>1. UNCHANGED <<flying, queued, list, count, stalling>> /\ data' = data
        /\ peers' = peers /\ leaving' = leaving \cup {p} /\ p \in peers
      BY <1>3 DEF Leave, TimeOut, Handling, flightVars, chainVars
  <2> QED
      BY <2>1, <1>t, UntouchedKeepsBooks
<1>4. ASSUME NEW p \in Peer, FinalizeNode(p) PROVE Books'
    BY <1>4, FinalizeKeepsBooks
<1>5. ASSUME NEW p \in Peer, SendMessages(p) PROVE Books'
  <2> DEFINE seen == Available(known[p])
             k == [seen EXCEPT !.common = LastCommon(seen)]
             bs == Fetch(k, MaxInTransit - count[p])
  <2>1. /\ p \in peers /\ peers' = peers /\ leaving' = leaving /\ data' = data
        /\ UNCHANGED flightVars \/ MarkBlockAsInFlight(p, bs, Staller(p, k))
      BY <1>5 DEF SendMessages, Handling, chainVars
  <2> HIDE DEF k
  <2>2. /\ bs \in SUBSET Block
        /\ \A b \in bs : b \notin data /\ flying[b] = None
        /\ \A q \in Staller(p, k) : \E b \in Block : flying[b] = q /\ q # None
      BY FetchIsFree, StallerOwes
  <2> HIDE DEF bs
  <2>3. CASE UNCHANGED flightVars
      BY <2>1, <2>3, <1>t, UntouchedKeepsBooks DEF flightVars
  <2>4. CASE MarkBlockAsInFlight(p, bs, Staller(p, k))
      BY <2>1, <2>2, <2>4, RequestKeepsBooks
  <2> QED
      BY <2>1, <2>3, <2>4
<1>6. ASSUME NEW b \in Block, SubmitBlock(b) PROVE Books'
    BY <1>6, ProcessKeepsBooks DEF SubmitBlock
<1>7. ASSUME NEW b \in Block, ProcessFuture(b) PROVE Books'
  <2>1. UNCHANGED peerVars /\ (UNCHANGED <<chainVars, flightVars>> \/ ProcessNewBlock(b))
      BY <1>7 DEF ProcessFuture
  <2>2. CASE UNCHANGED <<chainVars, flightVars>>
      BY <2>1, <2>2, <1>t, UntouchedKeepsBooks DEF chainVars, flightVars, peerVars
  <2>3. CASE ProcessNewBlock(b)
      BY <2>1, <2>3, ProcessKeepsBooks
  <2> QED
      BY <2>1, <2>2, <2>3
<1>8. ASSUME NEW p \in Peer, NEW b \in Told, Announce(p, b) PROVE Books'
  <2>1. UNCHANGED <<flying, queued, list, count, stalling>> /\ data' = data
        /\ peers' = peers /\ leaving' = leaving
      BY <1>8 DEF Announce, flightVars, chainVars
  <2> QED
      BY <2>1, <1>t, UntouchedKeepsBooks
<1>9. ASSUME NEW p \in Peer, NEW b \in Block, ReceiveBlock(p, b) PROVE Books'
    BY <1>9, ProcessKeepsBooks DEF ReceiveBlock
<1>10. ASSUME NEW p \in Peer, NEW b \in Compact, ReceiveCompact(p, b) PROVE Books'
  <2>0. b \in Block
      BY RelayAssumption
  <2>1. UNCHANGED peerVars /\ (UNCHANGED <<chainVars, flightVars>> \/ ProcessNewBlock(b))
      BY <1>10 DEF ReceiveCompact
  <2>2. CASE UNCHANGED <<chainVars, flightVars>>
      BY <2>1, <2>2, <1>t, UntouchedKeepsBooks DEF chainVars, flightVars, peerVars
  <2>3. CASE ProcessNewBlock(b)
      BY <2>0, <2>1, <2>3, ProcessKeepsBooks
  <2> QED
      BY <2>1, <2>2, <2>3
<1>11. ASSUME NEW p \in Peer, NEW b \in Block, ReceiveTransactions(p, b) PROVE Books'
  <2>1. UNCHANGED peerVars /\ (UNCHANGED <<chainVars, flightVars>> \/ ProcessNewBlock(b))
      BY <1>11 DEF ReceiveTransactions
  <2>2. CASE UNCHANGED <<chainVars, flightVars>>
      BY <2>1, <2>2, <1>t, UntouchedKeepsBooks DEF chainVars, flightVars, peerVars
  <2>3. CASE ProcessNewBlock(b)
      BY <2>1, <2>3, ProcessKeepsBooks
  <2> QED
      BY <2>1, <2>2, <2>3
<1> QED
    BY <1>0, <1>1, <1>2, <1>3, <1>4, <1>5, <1>6, <1>7, <1>8, <1>9, <1>10, <1>11 DEF Next

(* The books hold in every reachable state. *)
LEMMA BooksHold == Spec => []Books
<1>1. Init => Books
    BY InitBooks
<1>2. Books /\ [Next]_vars => Books'
    BY NextKeepsBooks
<1> QED
    BY <1>1, <1>2, PTL DEF Spec

(* mapBlocksInFlight and the lists and counters of the peers always agree, *)
(* whatever peers send, and whenever they are finalized.                   *)
THEOREM FlightAlwaysExact == Spec => []FlightExact
<1>1. Books => FlightExact
    BY DEF Books
<1> QED
    BY <1>1, BooksHold, PTL

(* A peer that owes nothing is never held to be stalling. *)
THEOREM StallersAlwaysOwe == Spec => []StallersOwe
<1>1. Books => StallersOwe
    BY DEF Books
<1> QED
    BY <1>1, BooksHold, PTL

(* A stored block is never waited for. *)
THEOREM FlyingAlwaysMissing == Spec => []FlyingMissing
<1>1. Books => FlyingMissing
    BY DEF Books
<1> QED
    BY <1>1, BooksHold, PTL

-----------------------------------------------------------------------------
(* The tree of blocks *)

LEMMA LeastNat ==
    ASSUME NEW S \in SUBSET Nat, S # {}
    PROVE  \E n \in S : \A m \in S : n <= m
<1> DEFINE R == OpToRel(LAMBDA x, y : x < y, Nat)
<1>1. IsWellFoundedOn(R, Nat)
    BY NatLessThanWellFounded
<1> HIDE DEF R
<1>2. PICK x \in S : \A y \in S : ~ (<<y, x>> \in R)
    BY <1>1, WFMin
<1>3. \A m, n \in Nat : m < n => <<m, n>> \in R
    BY DEF R, OpToRel
<1>4. \A y \in S : ~ (y < x)
    BY <1>2, <1>3
<1> QED
    BY SMT, <1>4

(* A set with the genesis block, and with every block whose parent it has, *)
(* has them all.                                                           *)
LEMMA TreeInduction ==
    ASSUME NEW S, Genesis \in S,
           \A b \in Block \ {Genesis} : Parent[b] \in S => b \in S
    PROVE  Block \subseteq S
<1> SUFFICES ASSUME Block \ S # {} PROVE FALSE
    OBVIOUS
<1> DEFINE H == {Height[b] : b \in Block \ S}
<1>1. H \in SUBSET Nat /\ H # {}
    BY SMT, TreeAssumption
<1>2. PICK n \in H : \A m \in H : n <= m
    BY <1>1, LeastNat
<1>3. PICK b \in Block \ S : n = Height[b]
    BY <1>2
<1>4. b # Genesis /\ Parent[b] \in Block \ S
    BY <1>3, RelayAssumption
<1>5. Height[b] <= Height[Parent[b]]
    BY SMT, <1>2, <1>3, <1>4
<1>6. Height[b] = Height[Parent[b]] + 1 /\ Height[Parent[b]] \in Nat
    BY <1>3, <1>4, TreeAssumption
<1> QED
    BY SMT, <1>5, <1>6

(* A chain starts at the genesis block and ends at its highest block. *)
LEMMA ChainEnds ==
    \A x \in Block : /\ Genesis \in Chain[x] /\ x \in Chain[x]
                     /\ \A y \in Chain[x] : y # x => Height[y] < Height[x]
<1> DEFINE S == {x \in Block : /\ Genesis \in Chain[x] /\ x \in Chain[x]
                               /\ \A y \in Chain[x] : y # x => Height[y] < Height[x]}
<1>1. Genesis \in S
    BY RelayAssumption, TreeAssumption
<1>2. ASSUME NEW b \in Block \ {Genesis}, Parent[b] \in S PROVE b \in S
  <2>1. /\ Chain[b] = {b} \cup Chain[Parent[b]] /\ Height[b] = Height[Parent[b]] + 1
        /\ Height[Parent[b]] \in Nat /\ Chain[Parent[b]] \subseteq Block
      BY <1>2, TreeAssumption
  <2>2. ASSUME NEW y \in Chain[Parent[b]] PROVE Height[y] < Height[b]
    <3>1. y = Parent[b] \/ Height[y] < Height[Parent[b]]
        BY <1>2
    <3>2. Height[y] \in Nat
        BY <2>1, TreeAssumption
    <3> QED
        BY SMT, <2>1, <3>1, <3>2
  <2> QED
      BY <1>2, <2>1, <2>2
<1> HIDE DEF S
<1>3. Block \subseteq S
    BY <1>1, <1>2, TreeInduction
<1> QED
    BY <1>3 DEF S

(* The blocks of a chain differ in height. *)
LEMMA HeightsDiffer ==
    \A x \in Block : \A y, z \in Chain[x] : y # z => Height[y] # Height[z]
<1> DEFINE S == {x \in Block : \A y, z \in Chain[x] : y # z => Height[y] # Height[z]}
<1>1. Genesis \in S
    BY RelayAssumption, TreeAssumption
<1>2. ASSUME NEW b \in Block \ {Genesis}, Parent[b] \in S PROVE b \in S
  <2>1. Chain[b] = {b} \cup Chain[Parent[b]] /\ Height[b] \in Nat
      BY TreeAssumption
  <2>2. \A y \in Chain[b] : y # b => Height[y] < Height[b] /\ Height[y] \in Nat
      BY ChainEnds, TreeAssumption
  <2> QED
      BY SMT, <1>2, <2>1, <2>2
<1> HIDE DEF S
<1>3. Block \subseteq S
    BY <1>1, <1>2, TreeInduction
<1> QED
    BY <1>3 DEF S

(* Of finitely many blocks one is highest: the code's walks end there. *)
LEMMA HighestExists ==
    ASSUME NEW S \in SUBSET Block, S # {}
    PROVE  Highest(S) # {} /\ (CHOOSE b \in Highest(S) : TRUE) \in S
<1> DEFINE Above(b) == {c \in S : Height[b] < Height[c]}
           Size(b) == Cardinality(Above(b))
           N == {Size(b) : b \in S}
<1>1. \A b \in S : Size(b) \in Nat /\ IsFiniteSet(Above(b))
    BY FiniteBlocks
<1>h. \A b \in S : Height[b] \in Nat
    BY TreeAssumption
<1> HIDE DEF Size
<1>2. N \in SUBSET Nat /\ N # {}
    BY <1>1
<1>3. PICK n \in N : \A m \in N : n <= m
    BY <1>2, LeastNat
<1>4. PICK b \in S : n = Size(b)
    BY <1>3
<1>5. ASSUME NEW c \in S, ~ (Height[c] <= Height[b]) PROVE FALSE
  <2>1. Above(c) \subseteq Above(b) /\ c \in Above(b) /\ c \notin Above(c)
      BY SMT, <1>5, <1>h
  <2>2. Above(c) # Above(b)
      BY <2>1
  <2>3. /\ IsFiniteSet(Above(b)) /\ Size(b) <= Size(c)
        /\ Cardinality(Above(b)) \in Nat /\ Cardinality(Above(c)) \in Nat
      BY <1>1, <1>3, <1>4, FiniteBlocks
  <2> HIDE DEF Above
  <2>4. Cardinality(Above(c)) < Cardinality(Above(b))
      BY SMT, <2>1, <2>2, <2>3, FS_Subset
  <2>5. Size(c) < Size(b) /\ Size(b) \in Nat /\ Size(c) \in Nat
      BY <1>1, <2>4 DEF Size
  <2> QED
      BY SMT, <2>3, <2>5
<1>6. b \in Highest(S)
    BY <1>5 DEF Highest
<1>7. (CHOOSE x \in Highest(S) : TRUE) \in Highest(S)
    BY <1>6
<1> QED
    BY <1>6, <1>7 DEF Highest

-----------------------------------------------------------------------------
(* The types of the state *)

(* FindNextBlocksToDownload asks for no more than it is told to. *)
LEMMA FetchBound ==
    ASSUME NEW k \in Known, k.best \in Block, NEW n \in Nat
    PROVE  Cardinality(Fetch(k, n)) <= n
<1> DEFINE wanted == {b \in Walk(k) \ data :
                         flying[b] = None /\ Height[b] <= Height[k.common] + Window}
           lower(b) == {c \in wanted : Height[c] < Height[b]}
           F == Fetch(k, n)
<1>1. wanted \subseteq Chain[k.best] /\ wanted \in SUBSET Block
    BY DEF Walk
<1>2. F = {b \in wanted : Cardinality(lower(b)) < n}
    BY DEF Fetch
<1> HIDE DEF wanted
<1>3. F \in SUBSET wanted /\ F \in SUBSET Block
    BY <1>1, <1>2
<1>4. IsFiniteSet(F) /\ Cardinality(F) \in Nat
    BY <1>3, FiniteBlocks
<1>5. CASE F = {}
    BY SMT, <1>5, FS_EmptySet
<1>6. CASE F # {}
  <2>1. PICK b \in F : \A c \in F : Height[c] <= Height[b]
    <3>1. Highest(F) # {}
        BY <1>3, <1>6, HighestExists
    <3> QED
        BY <3>1 DEF Highest
  <2>2. F \ {b} \subseteq lower(b)
    <3> SUFFICES ASSUME NEW c \in F, c # b PROVE Height[c] < Height[b]
        BY <1>3
    <3>1. Height[c] # Height[b] /\ Height[c] \in Nat /\ Height[b] \in Nat
        BY SMT, <1>1, <1>3, HeightsDiffer, TreeAssumption
    <3> QED
        BY SMT, <2>1, <3>1
  <2>3. /\ IsFiniteSet(lower(b)) /\ Cardinality(lower(b)) \in Nat
        /\ Cardinality(lower(b)) < n
    <3>1. lower(b) \in SUBSET Block
        BY <1>1
    <3> QED
        BY <3>1, <1>2, FiniteBlocks
  <2> HIDE DEF F, lower
  <2>4. Cardinality(F \ {b}) <= Cardinality(lower(b))
      BY <2>2, <2>3, FS_Subset
  <2>5. Cardinality(F \ {b}) = Cardinality(F) - 1
      BY <1>4, FS_RemoveElement
  <2> QED
      BY SMT, <1>4, <2>3, <2>4, <2>5 DEF F
<1> QED
    BY <1>5, <1>6

(* What is known of a peer stays of its type while announcements are       *)
(* looked up.                                                              *)
LEMMA AnnouncedType ==
    ASSUME NEW k \in Known, index \subseteq Block, NEW b \in Block
    PROVE  Available(k) \in Known /\ Announced(k, b) \in Known
<1>1. \A x \in Block \cup {None}, y \in Block : Better(x, y) \in Block
    BY DEF Better
<1>2. Available(k) \in Known
    BY <1>1 DEF Available, Known
<1> QED
    BY <1>1, <1>2 DEF Announced, Known

(* There is a last block in common. *)
LEMMA LastCommonType ==
    ASSUME NEW k \in Known, k.best \in Block, tip \in Block
    PROVE  LastCommon(k) \in Block
<1> DEFINE guess == IF k.common # None THEN {k.common}
                    ELSE {b \in Chain[tip] : Height[b] <= Height[k.best]}
           top == CHOOSE b \in Highest(guess) : TRUE
           both == Chain[top] \cap Chain[k.best]
<1>1. guess \in SUBSET Block /\ guess # {}
  <2>1. CASE k.common # None
      BY <2>1 DEF Known
  <2>2. CASE k.common = None
    <3>1. Genesis \in Chain[tip] /\ Height[Genesis] <= Height[k.best] /\ Chain[tip] \subseteq Block
        BY SMT, ChainEnds, TreeAssumption
    <3> QED
        BY <2>2, <3>1
  <2> QED
      BY <2>1, <2>2
<1> HIDE DEF guess
<1>2. top \in Block
    BY <1>1, HighestExists
<1> HIDE DEF top
<1>3. both \in SUBSET Block /\ both # {}
  <2>1. Genesis \in Chain[top] /\ Genesis \in Chain[k.best]
      BY <1>2, ChainEnds
  <2>2. Chain[top] \subseteq Block
      BY <1>2, TreeAssumption
  <2> QED
      BY <2>1, <2>2
<1> HIDE DEF both
<1>4. (CHOOSE b \in Highest(both) : TRUE) \in Block
    BY <1>3, HighestExists
<1> QED
    BY <1>4 DEF LastCommon, both, top, guess

LEMMA AdvancedType ==
    ASSUME NEW k \in Known, k.common \in Block
    PROVE  Advanced(k) \in Known
<1> DEFINE bs == {k.common} \cup (Walk(k) \cap Linked(data))
<1>1. bs \in SUBSET Block /\ bs # {}
    BY DEF Walk
<1>2. (CHOOSE b \in Highest(bs) : TRUE) \in Block
    BY <1>1, HighestExists
<1> QED
    BY <1>2 DEF Advanced, Known

LEMMA FirstByHashType ==
    ASSUME NEW S \in SUBSET Block, S # {}
    PROVE  FirstByHash(S) \in S
<1> DEFINE N == {Rank[b] : b \in S}
<1>1. N \in SUBSET Nat /\ N # {}
    BY SMT, RelayAssumption
<1>2. PICK n \in N : \A m \in N : n <= m
    BY <1>1, LeastNat
<1>3. \E b \in S : \A c \in S : Rank[b] <= Rank[c]
    BY <1>2
<1> QED
    BY <1>3 DEF FirstByHash

(* What Books leaves out of the types: with the limits of the counters and *)
(* of the maps.                                                            *)
Limits ==
    /\ now \in 0 .. MaxNow
    /\ data \subseteq index /\ index \subseteq Block /\ tip \in data
    /\ queued <= MaxQueued
    /\ known \in [Peer -> Known]
    /\ \A p \in Peer : count[p] <= MaxInTransit
    /\ future \subseteq Deferrable /\ Cardinality(future) <= FutureCap
    /\ taken \subseteq Block
    /\ partial \subseteq Block /\ Cardinality(partial) <= PartialCap

(* A staller owes a block, and so is a peer that is still known. *)
LEMMA LimitsType == Books /\ Limits => TypeOK
<1> SUFFICES ASSUME Books, Limits PROVE TypeOK
    OBVIOUS
<1>1. FlightType /\ FlightExact /\ StallersOwe
    BY DEF Books
<1>2. ASSUME NEW p \in stalling PROVE p \in peers
  <2>1. p \in Peer /\ list[p] # {} /\ p # None
      BY <1>1, RelayAssumption DEF FlightType, StallersOwe
  <2>2. \E b \in Block : flying[b] = p
      BY <1>1, <2>1 DEF FlightExact
  <2> QED
      BY <1>1, <2>1, <2>2 DEF FlightExact
<1>3. count \in [Peer -> 0 .. MaxInTransit]
    BY SMT, <1>1, RelayAssumption DEF FlightType, Limits
<1>4. queued \in 0 .. MaxQueued
    BY SMT, <1>1, RelayAssumption DEF FlightType, Limits
<1> QED
    BY <1>1, <1>2, <1>3, <1>4 DEF FlightType, Limits, TypeOK

LEMMA InitLimits == Init => Limits
<1> SUFFICES ASSUME Init PROVE Limits
    OBVIOUS
<1>1. Cardinality({}) = 0
    BY FS_EmptySet
<1>2. NothingKnown \in Known
    BY DEF NothingKnown, Known
<1> QED
    BY SMT, <1>1, <1>2, RelayAssumption DEF Init, Limits

(* ProcessNewBlock stores a block of the tree, moves the tip to a stored   *)
(* block and only lowers the counters.                                     *)
LEMMA ProcessLimits ==
    ASSUME Books, Limits, NEW b \in Block, ProcessNewBlock(b)
    PROVE  /\ data' \subseteq index' /\ index' \subseteq Block /\ tip' \in data'
           /\ queued' <= MaxQueued
           /\ \A p \in Peer : count'[p] <= MaxInTransit
<1>1. data \subseteq index /\ index \subseteq Block /\ tip \in data
    BY DEF Limits
<1>2. AcceptBlock(b) /\ MarkBlockAsReceived({b})
    BY DEF ProcessNewBlock, AcceptBlock
<1>3. data' \subseteq index' /\ index' \subseteq Block
    BY <1>1, <1>2 DEF AcceptBlock, chainVars
<1>4. tip' \in data'
  <2>1. tip' = tip \/ tip' \in Highest(Linked(data'))
      BY <1>2 DEF AcceptBlock, chainVars
  <2>2. Highest(Linked(data')) \subseteq data'
      BY DEF Highest, Linked
  <2>3. data \subseteq data'
      BY <1>2 DEF AcceptBlock, chainVars
  <2> QED
      BY <1>1, <2>1, <2>2, <2>3
<1>5. queued' <= MaxQueued
  <2> DEFINE n == Cardinality({c \in {b} : flying[c] # None})
  <2>1. n \in Nat
      BY FiniteBlocks
  <2>2. queued' = queued - n /\ queued \in Nat /\ queued <= MaxQueued
      BY <1>2 DEF MarkBlockAsReceived, Books, FlightType, Limits
  <2> HIDE DEF n
  <2> QED
      BY SMT, <2>1, <2>2, RelayAssumption
<1>6. ASSUME NEW p \in Peer PROVE count'[p] <= MaxInTransit
  <2> DEFINE n == Cardinality(Owed(p, {b}))
  <2>1. n \in Nat
      BY FiniteBlocks DEF Owed
  <2>2. count'[p] = count[p] - n /\ count[p] \in Nat /\ count[p] <= MaxInTransit
      BY <1>2 DEF MarkBlockAsReceived, Books, FlightType, Limits
  <2> HIDE DEF n
  <2> QED
      BY SMT, <2>1, <2>2, RelayAssumption
<1> QED
    BY <1>3, <1>4, <1>5, <1>6

LEMMA OneMore ==
    ASSUME NEW S \in SUBSET Block, NEW b \in Block
    PROVE  /\ Cardinality(S) \in Nat /\ Cardinality(S \cup {b}) \in Nat
           /\ Cardinality(S \cup {b}) <= Cardinality(S) + 1
<1> DEFINE T == S \cup {b}
<1>1. IsFiniteSet(S) /\ Cardinality(S) \in Nat /\ Cardinality(T) \in Nat
    BY FiniteBlocks
<1>2. Cardinality(T) = IF b \in S THEN Cardinality(S) ELSE Cardinality(S) + 1
    BY <1>1, FS_AddElement
<1> HIDE DEF T
<1>3. Cardinality(T) <= Cardinality(S) + 1
    BY SMT, <1>1, <1>2
<1> QED
    BY <1>1, <1>3 DEF T

(* The queue of deferred blocks keeps to its limit, and to blocks that may *)
(* be too new.                                                             *)
LEMMA DeferLimit ==
    ASSUME Limits, NEW b \in Deferrable
    PROVE  Defer(b) \subseteq Deferrable /\ Cardinality(Defer(b)) <= FutureCap
<1> DEFINE last == FirstByHash(Latest(future))
           kept == IF Cardinality(future) >= FutureCap /\ Time[b] < Time[last]
                   THEN future \ {last} ELSE future
<1>0. b \in Block /\ future \subseteq Deferrable
    BY DEF Limits, Deferrable
<1>1. future \in SUBSET Block /\ Cardinality(future) <= FutureCap
    BY DEF Limits, Deferrable
<1>2. kept \in SUBSET future /\ kept \in SUBSET Block
    BY <1>1
<1>3. Defer(b) = IF Cardinality(kept) < FutureCap THEN kept \cup {b} ELSE kept
    BY DEF Defer
<1> HIDE DEF kept
<1>4. /\ IsFiniteSet(kept) /\ Cardinality(kept) \in Nat
      /\ IsFiniteSet(future) /\ Cardinality(future) \in Nat
    BY <1>1, <1>2, FiniteBlocks
<1>5. Cardinality(kept) <= Cardinality(future)
    BY <1>2, <1>4, FS_Subset
<1>6. CASE Cardinality(kept) < FutureCap
  <2>1. Defer(b) = kept \cup {b} /\ kept \cup {b} \subseteq Deferrable
      BY <1>0, <1>2, <1>3, <1>6
  <2>2. /\ Cardinality(kept \cup {b}) <= Cardinality(kept) + 1
        /\ Cardinality(kept \cup {b}) \in Nat
      BY <1>0, <1>2, OneMore
  <2> QED
      BY SMT, <1>4, <1>6, <2>1, <2>2, RelayAssumption
<1>7. CASE ~ (Cardinality(kept) < FutureCap)
  <2>1. Defer(b) = kept /\ kept \subseteq Deferrable
      BY <1>0, <1>2, <1>3, <1>7
  <2> QED
      BY SMT, <1>1, <1>4, <1>5, <2>1, RelayAssumption
<1> QED
    BY <1>6, <1>7

(* The map of partly downloaded blocks keeps to its limit: at the limit    *)
(* one goes first.                                                         *)
LEMMA PartialLimit ==
    ASSUME Limits, NEW b \in Block
    PROVE  Cardinality({b} \cup (IF Cardinality(partial) >= PartialCap
                                 THEN partial \ {FirstByHash(partial)} ELSE partial)) <= PartialCap
<1> DEFINE kept == IF Cardinality(partial) >= PartialCap
                   THEN partial \ {FirstByHash(partial)} ELSE partial
<1>1. partial \in SUBSET Block /\ Cardinality(partial) <= PartialCap
    BY DEF Limits
<1>2. /\ IsFiniteSet(partial) /\ Cardinality(partial) \in Nat
      /\ kept \in SUBSET Block /\ Cardinality(kept) \in Nat
    BY <1>1, FiniteBlocks
<1>3. Cardinality(kept) < PartialCap
  <2>1. CASE Cardinality(partial) >= PartialCap
    <3>0. Cardinality({}) = 0 /\ PartialCap \in Nat \ {0}
        BY FS_EmptySet, RelayAssumption
    <3>1. partial # {}
        BY SMT, <2>1, <3>0
    <3>2. FirstByHash(partial) \in partial
        BY <1>1, <3>1, FirstByHashType
    <3>3. Cardinality(partial \ {FirstByHash(partial)}) = Cardinality(partial) - 1
        BY <1>2, <3>2, FS_RemoveElement
    <3>4. kept = partial \ {FirstByHash(partial)}
        BY <2>1
    <3> HIDE DEF kept
    <3> QED
        BY SMT, <1>1, <1>2, <3>3, <3>4, RelayAssumption
  <2>2. CASE ~ (Cardinality(partial) >= PartialCap)
      BY SMT, <1>2, <2>2, RelayAssumption
  <2> QED
      BY <2>1, <2>2
<1> HIDE DEF kept
<1>4. /\ Cardinality(kept \cup {b}) <= Cardinality(kept) + 1
      /\ Cardinality(kept \cup {b}) \in Nat
    BY <1>2, OneMore
<1>5. Cardinality({b} \cup kept) <= PartialCap
  <2>1. {b} \cup kept = kept \cup {b}
      OBVIOUS
  <2>2. PartialCap \in Nat
      BY RelayAssumption
  <2> QED
      BY SMT, <1>2, <1>3, <1>4, <2>1, <2>2
<1> QED
    BY <1>5 DEF kept

(* A request stays within the limit of the peer and of the counter, and    *)
(* the last block in common is a block.                                    *)
LEMMA SendLimits ==
    ASSUME Books, Limits, NEW p \in Peer, SendMessages(p)
    PROVE  Limits'
<1> DEFINE seen == Available(known[p])
           k == [seen EXCEPT !.common = LastCommon(seen)]
           bs == Fetch(k, MaxInTransit - count[p])
<1>l. /\ index \subseteq Block /\ data \subseteq index /\ tip \in data
      /\ known \in [Peer -> Known] /\ queued <= MaxQueued
      /\ \A q \in Peer : count[q] <= MaxInTransit
    BY DEF Limits
<1>c. queued \in Nat /\ count \in [Peer -> Nat]
    BY DEF Books, FlightType
<1>1. /\ UNCHANGED <<now, index, data, tip, future, taken, partial>>
      /\ count[p] < MaxInTransit
      /\ \/ known' = [known EXCEPT ![p] = seen] /\ queued' = queued /\ count' = count
         \/ /\ seen.best # None /\ queued + Cardinality(bs) <= MaxQueued
            /\ known' = [known EXCEPT ![p] = Advanced(k)]
            /\ MarkBlockAsInFlight(p, bs, Staller(p, k))
    BY DEF SendMessages, chainVars, flightVars
<1>2. seen \in Known
    BY <1>l, RelayAssumption, AnnouncedType
<1> HIDE DEF seen
<1>3. CASE known' = [known EXCEPT ![p] = seen] /\ queued' = queued /\ count' = count
    BY <1>1, <1>2, <1>3 DEF Limits
<1>4. CASE /\ seen.best # None /\ queued + Cardinality(bs) <= MaxQueued
           /\ known' = [known EXCEPT ![p] = Advanced(k)]
           /\ MarkBlockAsInFlight(p, bs, Staller(p, k))
  <2>1. seen.best \in Block /\ LastCommon(seen) \in Block
      BY <1>2, <1>4, <1>l, LastCommonType DEF Known
  <2>2. k \in Known /\ k.best \in Block /\ k.common \in Block
      BY <1>2, <2>1 DEF Known
  <2> HIDE DEF k
  <2>3. known' \in [Peer -> Known]
      BY <1>4, <1>l, <2>2, AdvancedType
  <2>4. /\ bs \in SUBSET Block /\ \A b \in bs : flying[b] = None
        /\ Cardinality(bs) <= MaxInTransit - count[p]
    <3>1. MaxInTransit - count[p] \in Nat
        BY SMT, <1>1, <1>c, RelayAssumption
    <3> QED
        BY <2>2, <3>1, FetchBound, FetchIsFree
  <2> HIDE DEF bs
  <2>5. Cardinality(bs) \in Nat
      BY <2>4, FiniteBlocks
  <2>6. queued' <= MaxQueued
    <3>1. {b \in bs : flying[b] = None} = bs
        BY <2>4
    <3>2. queued' = queued + Cardinality(bs)
        BY <1>4, <3>1 DEF MarkBlockAsInFlight
    <3> QED
        BY <1>4, <3>2
  <2>7. ASSUME NEW q \in Peer PROVE count'[q] <= MaxInTransit
    <3>1. Owed(q, bs) = {}
        BY <2>4, RelayAssumption DEF Owed
    <3>2. count'[q] = count[q] - Cardinality({}) + (IF q = p THEN Cardinality(bs) ELSE 0)
        BY <1>4, <3>1 DEF MarkBlockAsInFlight
    <3>3. Cardinality({}) = 0 /\ count[q] \in Nat /\ count[q] <= MaxInTransit
        BY <1>c, <1>l, FS_EmptySet
    <3> QED
        BY SMT, <2>4, <2>5, <3>2, <3>3, RelayAssumption
  <2> QED
      BY <1>1, <2>3, <2>6, <2>7 DEF Limits
<1> QED
    BY <1>1, <1>3, <1>4

(* A step that hands in a block, or leaves chain and flight alone. *)
LEMMA HandedInLimits ==
    ASSUME Books, Limits, NEW b \in Block,
           UNCHANGED <<chainVars, flightVars>> \/ ProcessNewBlock(b),
           now' = now, UNCHANGED peerVars,
           future' \subseteq Deferrable, Cardinality(future') <= FutureCap, taken' \subseteq Block,
           partial' \subseteq Block, Cardinality(partial') <= PartialCap
    PROVE  Limits'
<1>1. /\ data' \subseteq index' /\ index' \subseteq Block /\ tip' \in data'
      /\ queued' <= MaxQueued
      /\ \A p \in Peer : count'[p] <= MaxInTransit
    BY ProcessLimits DEF Limits, chainVars, flightVars
<1>2. now' \in 0 .. MaxNow /\ known' \in [Peer -> Known]
    BY DEF Limits, peerVars
<1> QED
    BY <1>1, <1>2 DEF Limits

LEMMA NextLimits == Books /\ Limits /\ [Next]_vars => Limits'
<1> SUFFICES ASSUME Books, Limits, [Next]_vars PROVE Limits'
    OBVIOUS
<1>f. /\ future \subseteq Deferrable /\ Cardinality(future) <= FutureCap /\ taken \subseteq Block
      /\ partial \subseteq Block /\ Cardinality(partial) <= PartialCap
    BY DEF Limits
<1>s. ASSUME NEW S \in SUBSET Block, NEW T \in SUBSET S, NEW n \in Nat, Cardinality(S) <= n
      PROVE  Cardinality(T) <= n
  <2>1. /\ IsFiniteSet(S) /\ Cardinality(S) \in Nat /\ Cardinality(T) \in Nat
      BY FiniteBlocks
  <2>2. Cardinality(T) <= Cardinality(S)
      BY <2>1, FS_Subset
  <2> QED
      BY SMT, <1>s, <2>1, <2>2
<1>0. CASE UNCHANGED vars
    BY <1>0 DEF vars, flightVars, chainVars, peerVars, Limits
<1>1. CASE Tick
    BY SMT, <1>1, RelayAssumption DEF Tick, flightVars, chainVars, peerVars, Limits
<1>2. CASE TakeDue
  <2>1. PICK due \in SUBSET future : future' = future \ due /\ taken' = due
      BY <1>2 DEF TakeDue
  <2>2. future \in SUBSET Block
      BY <1>f DEF Deferrable
  <2>3. Cardinality(future') <= FutureCap
      BY <1>f, <1>s, <2>1, <2>2, RelayAssumption
  <2>4. UNCHANGED <<now, index, data, tip, queued, count, known, partial>>
      BY <1>2 DEF TakeDue, chainVars, flightVars, peerVars
  <2> QED
      BY <1>f, <2>1, <2>2, <2>3, <2>4 DEF Limits
<1>3. ASSUME NEW p \in Peer, InitializeNode(p) \/ Leave(p) \/ TimeOut(p) PROVE Limits'
    BY <1>3 DEF InitializeNode, Leave, TimeOut, chainVars, flightVars, Limits
<1>4. ASSUME NEW p \in Peer, FinalizeNode(p) PROVE Limits'
  <2>1. /\ UNCHANGED <<now, index, data, tip, queued, future, taken, partial>>
        /\ known' = [known EXCEPT ![p] = NothingKnown] /\ count' = [count EXCEPT ![p] = 0]
      BY <1>4 DEF FinalizeNode, chainVars
  <2>2. NothingKnown \in Known
      BY DEF NothingKnown, Known
  <2>3. ASSUME NEW q \in Peer PROVE count'[q] <= MaxInTransit
      BY SMT, <2>1, RelayAssumption DEF Books, FlightType, Limits
  <2> QED
      BY <2>1, <2>2, <2>3 DEF Limits
<1>5. ASSUME NEW p \in Peer, SendMessages(p) PROVE Limits'
    BY <1>5, SendLimits
<1>6. ASSUME NEW b \in Block, SubmitBlock(b) PROVE Limits'
    BY <1>6, <1>f, HandedInLimits DEF SubmitBlock
<1>7. ASSUME NEW b \in Block, ProcessFuture(b) PROVE Limits'
  <2>1. /\ UNCHANGED <<chainVars, flightVars>> \/ ProcessNewBlock(b)
        /\ taken' \subseteq taken /\ UNCHANGED <<now, peerVars, future, partial>>
      BY <1>7 DEF ProcessFuture
  <2> QED
      BY <1>f, <2>1, HandedInLimits
<1>8. ASSUME NEW p \in Peer, NEW b \in Told, Announce(p, b) PROVE Limits'
  <2>1. /\ UNCHANGED <<now, index, data, tip, queued, count, future, taken, partial>>
        /\ known' = [known EXCEPT ![p] = Announced(known[p], b)]
      BY <1>8 DEF Announce, chainVars, flightVars, Limits
  <2>2. Announced(known[p], b) \in Known
      BY RelayAssumption, AnnouncedType DEF Limits
  <2> QED
      BY <2>1, <2>2 DEF Limits
<1>9. ASSUME NEW p \in Peer, NEW b \in Block, ReceiveBlock(p, b) PROVE Limits'
  <2>1. /\ ProcessNewBlock(b) /\ UNCHANGED <<now, peerVars, taken, partial>>
        /\ (TooNew(b) /\ future' = Defer(b)) \/ future' = future
      BY <1>9 DEF ReceiveBlock
  <2>2. TooNew(b) => b \in Deferrable
    <3>1. now \in Nat /\ Time[b] \in Nat /\ Drift \in Nat
        BY SMT, RelayAssumption DEF Limits
    <3>2. TooNew(b) => Time[b] > Drift
        BY SMT, <3>1 DEF TooNew
    <3> QED
        BY <3>2 DEF Deferrable
  <2>3. future' \subseteq Deferrable /\ Cardinality(future') <= FutureCap
      BY <1>f, <2>1, <2>2, DeferLimit
  <2> QED
      BY <1>f, <2>1, <2>3, HandedInLimits
<1>10. ASSUME NEW p \in Peer, NEW b \in Compact, ReceiveCompact(p, b) PROVE Limits'
  <2> DEFINE more == {b} \cup (IF Cardinality(partial) >= PartialCap
                               THEN partial \ {FirstByHash(partial)} ELSE partial)
  <2>0. b \in Block
      BY RelayAssumption
  <2>1. /\ UNCHANGED <<now, peerVars, future, taken>>
        /\ UNCHANGED <<chainVars, flightVars>> \/ ProcessNewBlock(b)
        /\ partial' = more \/ partial' = partial
      BY <1>10 DEF ReceiveCompact
  <2>2. more \subseteq Block /\ Cardinality(more) <= PartialCap
      BY <1>f, <2>0, PartialLimit
  <2> HIDE DEF more
  <2> QED
      BY <1>f, <2>0, <2>1, <2>2, HandedInLimits
<1>11. ASSUME NEW p \in Peer, NEW b \in Block, ReceiveTransactions(p, b) PROVE Limits'
  <2>1. /\ UNCHANGED <<now, peerVars, future, taken>>
        /\ UNCHANGED <<chainVars, flightVars>> \/ ProcessNewBlock(b)
        /\ partial' \in SUBSET partial
      BY <1>11 DEF ReceiveTransactions
  <2>2. Cardinality(partial') <= PartialCap
      BY <1>f, <1>s, <2>1, RelayAssumption
  <2> QED
      BY <1>f, <2>1, <2>2, HandedInLimits
<1> QED
    BY <1>0, <1>1, <1>2, <1>3, <1>4, <1>5, <1>6, <1>7, <1>8, <1>9, <1>10, <1>11 DEF Next

(* The state has its types, mapFutureBlocks and                            *)
(* mapPartiallyDownloadedBlocks keep to their limits, and no peer is ever  *)
(* asked for more than MAX_BLOCKS_IN_TRANSIT_PER_PEER blocks at a time:    *)
(* the blocks FindNextBlocksToDownload picks lie on one chain, so that     *)
(* they are counted by height.                                             *)
THEOREM RelayTyped == Spec => []TypeOK
<1>1. Init => Limits
    BY InitLimits
<1>2. Books /\ Limits /\ [Next]_vars => Limits'
    BY NextLimits
<1>3. Books /\ Limits => TypeOK
    BY LimitsType
<1> QED
    BY <1>1, <1>2, <1>3, BooksHold, PTL DEF Spec
=============================================================================
