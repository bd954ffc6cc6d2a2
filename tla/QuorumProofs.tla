---------------------------- MODULE QuorumProofs ----------------------------
(***************************************************************************)
(* Proofs about QuorumSigning: its types, the guard that keeps signatures  *)
(* for rival blocks apart, and the certificates built from them.           *)
(***************************************************************************)
EXTENDS QuorumSigning, FiniteSetTheorems, TLAPS

(* Most leaves are about sets, which Zenon is best at; where numbers count *)
(* the leaf cites SMT.                                                     *)
USE Zenon

-----------------------------------------------------------------------------
(* What the operators of the model return *)

(* Inserting shares into mapQuorumBlockSigs adds nothing but those shares. *)
LEMMA CacheSharesGrows ==
  ASSUME NEW C \in [Block -> SUBSET Member], NEW b \in Block, NEW ms \in SUBSET Member
  PROVE  /\ CacheShares(C, b, ms) \in [Block -> SUBSET Member]
         /\ \A c \in Block : CacheShares(C, b, ms)[c] \subseteq C[c] \cup (IF c = b THEN ms ELSE {})
<1> DEFINE used == {c \in Block : C[c] # {}}
           low == Lowest(used)
           D == IF ms # {} /\ Cardinality(used) > CacheLimit /\ b \notin used
                THEN [C EXCEPT ![low] = {}] ELSE C
<1>1. D \in [Block -> SUBSET Member] /\ \A c \in Block : D[c] \subseteq C[c]
  <2> HIDE DEF low
  <2> QED  OBVIOUS
<1>2. CacheShares(C, b, ms) = [D EXCEPT ![b] = @ \cup ms]
  BY DEF CacheShares
<1> HIDE DEF D
<1> QED  BY <1>1, <1>2

(* Pruning the cache on a new tip only forgets shares. *)
LEMMA PrunedShrinks ==
  ASSUME NEW C \in [Block -> SUBSET Member], NEW known, NEW h, NEW full \in BOOLEAN
  PROVE  /\ Pruned(C, known, h, full) \in [Block -> SUBSET Member]
         /\ \A c \in Block : Pruned(C, known, h, full)[c] \subseteq C[c]
<1> DEFINE used == {b \in Block : C[b] # {}}
           recent == {b \in used : b \in known => Height[b] >= h - KeepHeights}
           kept == {b \in recent : Cardinality({c \in recent : Hash[c] > Hash[b]}) < KeepItems}
<1>1. \/ Pruned(C, known, h, full) = [b \in Block |-> IF b \in kept THEN C[b] ELSE {}]
      \/ Pruned(C, known, h, full) = C
  BY DEF Pruned
<1> HIDE DEF kept
<1> QED  BY <1>1

(* Marking a block as seen keeps setSeenProposedBlocks a set of blocks. *)
LEMMA MarkSeenType ==
  ASSUME NEW S \in SUBSET Block, NEW b \in Block
  PROVE  MarkSeen(S, b) \in SUBSET Block
BY DEF MarkSeen

(* The cleanup of the guard keeps or drops each entry, and drops only stale ones. *)
LEMMA CleanedKeeps ==
  ASSUME TypeOK, NEW n \in Node
  PROVE  /\ Cleaned(n) \in [Parents -> GuardEntry \cup {None}]
         /\ \A p \in Parents :
              \/ Cleaned(n)[p] = guard[n][p]
              \/ /\ Cleaned(n)[p] = None
                 /\ guard[n][p] # None
                 /\ now - guard[n][p].time > StaleAge
<1>1. guard[n] \in [Parents -> GuardEntry \cup {None}]
  BY DEF TypeOK
<1> QED  BY <1>1 DEF Cleaned

(* A guard entry after AllowQuorumSignature: unchanged, dropped, or new. *)
LEMMA GuardAfterType ==
  ASSUME TypeOK, NEW n \in Node, NEW b \in Block
  PROVE  /\ GuardAfter(n, b) \in [Parents -> GuardEntry \cup {None}]
         /\ \A p \in Parents \ {Parent[b]} : GuardAfter(n, b)[p] = Cleaned(n)[p]
<1>1. Parent[b] \in Parents /\ now \in Nat
  BY QuorumAssumption DEF TypeOK
<1>2. [blk |-> b, time |-> now] \in GuardEntry
  BY <1>1 DEF GuardEntry
<1> QED  BY <1>1, <1>2, CleanedKeeps DEF GuardAfter

LEMMA SignersType ==
  ASSUME NEW n \in Node, NEW b \in Block
  PROVE  /\ Signers(n, b) \in SUBSET Member
         /\ SignerSet(n, b) \subseteq Signers(n, b)
         /\ Signers(n, b) \subseteq Quorum[Parent[b]]
BY QuorumAssumption DEF Signers, SignerSet

(* Signing keeps the types of the guard, the signatures and the share cache. *)
LEMMA SignType ==
  ASSUME TypeOK, NEW n \in Node, NEW b \in Block, Sign(n, b)
  PROVE  /\ guard' \in [Node -> [Parents -> GuardEntry \cup {None}]]
         /\ signed' \subseteq Signature
         /\ shares' \in [Node -> [Block -> SUBSET Member]]
<1>1. guard' \in [Node -> [Parents -> GuardEntry \cup {None}]]
  <2>1. guard \in [Node -> [Parents -> GuardEntry \cup {None}]]
    BY DEF TypeOK
  <2> QED  BY <2>1, GuardAfterType DEF Sign
<1>2. signed' \subseteq Signature
  BY SMT, SignersType DEF Sign, FirstSignatures, Signature, TypeOK
<1>3. shares' \in [Node -> [Block -> SUBSET Member]]
  <2>1. shares \in [Node -> [Block -> SUBSET Member]]
    BY DEF TypeOK
  <2>2. CacheShares(shares[n], b, SignerSet(n, b)) \in [Block -> SUBSET Member]
    BY <2>1, SignersType, CacheSharesGrows
  <2> QED  BY <2>1, <2>2 DEF Sign
<1> QED  BY <1>1, <1>2, <1>3

LEMMA MessagesType ==
  ASSUME NEW b \in Block, NEW n \in Node, NEW to \in SUBSET Node, NEW ms \in SUBSET Member
  PROVE  Proposals(b, n, to) \subseteq Message /\ Shares(b, ms, n, to) \subseteq Message
BY SMT DEF Proposals, Shares, Message

LEMMA PhaseNames ==
  "failed" \in Phase /\ "assembled" \in Phase /\ "released" \in Phase /\ "polling" \in Phase
BY DEF Phase

-----------------------------------------------------------------------------
(* Type correctness *)

LEMMA InitType == Init => TypeOK
BY SMT, QuorumAssumption DEF Init, TypeOK, Parents, Phase

LEMMA NextType == TypeOK /\ [Next]_vars => TypeOK'
<1> SUFFICES ASSUME TypeOK, [Next]_vars PROVE TypeOK'
  OBVIOUS
<1> USE QuorumAssumption, TimeAssumption
<1>1. ASSUME NEW b \in Block, Propose(b) PROVE TypeOK'
  <2> DEFINE n == Coordinator[b]
  <2>1. n \in Node /\ Sign(n, b)
    BY <1>1 DEF Propose
  <2>2. /\ guard' \in [Node -> [Parents -> GuardEntry \cup {None}]]
        /\ signed' \subseteq Signature
        /\ shares' \in [Node -> [Block -> SUBSET Member]]
    BY <2>1, SignType
  <2>3. net' \subseteq Message
    BY <1>1, <2>1, MessagesType DEF Propose, TypeOK
  <2>4. /\ phase' \in [Block -> Phase] /\ collected' \in [Block -> SUBSET Member]
        /\ due' \in [Block -> Nat] /\ wait' \in [Block -> Nat]
    BY <1>1, <2>1, SignersType DEF Propose, TypeOK, Phase
  <2>5. active' \in [Node -> [parent : Parents, start : Nat] \cup {None}]
    BY <1>1, <2>1 DEF Propose, TypeOK
  <2> QED  BY <1>1, <2>2, <2>3, <2>4, <2>5 DEF Propose, TypeOK
<1>2. ASSUME NEW b \in Block, Poll(b) PROVE TypeOK'
  <2> DEFINE n == Coordinator[b]
             sigs == collected[b] \cup (shares[n][b] \cap Quorum[Parent[b]])
  <2>1. n \in Node /\ sigs \in SUBSET Member
    BY DEF TypeOK
  <2>2. net' \subseteq Message
    <3>1. Peers[n] \in SUBSET Node /\ {} \in SUBSET Member
      BY <2>1
    <3>2. Proposals(b, n, Peers[n]) \subseteq Message
      BY <2>1, <3>1, MessagesType
    <3>3. UNCHANGED net \/ net' = net \cup Proposals(b, n, Peers[n])
      BY <1>2 DEF Poll, Fail
    <3> QED  BY <3>2, <3>3 DEF TypeOK
  <2>3. /\ phase' \in [Block -> Phase] /\ collected' \in [Block -> SUBSET Member]
        /\ due' \in [Block -> Nat] /\ wait' \in [Block -> Nat]
    <3>1. \/ UNCHANGED phase
          \/ phase' = [phase EXCEPT ![b] = "failed"]
          \/ phase' = [phase EXCEPT ![b] = "assembled"]
      BY <1>2 DEF Poll, Fail
    <3>2. UNCHANGED collected \/ collected' = [collected EXCEPT ![b] = sigs]
      BY <1>2 DEF Poll, Fail
    <3>3. UNCHANGED due \/ due' = [due EXCEPT ![b] = now + 1]
      BY <1>2 DEF Poll, Fail
    <3>4. UNCHANGED wait \/ wait' = [wait EXCEPT ![b] = wait[b] + 1]
      BY <1>2 DEF Poll, Fail
    <3>5. phase' \in [Block -> Phase]
      BY <3>1, PhaseNames DEF TypeOK
    <3>6. due' \in [Block -> Nat]
      <4>1. due \in [Block -> Nat] /\ now + 1 \in Nat
        BY SMT DEF TypeOK
      <4> QED  BY <3>3, <4>1
    <3>7. wait' \in [Block -> Nat]
      <4>1. wait \in [Block -> Nat] /\ wait[b] + 1 \in Nat
        BY SMT DEF TypeOK
      <4> QED  BY <3>4, <4>1
    <3> HIDE DEF sigs
    <3>8. collected' \in [Block -> SUBSET Member]
      BY <2>1, <3>2 DEF TypeOK
    <3> QED  BY <3>5, <3>6, <3>7, <3>8
  <2>4. active' \in [Node -> [parent : Parents, start : Nat] \cup {None}]
    <3>1. UNCHANGED active \/ active' = [active EXCEPT ![n] = None]
      BY <1>2 DEF Poll, Fail
    <3> QED  BY <2>1, <3>1 DEF TypeOK
  <2> QED  BY <1>2, <2>2, <2>3, <2>4 DEF Poll, TypeOK
<1>3. ASSUME NEW b \in Block, Release(b) PROVE TypeOK'
  <2>1. \/ phase' = [phase EXCEPT ![b] = "released"]
        \/ phase' = [phase EXCEPT ![b] = "failed"]
    BY <1>3 DEF Release
  <2>2. UNCHANGED cert \/ cert' = [cert EXCEPT ![b] = collected[b]]
    BY <1>3 DEF Release
  <2>3. phase' \in [Block -> Phase]
    BY <2>1, PhaseNames DEF TypeOK
  <2>4. cert' \in [Block -> SUBSET Member]
    <3>1. cert \in [Block -> SUBSET Member] /\ collected[b] \in SUBSET Member
      BY DEF TypeOK
    <3> QED  BY <2>2, <3>1
  <2> QED  BY <1>3, <2>3, <2>4 DEF Release, TypeOK
<1>4. ASSUME NEW m \in net, ProposalSeen(m) PROVE TypeOK'
  <2>1. m.to \in Node /\ m.from \in Node /\ m.blk \in Block
    BY DEF TypeOK, Message
  <2>2. net' \subseteq Message
    <3>1. shares[m.to][m.blk] \in SUBSET Member /\ {m.from} \in SUBSET Node
      BY SMT, <2>1 DEF TypeOK
    <3>2. Shares(m.blk, shares[m.to][m.blk], m.to, {m.from}) \subseteq Message
      BY <2>1, <3>1, MessagesType
    <3> QED  BY <1>4, <3>2 DEF ProposalSeen, TypeOK
  <2> QED  BY <1>4, <2>2 DEF ProposalSeen, TypeOK, job
<1>5. ASSUME NEW m \in net, ProposalUnknownParent(m) PROVE TypeOK'
  BY <1>5 DEF ProposalUnknownParent, TypeOK, job
<1>6. ASSUME NEW m \in net, ProposalNew(m) PROVE TypeOK'
  <2>1. m.to \in Node /\ m.from \in Node /\ m.blk \in Block
    BY DEF TypeOK, Message
  <2>2. /\ guard' \in [Node -> [Parents -> GuardEntry \cup {None}]]
        /\ signed' \subseteq Signature
        /\ shares' \in [Node -> [Block -> SUBSET Member]]
    BY <1>6, <2>1, SignType DEF ProposalNew
  <2>3. net' \subseteq Message
    <3>1. Peers[m.to] \in SUBSET Node /\ SignerSet(m.to, m.blk) \in SUBSET Member
      BY <2>1, SignersType
    <3>2. /\ Proposals(m.blk, m.to, Peers[m.to] \ {m.from}) \subseteq Message
          /\ Shares(m.blk, SignerSet(m.to, m.blk), m.to, Peers[m.to]) \subseteq Message
      BY <2>1, <3>1, MessagesType
    <3> QED  BY <1>6, <3>2 DEF ProposalNew, TypeOK
  <2>4. seen' \in [Node -> SUBSET Block]
    BY <1>6, <2>1, MarkSeenType DEF ProposalNew, TypeOK, job
  <2> QED  BY <1>6, <2>2, <2>3, <2>4 DEF ProposalNew, TypeOK, job
<1>7. ASSUME NEW m \in net, ReceiveShare(m) PROVE TypeOK'
  <2>1. m.to \in Node /\ m.from \in Node /\ m.blk \in Block /\ m.mem \in Member
    BY <1>7 DEF TypeOK, Message, ReceiveShare
  <2>2. shares' \in [Node -> [Block -> SUBSET Member]]
    <3>1. /\ shares \in [Node -> [Block -> SUBSET Member]]
          /\ shares[m.to] \in [Block -> SUBSET Member]
          /\ {m.mem} \in SUBSET Member
      BY <2>1 DEF TypeOK
    <3>2. CacheShares(shares[m.to], m.blk, {m.mem}) \in [Block -> SUBSET Member]
      <4> DEFINE C == shares[m.to]
                 ms == {m.mem}
      <4>1. C \in [Block -> SUBSET Member] /\ ms \in SUBSET Member
        BY <3>1
      <4> HIDE DEF C, ms
      <4>2. CacheShares(C, m.blk, ms) \in [Block -> SUBSET Member]
        BY <2>1, <4>1, CacheSharesGrows
      <4> QED  BY <4>2 DEF C, ms
    <3>3. \/ UNCHANGED shares
          \/ shares' = [shares EXCEPT ![m.to] = CacheShares(shares[m.to], m.blk, {m.mem})]
      BY <1>7 DEF ReceiveShare
    <3> QED  BY <2>1, <3>1, <3>2, <3>3
  <2>3. net' \subseteq Message
    <3>1. Shares(m.blk, {m.mem}, m.to, Peers[m.to] \ {m.from}) \subseteq Message
      <4>1. Peers[m.to] \ {m.from} \in SUBSET Node /\ {m.mem} \in SUBSET Member
        BY <2>1
      <4> QED  BY <2>1, <4>1, MessagesType
    <3>2. net' \subseteq net \cup Shares(m.blk, {m.mem}, m.to, Peers[m.to] \ {m.from})
      BY <1>7 DEF ReceiveShare
    <3> QED  BY <3>1, <3>2 DEF TypeOK
  <2> QED  BY <1>7, <2>2, <2>3 DEF ReceiveShare, TypeOK, job
<1>8. ASSUME NEW m \in net, Lose(m) PROVE TypeOK'
  <2>1. lost' \in Nat /\ net' \subseteq Message
    <3>1. lost \in Nat /\ net \subseteq Message
      BY DEF TypeOK
    <3>2. lost' = lost + 1 /\ net' = net \ {m}
      BY <1>8 DEF Lose
    <3> QED  BY SMT, <3>1, <3>2
  <2>2. UNCHANGED <<now, tip, index, seen, shares, guard, active, phase, collected,
                    due, wait, cert, epoch, signed>>
    BY <1>8 DEF Lose, job
  <2> QED  BY <2>1, <2>2 DEF TypeOK
<1>9. ASSUME NEW n \in Node, Restart(n) PROVE TypeOK'
  <2>1. /\ phase' \in [Block -> Phase] /\ collected' \in [Block -> SUBSET Member]
        /\ due' \in [Block -> Nat] /\ wait' \in [Block -> Nat]
    BY <1>9 DEF Restart, TypeOK, Phase
  <2>2. epoch' \in [Node -> Nat] /\ seen' \in [Node -> SUBSET Block]
    <3>1. epoch' = [epoch EXCEPT ![n] = epoch[n] + 1] /\ seen' = [seen EXCEPT ![n] = {}]
      BY <1>9 DEF Restart
    <3>2. epoch \in [Node -> Nat] /\ seen \in [Node -> SUBSET Block]
      BY DEF TypeOK
    <3>3. epoch[n] + 1 \in Nat
      BY SMT, <3>2
    <3> QED  BY <3>1, <3>2, <3>3
  <2>3. shares' \in [Node -> [Block -> SUBSET Member]]
    BY <1>9 DEF Restart, TypeOK
  <2>4. guard' \in [Node -> [Parents -> GuardEntry \cup {None}]]
    BY <1>9 DEF Restart, TypeOK
  <2>5. /\ active' \in [Node -> [parent : Parents, start : Nat] \cup {None}]
        /\ net' \subseteq Message
    BY <1>9 DEF Restart, TypeOK
  <2>6. UNCHANGED <<now, tip, index, cert, lost, signed>>
    BY <1>9 DEF Restart
  <2> QED  BY <2>1, <2>2, <2>3, <2>4, <2>5, <2>6 DEF TypeOK
<1>10. ASSUME NEW n \in Node, NEW b \in Block, Adopt(n, b) PROVE TypeOK'
  <2>1. tip' \in [Node -> Parents]
    <3>1. UNCHANGED tip \/ tip' = [tip EXCEPT ![n] = b]
      BY <1>10 DEF Adopt
    <3> QED  BY <3>1 DEF TypeOK, Parents
  <2>3. index' \in [Node -> SUBSET Parents]
    BY <1>10 DEF Adopt, TypeOK, Parents
  <2>2. shares' \in [Node -> [Block -> SUBSET Member]]
    <3>1. shares \in [Node -> [Block -> SUBSET Member]] /\ shares[n] \in [Block -> SUBSET Member]
      BY DEF TypeOK
    <3>2. \/ UNCHANGED shares
          \/ \E full \in BOOLEAN :
               shares' = [shares EXCEPT ![n] = Pruned(shares[n], index[n], Height[b], full)]
      BY <1>10 DEF Adopt
    <3>3. ASSUME NEW full \in BOOLEAN
          PROVE  Pruned(shares[n], index[n], Height[b], full) \in [Block -> SUBSET Member]
      BY <3>1, PrunedShrinks
    <3>4. CASE UNCHANGED shares
      BY <3>1, <3>4
    <3>5. ASSUME NEW full \in BOOLEAN,
                 shares' = [shares EXCEPT ![n] = Pruned(shares[n], index[n], Height[b], full)]
          PROVE  shares' \in [Node -> [Block -> SUBSET Member]]
      <4> DEFINE D == Pruned(shares[n], index[n], Height[b], full)
      <4>1. D \in [Block -> SUBSET Member] /\ shares' = [shares EXCEPT ![n] = D]
        BY <3>3, <3>5
      <4> HIDE DEF D
      <4> QED  BY <3>1, <4>1
    <3> QED  BY <3>2, <3>4, <3>5
  <2> QED  BY <1>10, <2>1, <2>2, <2>3 DEF Adopt, TypeOK, job
<1>11. CASE Tick
  <2>1. now' \in Nat
    <3>1. now \in Nat
      BY DEF TypeOK
    <3>2. now' = now + 1
      BY <1>11 DEF Tick
    <3> QED  BY SMT, <3>1, <3>2
  <2>2. UNCHANGED <<tip, index, seen, shares, guard, active, phase, collected,
                    due, wait, cert, net, epoch, lost, signed>>
    BY <1>11 DEF Tick, job
  <2> QED  BY <2>1, <2>2 DEF TypeOK
<1>12. CASE UNCHANGED vars
  BY <1>12 DEF vars, job, TypeOK
<1> QED
  BY <1>1, <1>2, <1>3, <1>4, <1>5, <1>6, <1>7, <1>8, <1>9, <1>10, <1>11, <1>12 DEF Next

(* Every reachable state of the quorum protocol is well typed. *)
THEOREM TypeCorrect == Spec => []TypeOK
BY InitType, NextType, PTL DEF Spec

-----------------------------------------------------------------------------
(* The anti-equivocation guard of QuorumSigning keeps signatures apart. *)

(* The windows are ordered, and symmetric in the two blocks. *)
LEMMA WindowBounds ==
  ASSUME NEW a \in Block, NEW b \in Block
  PROVE  /\ Window(a, b) \in Nat
         /\ Window(a, b) <= GuardWindow
         /\ Window(a, b) = Window(b, a)
BY SMT, TimeAssumption DEF Window

(* If a window separates a from c and one separates c from b, then the sum *)
(* of the two covers the window between a and b.                           *)
LEMMA WindowTriangle ==
  ASSUME NEW a \in Block, NEW b \in Block, NEW c \in Block,
         NEW x \in Int, NEW y \in Int,
         x >= Window(a, c), y >= Window(c, b)
  PROVE  x + y >= Window(a, b)
BY SMT, TimeAssumption DEF Window

(* Dropping stale guard entries uncovers no signature. *)
LEMMA CleanedCovers ==
  ASSUME TypeOK, GuardInv, SignedInv, NEW n \in Node,
         NEW s \in signed, Holder[s.mem] = n, s.epoch = epoch[n]
  PROVE  Covered(s, Cleaned(n)[Parent[s.blk]])
<1> DEFINE p == Parent[s.blk]
           g == guard[n][p]
<1>1. /\ s.blk \in Block /\ p \in Parents /\ s.time \in Nat /\ now \in Nat
      /\ s.mem \in Member
      /\ g \in GuardEntry \cup {None}
  BY SMT, QuorumAssumption DEF TypeOK, Signature
<1>2. Covered(s, g)
  BY DEF SignedInv
<1>3. CASE Cleaned(n)[p] = g
  BY <1>2, <1>3
<1>4. CASE Cleaned(n)[p] = None /\ g # None /\ now - g.time > StaleAge
  <2>1. g.blk \in Block /\ g.time \in Nat
    BY <1>1, <1>4 DEF GuardEntry
  <2>2. s.time <= g.time
    <3>1. IF g.blk = s.blk THEN s.time <= g.time ELSE g.time - s.time >= Window(s.blk, g.blk)
      BY <1>2, <1>4 DEF Covered
    <3>2. Window(s.blk, g.blk) \in Nat
      BY <1>1, <2>1, WindowBounds
    <3> HIDE DEF g
    <3> QED  BY SMT, <1>1, <2>1, <3>1, <3>2
  <2>3. now - s.time >= GuardWindow
    BY SMT, <1>1, <1>4, <2>1, <2>2, TimeAssumption
  <2> QED  BY <1>4, <2>3 DEF Covered
<1> QED  BY <1>1, <1>3, <1>4, CleanedKeeps

(* A decision for b covers what the guard covered before it. *)
LEMMA DecisionCovers ==
  ASSUME TypeOK, NEW n \in Node, NEW b \in Block, NEW s \in signed,
         Parent[s.blk] = Parent[b], SignedInv,
         Covered(s, Cleaned(n)[Parent[b]]),
         Allowed(n, b),
         Cleaned(n)[Parent[b]] = None \/ Cleaned(n)[Parent[b]].blk # b
  PROVE  Covered(s, [blk |-> b, time |-> now])
<1> DEFINE prev == Cleaned(n)[Parent[b]]
           new == [blk |-> b, time |-> now]
<1>1. /\ s.blk \in Block /\ s.time \in Nat /\ now \in Nat /\ s.time <= now
      /\ Parent[b] \in Parents
  BY QuorumAssumption DEF TypeOK, Signature, SignedInv
<1>2. prev \in GuardEntry \cup {None}
  BY <1>1, CleanedKeeps
<1>3. s.blk # b => now - s.time >= Window(s.blk, b)
  <2> SUFFICES ASSUME s.blk # b PROVE now - s.time >= Window(s.blk, b)
    OBVIOUS
  <2>1. CASE prev = None
    BY SMT, <1>1, <2>1, WindowBounds, TimeAssumption DEF Covered
  <2>2. CASE prev # None
    <3>1. prev.blk \in Block /\ prev.time \in Nat
      BY <1>2, <2>2 DEF GuardEntry
    <3>2. now - prev.time >= Window(prev.blk, b)
      BY <2>2 DEF Allowed, Window
    <3>3. CASE prev.blk = s.blk
      <4>1. s.time <= prev.time
        BY <2>2, <3>3 DEF Covered
      <4> QED  BY SMT, <1>1, <3>1, <3>2, <3>3, <4>1, WindowBounds
    <3>4. CASE prev.blk # s.blk
      <4>1. prev.time - s.time >= Window(s.blk, prev.blk)
        BY <2>2, <3>4 DEF Covered
      <4> DEFINE x == prev.time - s.time
                 y == now - prev.time
      <4>2. x \in Int /\ y \in Int /\ x + y = now - s.time
        BY SMT, <1>1, <3>1
      <4>3. x >= Window(s.blk, prev.blk) /\ y >= Window(prev.blk, b)
        BY <3>2, <4>1
      <4> HIDE DEF x, y
      <4>4. x + y >= Window(s.blk, b)
        BY <1>1, <3>1, <4>2, <4>3, WindowTriangle
      <4> QED  BY <4>2, <4>4
    <3> QED  BY <3>3, <3>4
  <2> QED  BY <2>1, <2>2
<1>4. new # None
  BY SMT, <1>1, QuorumAssumption DEF GuardEntry
<1>5. new.blk = b /\ new.time = now
  OBVIOUS
<1> HIDE DEF new
<1>6. Covered(s, new)
  BY <1>1, <1>3, <1>4, <1>5, WindowBounds DEF Covered
<1> QED  BY <1>6 DEF new

(* A new signature is made only with a new decision of the guard. *)
LEMMA FirstSignatureDecides ==
  ASSUME TypeOK, GuardInv, NEW n \in Node, NEW b \in Block, NEW f \in FirstSignatures(n, b)
  PROVE  /\ f.mem \in Signers(n, b) /\ Holder[f.mem] = n
         /\ f.blk = b /\ f.time = now /\ f.epoch = epoch[n]
         /\ Allowed(n, b)
         /\ Cleaned(n)[Parent[b]] = None \/ Cleaned(n)[Parent[b]].blk # b
<1>1. /\ f.blk = b /\ f.time = now /\ f.epoch = epoch[n]
      /\ f.mem \in SignerSet(n, b)
      /\ ~ \E s \in signed : s.mem = f.mem /\ s.blk = b /\ s.epoch = epoch[n]
  BY SMT DEF FirstSignatures
<1>2. Allowed(n, b) /\ f.mem \in Signers(n, b) /\ Holder[f.mem] = n
  BY <1>1 DEF SignerSet, Signers
<1>3. ASSUME Cleaned(n)[Parent[b]] # None, Cleaned(n)[Parent[b]].blk = b
      PROVE  FALSE
  <2>1. Parent[b] \in Parents
    BY QuorumAssumption
  <2>2. guard[n][Parent[b]] # None /\ guard[n][Parent[b]].blk = b
    BY <1>3, <2>1, CleanedKeeps
  <2>3. \E s \in signed : s.mem = f.mem /\ s.blk = b /\ s.epoch = epoch[n]
    BY SMT, <1>2, <2>1, <2>2 DEF GuardInv
  <2> QED  BY <1>1, <2>3
<1> QED  BY <1>1, <1>2, <1>3

(* The guard row of a node that is asked to sign b: what it was after the  *)
(* cleanup, except for a decision for b.                                   *)
LEMMA GuardRow ==
  ASSUME TypeOK, NEW n \in Node, NEW b \in Block, Sign(n, b)
  PROVE  /\ \A k \in Node \ {n} : guard'[k] = guard[k]
         /\ \A p \in Parents :
              \/ guard'[n][p] = guard[n][p]
              \/ guard'[n][p] = Cleaned(n)[p]
              \/ /\ p = Parent[b]
                 /\ Allowed(n, b)
                 /\ Cleaned(n)[p] = None \/ Cleaned(n)[p].blk # b
                 /\ guard'[n][p] = [blk |-> b, time |-> now]
         /\ Signers(n, b) # {} /\ Allowed(n, b)
            /\ (Cleaned(n)[Parent[b]] = None \/ Cleaned(n)[Parent[b]].blk # b)
            => guard'[n][Parent[b]] = [blk |-> b, time |-> now]
<1>1. guard \in [Node -> [Parents -> GuardEntry \cup {None}]] /\ Parent[b] \in Parents
  BY QuorumAssumption DEF TypeOK
<1>2. guard' = [guard EXCEPT ![n] = IF Signers(n, b) = {} THEN guard[n] ELSE GuardAfter(n, b)]
  BY DEF Sign
<1>3. \A k \in Node \ {n} : guard'[k] = guard[k]
  BY <1>1, <1>2
<1>4. guard'[n] = IF Signers(n, b) = {} THEN guard[n] ELSE GuardAfter(n, b)
  BY <1>1, <1>2
<1>5. Cleaned(n) \in [Parents -> GuardEntry \cup {None}]
  BY CleanedKeeps
<1> QED  BY <1>1, <1>3, <1>4, <1>5 DEF GuardAfter

(* Signing keeps every signature of the epoch covered. *)
LEMMA SignCovers ==
  ASSUME TypeOK, GuardInv, SignedInv, NEW n \in Node, NEW b \in Block, Sign(n, b),
         NEW s \in signed, Holder[s.mem] = n, s.epoch = epoch[n]
  PROVE  Covered(s, guard'[n][Parent[s.blk]])
<1> DEFINE p == Parent[s.blk]
<1>1. p \in Parents /\ s.blk \in Block /\ s.mem \in Member
  BY QuorumAssumption DEF TypeOK, Signature
<1>2. Covered(s, Cleaned(n)[p])
  BY CleanedCovers
<1>3. CASE guard'[n][p] = guard[n][p]
  BY <1>3 DEF SignedInv
<1>4. CASE guard'[n][p] = Cleaned(n)[p]
  BY <1>2, <1>4
<1>5. CASE /\ p = Parent[b]
           /\ Allowed(n, b)
           /\ Cleaned(n)[p] = None \/ Cleaned(n)[p].blk # b
           /\ guard'[n][p] = [blk |-> b, time |-> now]
  BY <1>2, <1>5, DecisionCovers
<1>6. \/ guard'[n][p] = guard[n][p]
      \/ guard'[n][p] = Cleaned(n)[p]
      \/ /\ p = Parent[b]
         /\ Allowed(n, b)
         /\ Cleaned(n)[p] = None \/ Cleaned(n)[p].blk # b
         /\ guard'[n][p] = [blk |-> b, time |-> now]
  <2> HIDE DEF p
  <2> QED  BY <1>1, GuardRow
<1> QED  BY <1>3, <1>4, <1>5, <1>6

(* Signing a block keeps the guard invariant. *)
LEMMA SignGuardSafe ==
  ASSUME TypeOK, GuardSafe, NEW n \in Node, NEW b \in Block, Sign(n, b),
         UNCHANGED <<now, epoch>>
  PROVE  GuardSafe'
<1> USE DEF GuardSafe
<1> DEFINE F == FirstSignatures(n, b)
           p == Parent[b]
           new == [blk |-> b, time |-> now]
<1>1. /\ signed' = signed \cup F /\ now' = now /\ epoch' = epoch
      /\ p \in Parents /\ now \in Nat
  BY QuorumAssumption DEF Sign, TypeOK
<1>2. \A f \in F : /\ f.mem \in Signers(n, b) /\ Holder[f.mem] = n
                   /\ f.blk = b /\ f.time = now /\ f.epoch = epoch[n]
                   /\ guard'[n][p] = new
  <2> SUFFICES ASSUME NEW f \in F
               PROVE  /\ f.mem \in Signers(n, b) /\ Holder[f.mem] = n
                      /\ f.blk = b /\ f.time = now /\ f.epoch = epoch[n]
                      /\ guard'[n][p] = new
    OBVIOUS
  <2>1. /\ f.mem \in Signers(n, b) /\ Holder[f.mem] = n
        /\ f.blk = b /\ f.time = now /\ f.epoch = epoch[n]
        /\ Allowed(n, b) /\ (Cleaned(n)[p] = None \/ Cleaned(n)[p].blk # b)
    BY SMT, FirstSignatureDecides
  <2>2. Signers(n, b) # {}
    BY <2>1
  <2>3. guard'[n][p] = new
    BY <2>1, <2>2, GuardRow
  <2> QED  BY <2>1, <2>3
<1>3. new \in GuardEntry /\ new # None /\ new.blk = b /\ new.time = now
  BY SMT, <1>1, QuorumAssumption DEF GuardEntry
<1>4. \A k \in Node \ {n} : guard'[k] = guard[k]
  BY GuardRow
<1> HIDE DEF F, new
<1>5. GuardInv'
  <2> SUFFICES ASSUME NEW k \in Node, NEW q \in Parents, guard'[k][q] # None
               PROVE  /\ Parent[guard'[k][q].blk] = q
                      /\ guard'[k][q].time <= now
                      /\ \A m \in Signers(k, guard'[k][q].blk) :
                           \E s \in signed' : /\ s.mem = m /\ s.blk = guard'[k][q].blk
                                              /\ s.epoch = epoch[k]
    BY SMT, <1>1 DEF GuardInv, Signers
  <2>1. CASE guard'[k][q] = guard[k][q]
    BY SMT, <1>1, <2>1 DEF GuardInv
  <2>2. CASE k = n /\ guard'[n][q] = new /\ q = p /\ Allowed(n, b)
    <3>1. \A m \in Signers(n, b) : \E s \in signed' : s.mem = m /\ s.blk = b /\ s.epoch = epoch[n]
      <4> SUFFICES ASSUME NEW m \in Signers(n, b),
                          ~ \E s \in signed : s.mem = m /\ s.blk = b /\ s.epoch = epoch[n]
                   PROVE  \E s \in F : s.mem = m /\ s.blk = b /\ s.epoch = epoch[n]
        BY <1>1
      <4>1. m \in SignerSet(n, b)
        BY <2>2 DEF SignerSet
      <4>2. [mem |-> m, blk |-> b, time |-> now, epoch |-> epoch[n]] \in F
        BY <4>1 DEF F, FirstSignatures
      <4> QED  BY <4>2
    <3> QED  BY SMT, <1>1, <1>3, <2>2, <3>1
  <2>3. CASE k = n /\ guard'[n][q] = Cleaned(n)[q]
    BY <2>1, <2>3, CleanedKeeps
  <2>4. CASE k # n
    BY <1>4, <2>1, <2>4
  <2>5. CASE k = n
    <3>1. \/ guard'[n][q] = guard[n][q]
          \/ guard'[n][q] = Cleaned(n)[q]
          \/ q = p /\ Allowed(n, b) /\ guard'[n][q] = new
      BY ZenonT(30), GuardRow DEF new
    <3> QED  BY <2>1, <2>2, <2>3, <2>5, <3>1
  <2> QED  BY <2>4, <2>5
<1>6. SignedInv'
  <2> SUFFICES ASSUME NEW s \in signed'
               PROVE  /\ s.time <= now /\ s.epoch <= epoch[Holder[s.mem]]
                      /\ s.epoch = epoch[Holder[s.mem]] =>
                           Covered(s, guard'[Holder[s.mem]][Parent[s.blk]])
    BY <1>1 DEF SignedInv, Covered, Window
  <2>1. CASE s \in F
    <3>1. s.time = now /\ s.epoch = epoch[n] /\ Holder[s.mem] = n /\ s.blk = b /\ epoch[n] \in Nat
      BY <1>2, <2>1 DEF TypeOK
    <3>2. guard'[n][Parent[s.blk]] = new
      BY <1>2, <2>1
    <3>3. Covered(s, new)
      BY SMT, <1>1, <1>3, <3>1 DEF Covered
    <3>4. s.time <= now /\ s.epoch <= epoch[Holder[s.mem]]
      BY SMT, <1>1, <3>1
    <3>5. Covered(s, guard'[Holder[s.mem]][Parent[s.blk]])
      BY <3>1, <3>2, <3>3
    <3> QED  BY <3>4, <3>5
  <2>2. CASE s \in signed
    <3>1. /\ s.time <= now /\ s.epoch <= epoch[Holder[s.mem]]
          /\ s.epoch = epoch[Holder[s.mem]] =>
               Covered(s, guard[Holder[s.mem]][Parent[s.blk]])
          /\ Holder[s.mem] \in Node
      BY <2>2, QuorumAssumption DEF SignedInv, TypeOK, Signature
    <3>2. CASE Holder[s.mem] = n
      BY <2>2, <3>1, <3>2, SignCovers
    <3>3. CASE Holder[s.mem] # n
      BY <1>4, <3>1, <3>3
    <3> QED  BY <3>2, <3>3
  <2> QED  BY <1>1, <2>1, <2>2
<1>7. GuardWindowRespected'
  <2> SUFFICES ASSUME NEW s \in signed', NEW t \in signed',
                      Holder[s.mem] = Holder[t.mem], s.epoch = t.epoch, OnSameParent(s, t)
               PROVE  Apart(s, t)
    BY DEF GuardWindowRespected, Apart, OnSameParent, Window
  <2>1. ASSUME NEW x \in signed, NEW f \in F, Holder[x.mem] = Holder[f.mem],
               x.epoch = f.epoch, OnSameParent(x, f)
        PROVE  /\ Apart(x, f) /\ Apart(f, x)
    <3>1. /\ Holder[x.mem] = n /\ x.epoch = epoch[n] /\ Parent[x.blk] = p
          /\ x.blk # b /\ f.blk = b /\ f.time = now /\ x.blk \in Block
      BY <1>2, <2>1 DEF OnSameParent, TypeOK, Signature
    <3>2. Covered(x, new)
      BY <1>2, <3>1, SignCovers
    <3>3. now - x.time >= Window(x.blk, b)
      BY <1>3, <3>1, <3>2 DEF Covered
    <3> QED  BY <3>1, <3>3, WindowBounds DEF Apart
  <2>2. CASE s \in signed /\ t \in signed
    BY <2>2 DEF GuardWindowRespected
  <2>3. CASE s \in F /\ t \in F
    BY <1>2, <2>3 DEF OnSameParent
  <2>4. CASE s \in signed /\ t \in F
    BY <2>1, <2>4
  <2>5. CASE s \in F /\ t \in signed
    BY <2>1, <2>5 DEF OnSameParent
  <2> QED  BY <1>1, <2>2, <2>3, <2>4, <2>5
<1> QED  BY <1>5, <1>6, <1>7

LEMMA InitGuardSafe == Init => GuardSafe
<1> SUFFICES ASSUME Init PROVE GuardSafe
  OBVIOUS
<1>1. signed = {} /\ guard = [n \in Node |-> [p \in Parents |-> None]]
  BY DEF Init
<1>2. GuardInv
  BY <1>1 DEF GuardInv
<1>3. SignedInv
  BY <1>1 DEF SignedInv
<1>4. GuardWindowRespected
  BY <1>1 DEF GuardWindowRespected
<1> QED  BY <1>2, <1>3, <1>4 DEF GuardSafe

LEMMA NextGuardSafe == TypeOK /\ GuardSafe /\ [Next]_vars => GuardSafe'
<1> SUFFICES ASSUME TypeOK, GuardSafe, [Next]_vars PROVE GuardSafe'
  OBVIOUS
<1>1. ASSUME UNCHANGED <<guard, signed, now, epoch>> PROVE GuardSafe'
  <2>1. GuardInv'
    BY SMT, <1>1 DEF GuardSafe, GuardInv, Signers
  <2>2. SignedInv'
    BY <1>1 DEF GuardSafe, SignedInv, Covered, Window
  <2>3. GuardWindowRespected'
    BY <1>1 DEF GuardSafe, GuardWindowRespected, Apart, OnSameParent, Window
  <2> QED  BY <2>1, <2>2, <2>3 DEF GuardSafe
<1>2. ASSUME NEW b \in Block, Propose(b) PROVE GuardSafe'
  <2>1. Coordinator[b] \in Node /\ Sign(Coordinator[b], b) /\ UNCHANGED <<now, epoch>>
    BY <1>2, QuorumAssumption DEF Propose
  <2> QED  BY <2>1, SignGuardSafe
<1>3. ASSUME NEW m \in net, ProposalNew(m) PROVE GuardSafe'
  <2>1. m.to \in Node /\ m.blk \in Block /\ Sign(m.to, m.blk) /\ UNCHANGED <<now, epoch>>
    BY <1>3 DEF ProposalNew, TypeOK, Message
  <2> QED  BY <2>1, SignGuardSafe
<1>4. ASSUME NEW n \in Node, Restart(n) PROVE GuardSafe'
  <2>1. /\ UNCHANGED <<now, signed>>
        /\ guard' = [guard EXCEPT ![n] = [p \in Parents |-> None]]
        /\ epoch' = [epoch EXCEPT ![n] = epoch[n] + 1]
    BY <1>4 DEF Restart
  <2>2. /\ \A k \in Node \ {n} : guard'[k] = guard[k] /\ epoch'[k] = epoch[k]
        /\ \A p \in Parents : guard'[n][p] = None
        /\ epoch'[n] = epoch[n] + 1
    BY <2>1 DEF TypeOK
  <2>3. GuardInv'
    <3> SUFFICES ASSUME NEW k \in Node, NEW p \in Parents, guard'[k][p] # None
                 PROVE  /\ Parent[guard'[k][p].blk] = p
                        /\ guard'[k][p].time <= now'
                        /\ \A m \in Signers(k, guard'[k][p].blk) :
                             \E s \in signed' : /\ s.mem = m /\ s.blk = guard'[k][p].blk
                                                /\ s.epoch = epoch'[k]
      BY DEF GuardInv, Signers
    <3>1. guard'[k] = guard[k] /\ epoch'[k] = epoch[k]
      BY <2>2
    <3>2. guard[k][p] # None =>
            /\ Parent[guard[k][p].blk] = p
            /\ guard[k][p].time <= now
            /\ \A m \in Signers(k, guard[k][p].blk) :
                 \E s \in signed : s.mem = m /\ s.blk = guard[k][p].blk /\ s.epoch = epoch[k]
      BY DEF GuardSafe, GuardInv
    <3>3. now' = now /\ signed' = signed /\ guard'[k][p] = guard[k][p]
      BY <2>1, <3>1
    <3>4. Parent[guard'[k][p].blk] = p /\ guard'[k][p].time <= now'
      BY <3>2, <3>3
    <3>5. ASSUME NEW m \in Signers(k, guard'[k][p].blk)
          PROVE  \E s \in signed' : /\ s.mem = m /\ s.blk = guard'[k][p].blk
                                    /\ s.epoch = epoch'[k]
      <4>1. m \in Signers(k, guard[k][p].blk)
        BY <3>3
      <4>2. PICK s \in signed : s.mem = m /\ s.blk = guard[k][p].blk /\ s.epoch = epoch[k]
        BY <3>2, <3>3, <4>1
      <4> QED  BY <3>1, <3>3, <4>2
    <3> QED  BY <3>4, <3>5
  <2>4. SignedInv'
    <3> SUFFICES ASSUME NEW s \in signed
                 PROVE  /\ s.time <= now /\ s.epoch <= epoch'[Holder[s.mem]]
                        /\ s.epoch = epoch'[Holder[s.mem]] =>
                             Covered(s, guard'[Holder[s.mem]][Parent[s.blk]])
      BY <2>1 DEF SignedInv, Covered, Window
    <3>1. /\ Holder[s.mem] \in Node /\ s.epoch \in Nat /\ epoch[Holder[s.mem]] \in Nat
      BY QuorumAssumption DEF TypeOK, Signature
    <3> QED  BY SMT, <2>2, <3>1 DEF GuardSafe, SignedInv
  <2>5. GuardWindowRespected'
    BY <2>1 DEF GuardSafe, GuardWindowRespected, Apart, OnSameParent, Window
  <2> QED  BY <2>3, <2>4, <2>5 DEF GuardSafe
<1>5. CASE Tick
  <2>1. now' = now + 1 /\ UNCHANGED <<guard, signed, epoch>> /\ now \in Nat
    BY <1>5 DEF Tick, TypeOK
  <2>2. GuardInv'
    <3> SUFFICES ASSUME NEW n \in Node, NEW p \in Parents, guard[n][p] # None
                 PROVE  /\ Parent[guard[n][p].blk] = p
                        /\ guard[n][p].time <= now'
                        /\ \A m \in Signers(n, guard[n][p].blk) :
                             \E s \in signed : /\ s.mem = m /\ s.blk = guard[n][p].blk
                                               /\ s.epoch = epoch[n]
      BY SMT, <2>1 DEF GuardInv, Signers
    <3>1. guard[n][p].time \in Nat
      BY SMT DEF TypeOK, GuardEntry
    <3>2. /\ Parent[guard[n][p].blk] = p
          /\ guard[n][p].time <= now
          /\ \A m \in Signers(n, guard[n][p].blk) :
               \E s \in signed : s.mem = m /\ s.blk = guard[n][p].blk /\ s.epoch = epoch[n]
      BY DEF GuardSafe, GuardInv
    <3>3. guard[n][p].time <= now
      BY <3>2
    <3>4. guard[n][p].time <= now'
      BY SMT, <2>1, <3>1, <3>3
    <3> QED  BY <3>2, <3>4
  <2>3. SignedInv'
    <3> SUFFICES ASSUME NEW s \in signed
                 PROVE  /\ s.time <= now' /\ s.epoch <= epoch[Holder[s.mem]]
                        /\ s.epoch = epoch[Holder[s.mem]] =>
                             Covered(s, guard[Holder[s.mem]][Parent[s.blk]])'
      BY <2>1 DEF SignedInv
    <3>1. s.time \in Nat
      BY DEF TypeOK, Signature
    <3>2. ASSUME NEW g, Covered(s, g)
          PROVE  IF g = None THEN now' - s.time >= GuardWindow
                 ELSE IF g.blk = s.blk THEN s.time <= g.time
                 ELSE g.time - s.time >= Window(s.blk, g.blk)
      BY SMT, <2>1, <3>1, <3>2, TimeAssumption DEF Covered
    <3> DEFINE g == guard[Holder[s.mem]][Parent[s.blk]]
    <3>3. s.epoch = epoch[Holder[s.mem]] => Covered(s, g)
      BY DEF GuardSafe, SignedInv
    <3>4. Covered(s, g) => Covered(s, g)'
      BY <2>1, <3>2 DEF Covered, Window
    <3>5. s.time <= now' /\ s.epoch <= epoch[Holder[s.mem]]
      <4>1. s.time <= now /\ s.epoch <= epoch[Holder[s.mem]]
        BY DEF GuardSafe, SignedInv
      <4>2. s.time <= now'
        BY SMT, <2>1, <3>1, <4>1
      <4> QED  BY <4>1, <4>2
    <3> QED  BY <3>3, <3>4, <3>5
  <2>4. GuardWindowRespected'
    BY <2>1 DEF GuardSafe, GuardWindowRespected, Apart, OnSameParent, Window
  <2> QED  BY <2>2, <2>3, <2>4 DEF GuardSafe
<1>6. ASSUME NEW b \in Block, Poll(b) \/ Release(b) PROVE GuardSafe'
  BY <1>1, <1>6 DEF Poll, Release
<1>7. ASSUME NEW m \in net, ProposalSeen(m) \/ ProposalUnknownParent(m) \/ ReceiveShare(m) \/ Lose(m)
      PROVE  GuardSafe'
  BY <1>1, <1>7 DEF ProposalSeen, ProposalUnknownParent, ReceiveShare, Lose
<1>8. ASSUME NEW n \in Node, NEW b \in Block, Adopt(n, b) PROVE GuardSafe'
  BY <1>1, <1>8 DEF Adopt
<1>9. CASE UNCHANGED vars
  BY <1>1, <1>9 DEF vars
<1> QED
  BY <1>2, <1>3, <1>4, <1>5, <1>6, <1>7, <1>8, <1>9 DEF Next

(* For every number of nodes, members and blocks and every ordered choice  *)
(* of the windows, AllowQuorumSignature keeps the signatures of a node     *)
(* apart until it restarts.                                                *)
THEOREM GuardWindowsHold == Spec => []GuardWindowRespected
<1>1. Spec => [](TypeOK /\ GuardSafe)
  BY InitType, NextType, InitGuardSafe, NextGuardSafe, PTL DEF Spec
<1>2. TypeOK /\ GuardSafe => GuardWindowRespected
  BY DEF GuardSafe
<1> QED  BY <1>1, <1>2, PTL

-----------------------------------------------------------------------------
(* Certificates of QuorumSigning are sound, and rival ones far apart. *)

(* Signing adds a signature of every member that answers, and caches it. *)
LEMMA SignShares ==
  ASSUME TypeOK, ShareInv, NEW n \in Node, NEW b \in Block, Sign(n, b)
  PROVE  /\ \A m, c : SignedBy(m, c) => SignedBy(m, c)'
         /\ \A m \in SignerSet(n, b) : SignedBy(m, b)'
         /\ \A k \in Node, c \in Block : \A m \in shares'[k][c] : SignedBy(m, c)'
<1>1. signed' = signed \cup FirstSignatures(n, b)
  BY DEF Sign
<1>2. \A m, c : SignedBy(m, c) => SignedBy(m, c)'
  BY <1>1 DEF SignedBy
<1>3. ASSUME NEW m \in SignerSet(n, b) PROVE SignedBy(m, b)'
  <2>1. CASE \E s \in signed : s.mem = m /\ s.blk = b /\ s.epoch = epoch[n]
    BY <1>1, <2>1 DEF SignedBy
  <2>2. CASE ~ \E s \in signed : s.mem = m /\ s.blk = b /\ s.epoch = epoch[n]
    <3> DEFINE f == [mem |-> m, blk |-> b, time |-> now, epoch |-> epoch[n]]
    <3>1. f \in FirstSignatures(n, b)
      BY <2>2 DEF FirstSignatures
    <3>2. f.mem = m /\ f.blk = b
      OBVIOUS
    <3> HIDE DEF f
    <3> QED  BY <1>1, <3>1, <3>2 DEF SignedBy
  <2> QED  BY <2>1, <2>2
<1>4. ASSUME NEW k \in Node, NEW c \in Block, NEW m \in shares'[k][c]
      PROVE  SignedBy(m, c)'
  <2>1. shares[n] \in [Block -> SUBSET Member] /\ SignerSet(n, b) \in SUBSET Member
    BY SignersType DEF TypeOK
  <2>2. shares' = [shares EXCEPT ![n] = CacheShares(shares[n], b, SignerSet(n, b))]
    BY DEF Sign
  <2>3. CASE k = n
    <3>1. shares'[n] = CacheShares(shares[n], b, SignerSet(n, b))
      BY <2>2 DEF TypeOK
    <3>2. m \in shares[n][c] \cup (IF c = b THEN SignerSet(n, b) ELSE {})
      BY <1>4, <2>1, <2>3, <3>1, CacheSharesGrows
    <3> QED  BY <1>2, <1>3, <3>2 DEF ShareInv
  <2>4. CASE k # n
    <3>1. shares'[k] = shares[k]
      BY <2>2, <2>4 DEF TypeOK
    <3> QED  BY <1>2, <1>4, <3>1 DEF ShareInv
  <2> QED  BY <2>3, <2>4
<1> QED  BY <1>2, <1>3, <1>4

LEMMA InitShareSafe == Init => ShareSafe
<1> SUFFICES ASSUME Init PROVE ShareSafe
  OBVIOUS
<1>1. CertificateSound
  BY DEF Init, CertificateSound
<1>2. \A n \in Node, b \in Block : \A m \in shares[n][b] : SignedBy(m, b)
  BY DEF Init
<1>3. \A m \in net : m.kind = "QUORUMSIGSHARE" => SignedBy(m.mem, m.blk)
  BY DEF Init
<1>4. \A b \in Block : collected[b] = {} /\ phase[b] # "assembled"
  BY DEF Init
<1> QED  BY <1>1, <1>2, <1>3, <1>4 DEF ShareSafe, ShareInv

(* What a node sends is of the right kind, or was signed. *)
LEMMA MessagesSigned ==
  /\ \A b, n, to : \A m \in Proposals(b, n, to) : m.kind # "QUORUMSIGSHARE"
  /\ \A b, ms, n, to : \A m \in Shares(b, ms, n, to) : m.blk = b /\ m.mem \in ms
BY SMT DEF Proposals, Shares

(* Every invariant that speaks of shares survives a step that makes no     *)
(* certificate, collects what was signed and sends what was signed.        *)
LEMMA ShareStep ==
  ASSUME TypeOK, ShareSafe,
         UNCHANGED cert,
         \A m, c : SignedBy(m, c) => SignedBy(m, c)',
         \A k \in Node, c \in Block : \A m \in shares'[k][c] : SignedBy(m, c)',
         \A m \in net' \ net : m.kind = "QUORUMSIGSHARE" => SignedBy(m.mem, m.blk)',
         \A b \in Block :
           \/ collected'[b] = collected[b] /\ (phase'[b] = phase[b] \/ phase'[b] # "assembled")
           \/ /\ collected'[b] \subseteq Quorum[Parent[b]]
              /\ \A m \in collected'[b] : SignedBy(m, b)'
              /\ phase'[b] = "assembled" => Enough(b, collected'[b])
  PROVE  ShareSafe'
<1>1. CertificateSound'
  BY DEF ShareSafe, CertificateSound, Verify, Threshold
<1>2. \A m \in net' : m.kind = "QUORUMSIGSHARE" => SignedBy(m.mem, m.blk)'
  BY DEF ShareSafe, ShareInv
<1>3. \A b \in Block : /\ collected'[b] \subseteq Quorum[Parent[b]]
                       /\ \A m \in collected'[b] : SignedBy(m, b)'
                       /\ phase'[b] = "assembled" => Enough(b, collected'[b])
  BY DEF ShareSafe, ShareInv
<1>4. \A b \in Block : phase'[b] = "assembled" => Enough(b, collected[b])'
  BY <1>3 DEF Enough, Threshold
<1> QED  BY <1>1, <1>2, <1>3, <1>4 DEF ShareSafe, ShareInv

LEMMA NextShareSafe == TypeOK /\ ShareSafe /\ [Next]_vars => ShareSafe'
<1> SUFFICES ASSUME TypeOK, ShareSafe, [Next]_vars PROVE ShareSafe'
  OBVIOUS
<1>1. ASSUME UNCHANGED signed PROVE \A m, c : SignedBy(m, c) => SignedBy(m, c)'
  BY <1>1 DEF SignedBy
<1>2. ASSUME UNCHANGED <<signed, shares>>
      PROVE  \A k \in Node, c \in Block : \A m \in shares'[k][c] : SignedBy(m, c)'
  BY <1>1, <1>2 DEF ShareSafe, ShareInv
<1>3. ASSUME NEW b \in Block, Propose(b) PROVE ShareSafe'
  <2> DEFINE n == Coordinator[b]
  <2>1. n \in Node /\ Sign(n, b)
    BY <1>3, QuorumAssumption DEF Propose
  <2>2. \A m \in net' \ net : m.kind = "QUORUMSIGSHARE" => SignedBy(m.mem, m.blk)'
    BY <1>3, MessagesSigned DEF Propose
  <2>3. /\ collected' = [collected EXCEPT ![b] = SignerSet(n, b)]
        /\ phase' = [phase EXCEPT ![b] = IF Enough(b, SignerSet(n, b))
                                         THEN "assembled" ELSE "polling"]
    BY <1>3 DEF Propose
  <2>4. \A c \in Block \ {b} : collected'[c] = collected[c] /\ phase'[c] = phase[c]
    BY <2>3 DEF TypeOK
  <2>5. /\ collected'[b] = SignerSet(n, b)
        /\ phase'[b] = "assembled" => Enough(b, SignerSet(n, b))
    BY <2>3 DEF TypeOK
  <2>6. UNCHANGED cert
    BY <1>3 DEF Propose
  <2> QED  BY SMT, <2>1, <2>2, <2>4, <2>5, <2>6, SignShares, SignersType, ShareStep DEF ShareSafe
<1>4. ASSUME NEW b \in Block, Poll(b) PROVE ShareSafe'
  <2> DEFINE n == Coordinator[b]
             sigs == collected[b] \cup (shares[n][b] \cap Quorum[Parent[b]])
  <2>1. UNCHANGED <<cert, signed, shares>>
    BY <1>4 DEF Poll
  <2>2. \A m \in net' \ net : m.kind = "QUORUMSIGSHARE" => SignedBy(m.mem, m.blk)'
    <3>1. UNCHANGED net \/ net' = net \cup Proposals(b, n, Peers[n])
      BY <1>4 DEF Poll, Fail
    <3> QED  BY <3>1, MessagesSigned
  <2>3. sigs \subseteq Quorum[Parent[b]] /\ \A m \in sigs : SignedBy(m, b)'
    <3>1. n \in Node
      BY QuorumAssumption
    <3> QED  BY <1>1, <2>1, <3>1 DEF ShareSafe, ShareInv
  <2>4. \/ phase' = [phase EXCEPT ![b] = "failed"] /\ UNCHANGED collected
        \/ /\ phase' = [phase EXCEPT ![b] = "assembled"]
           /\ collected' = [collected EXCEPT ![b] = sigs]
           /\ Enough(b, sigs)
        \/ /\ UNCHANGED phase
           /\ phase[b] = "polling"
           /\ collected' = [collected EXCEPT ![b] = sigs]
    BY <1>4 DEF Poll, Fail
  <2> HIDE DEF sigs
  <2>5. \A c \in Block \ {b} : collected'[c] = collected[c] /\ phase'[c] = phase[c]
    BY <2>4 DEF TypeOK
  <2>6. \/ collected'[b] = collected[b] /\ phase'[b] # "assembled"
        \/ collected'[b] = sigs /\ (phase'[b] = "assembled" => Enough(b, sigs))
    BY <2>4 DEF TypeOK
  <2>7. \A c \in Block :
          \/ collected'[c] = collected[c] /\ (phase'[c] = phase[c] \/ phase'[c] # "assembled")
          \/ /\ collected'[c] \subseteq Quorum[Parent[c]]
             /\ \A m \in collected'[c] : SignedBy(m, c)'
             /\ phase'[c] = "assembled" => Enough(c, collected'[c])
    BY <2>3, <2>5, <2>6
  <2> QED  BY <1>1, <1>2, <2>1, <2>2, <2>7, ShareStep
<1>5. ASSUME NEW b \in Block, Release(b) PROVE ShareSafe'
  <2>1. UNCHANGED <<signed, shares, net, collected>>
    BY <1>5 DEF Release
  <2>2. \A c \in Block : phase'[c] = phase[c] \/ phase'[c] # "assembled"
    BY <1>5 DEF Release, TypeOK
  <2>3. ShareInv'
    BY SMT, <2>1, <2>2 DEF ShareSafe, ShareInv, SignedBy, Enough, Threshold
  <2>4. \A c \in Block : cert'[c] = cert[c] \/ (c = b /\ cert'[b] = collected[b])
    BY <1>5 DEF Release, TypeOK
  <2>5. /\ collected[b] \subseteq Quorum[Parent[b]]
        /\ \A m \in collected[b] : SignedBy(m, b)
        /\ Enough(b, collected[b])
    BY <1>5 DEF Release, ShareSafe, ShareInv
  <2>6. ASSUME NEW c \in Block, cert'[c] # {}
        PROVE  Verify(c, cert'[c]) /\ \A m \in cert'[c] : SignedBy(m, c)
    BY SMT, <2>4, <2>5, <2>6 DEF ShareSafe, CertificateSound, Verify, Enough
  <2>7. CertificateSound'
    BY <2>1, <2>6 DEF CertificateSound, SignedBy, Verify, Threshold
  <2> QED  BY <2>3, <2>7 DEF ShareSafe
<1>6. ASSUME NEW m \in net, ProposalSeen(m) PROVE ShareSafe'
  <2>1. UNCHANGED <<cert, signed, shares, collected, phase>>
    BY <1>6 DEF ProposalSeen, job
  <2>2. m.to \in Node /\ m.blk \in Block
    BY DEF TypeOK, Message
  <2>3. net' = (net \ {m}) \cup Shares(m.blk, shares[m.to][m.blk], m.to, {m.from})
    BY <1>6 DEF ProposalSeen
  <2>4. \A k \in net' \ net : k.kind = "QUORUMSIGSHARE" => SignedBy(k.mem, k.blk)'
    <3> SUFFICES ASSUME NEW k \in Shares(m.blk, shares[m.to][m.blk], m.to, {m.from})
                 PROVE  SignedBy(k.mem, k.blk)'
      BY <2>3
    <3>1. k.blk = m.blk /\ k.mem \in shares[m.to][m.blk]
      BY MessagesSigned
    <3> QED  BY <1>1, <2>1, <2>2, <3>1 DEF ShareSafe, ShareInv
  <2> QED  BY <1>1, <1>2, <2>1, <2>4, ShareStep
<1>7. ASSUME NEW m \in net, ProposalNew(m) PROVE ShareSafe'
  <2>1. UNCHANGED <<cert, collected, phase>>
    BY <1>7 DEF ProposalNew, job
  <2>2. m.to \in Node /\ m.blk \in Block /\ Sign(m.to, m.blk)
    BY <1>7 DEF TypeOK, Message, ProposalNew
  <2>3. net' = (net \ {m}) \cup Proposals(m.blk, m.to, Peers[m.to] \ {m.from})
                           \cup Shares(m.blk, SignerSet(m.to, m.blk), m.to, Peers[m.to])
    BY <1>7 DEF ProposalNew
  <2>4. ASSUME NEW k \in net' \ net, k.kind = "QUORUMSIGSHARE" PROVE SignedBy(k.mem, k.blk)'
    <3>1. k \in Shares(m.blk, SignerSet(m.to, m.blk), m.to, Peers[m.to])
      BY <2>3, <2>4, MessagesSigned
    <3>2. k.blk = m.blk /\ k.mem \in SignerSet(m.to, m.blk)
      BY <3>1, MessagesSigned
    <3> QED  BY <2>2, <3>2, SignShares DEF ShareSafe
  <2> QED  BY <2>1, <2>2, <2>4, SignShares, ShareStep DEF ShareSafe
<1>8. ASSUME NEW m \in net, ReceiveShare(m) PROVE ShareSafe'
  <2>1. UNCHANGED <<cert, signed, collected, phase>> /\ m.kind = "QUORUMSIGSHARE"
    BY <1>8 DEF ReceiveShare, job
  <2>2. m.to \in Node /\ m.blk \in Block /\ m.mem \in Member
    BY <2>1 DEF TypeOK, Message
  <2>3. SignedBy(m.mem, m.blk)
    BY <2>1 DEF ShareSafe, ShareInv
  <2>4. \A k \in net' \ net : k.kind = "QUORUMSIGSHARE" => SignedBy(k.mem, k.blk)'
    <3>1. net' \subseteq net \cup Shares(m.blk, {m.mem}, m.to, Peers[m.to] \ {m.from})
      BY <1>8 DEF ReceiveShare
    <3> QED  BY SMT, <1>1, <2>1, <2>3, <3>1, MessagesSigned
  <2>5. ASSUME NEW k \in Node, NEW c \in Block, NEW x \in shares'[k][c] PROVE SignedBy(x, c)'
    <3> DEFINE ms == {m.mem}
    <3>1. \/ UNCHANGED shares
          \/ shares' = [shares EXCEPT ![m.to] = CacheShares(shares[m.to], m.blk, ms)]
      BY <1>8 DEF ReceiveShare
    <3>2. shares[m.to] \in [Block -> SUBSET Member] /\ ms \in SUBSET Member
      BY <2>2 DEF TypeOK
    <3>3. x \in ms => x = m.mem
      OBVIOUS
    <3> HIDE DEF ms
    <3>4. CASE shares'[k] = shares[k]
      BY <1>1, <2>1, <2>5, <3>4 DEF ShareSafe, ShareInv
    <3>5. CASE k = m.to /\ shares'[k] = CacheShares(shares[m.to], m.blk, ms)
      <4>1. x \in shares[m.to][c] \cup (IF c = m.blk THEN ms ELSE {})
        BY <2>2, <2>5, <3>2, <3>5, CacheSharesGrows
      <4> QED  BY <1>1, <2>1, <2>2, <2>3, <3>3, <4>1 DEF ShareSafe, ShareInv
    <3> QED  BY <3>1, <3>4, <3>5 DEF TypeOK
  <2> QED  BY <1>1, <2>1, <2>4, <2>5, ShareStep
<1>9. ASSUME NEW m \in net, ProposalUnknownParent(m) \/ Lose(m) PROVE ShareSafe'
  <2>1. UNCHANGED <<cert, signed, shares, collected, phase>> /\ net' \subseteq net
    BY <1>9 DEF ProposalUnknownParent, Lose, job
  <2> QED  BY <1>1, <1>2, <2>1, ShareStep
<1>10. ASSUME NEW n \in Node, Restart(n) PROVE ShareSafe'
  <2>1. UNCHANGED <<cert, signed, collected>> /\ net' \subseteq net
    BY <1>10 DEF Restart
  <2>2. \A b \in Block : phase'[b] = phase[b] \/ phase'[b] # "assembled"
    BY <1>10 DEF Restart, TypeOK
  <2>3. \A k \in Node, c \in Block : shares'[k][c] \subseteq shares[k][c]
    BY <1>10 DEF Restart, TypeOK
  <2>4. \A k \in Node, c \in Block : \A m \in shares'[k][c] : SignedBy(m, c)'
    BY <1>1, <2>1, <2>3 DEF ShareSafe, ShareInv
  <2> QED  BY <1>1, <2>1, <2>2, <2>4, ShareStep
<1>11. ASSUME NEW n \in Node, NEW b \in Block, Adopt(n, b) PROVE ShareSafe'
  <2>1. UNCHANGED <<cert, signed, collected, phase, net>>
    BY <1>11 DEF Adopt, job
  <2>2. \/ UNCHANGED shares
        \/ \E full \in BOOLEAN :
             shares' = [shares EXCEPT ![n] = Pruned(shares[n], index[n], Height[b], full)]
    BY <1>11 DEF Adopt
  <2>3. shares \in [Node -> [Block -> SUBSET Member]] /\ shares[n] \in [Block -> SUBSET Member]
    BY DEF TypeOK
  <2>4. \A k \in Node, c \in Block : shares'[k][c] \subseteq shares[k][c]
    <3>1. ASSUME NEW full \in BOOLEAN, NEW c \in Block
          PROVE  Pruned(shares[n], index[n], Height[b], full)[c] \subseteq shares[n][c]
      BY <2>3, PrunedShrinks
    <3> QED  BY <2>2, <2>3, <3>1
  <2>5. \A k \in Node, c \in Block : \A m \in shares'[k][c] : SignedBy(m, c)'
    BY <1>1, <2>1, <2>4 DEF ShareSafe, ShareInv
  <2> QED  BY <1>1, <2>1, <2>5, ShareStep
<1>12. CASE Tick \/ UNCHANGED vars
  BY <1>1, <1>2, <1>12, ShareStep DEF Tick, vars, job
<1> QED
  BY <1>3, <1>4, <1>5, <1>6, <1>7, <1>8, <1>9, <1>10, <1>11, <1>12 DEF Next

(* Whatever the quorums, the topology, losses and restarts: a certificate  *)
(* that CreateNewBlock attaches verifies, and its members signed.          *)
THEOREM CertificatesSound == Spec => []CertificateSound
<1>1. Spec => [](TypeOK /\ ShareSafe)
  BY InitType, NextType, InitShareSafe, NextShareSafe, PTL DEF Spec
<1>2. TypeOK /\ ShareSafe => CertificateSound
  BY DEF ShareSafe
<1> QED  BY <1>1, <1>2, PTL

(* Two certificates over the same quorum share a member: the threshold of  *)
(* CQuorumSignature::Verify is a majority for every quorum size.           *)
LEMMA CertificatesIntersect ==
  ASSUME NEW a \in Block, NEW b \in Block, Parent[a] = Parent[b],
         NEW S, NEW T, Verify(a, S), Verify(b, T)
  PROVE  S \cap T # {}
<1> DEFINE Q == Quorum[Parent[a]]
           n == Cardinality(Q)
           k == Threshold(Parent[a])
<1>1. S \subseteq Q /\ T \subseteq Q /\ S # {} /\ T # {}
      /\ Cardinality(S) >= k /\ Cardinality(T) >= k
  BY DEF Verify
<1>2. Q \subseteq Member /\ IsFiniteSet(Member)
  BY QuorumAssumption
<1>3. IsFiniteSet(Q) /\ IsFiniteSet(S) /\ IsFiniteSet(T)
  BY <1>1, <1>2, FS_Subset
<1>4. n \in Nat /\ Cardinality(S) \in Nat /\ Cardinality(T) \in Nat
  BY <1>3, FS_CardinalityType
<1>5. n # 0
  BY <1>1, <1>3, FS_EmptySet
<1>6. k + k > n
  <2>1. k = LET majority == n \div 2 + 1
                atLeastTwo == IF majority < 2 THEN 2 ELSE majority
            IN  IF n < atLeastTwo THEN n ELSE atLeastTwo
    BY DEF Threshold
  <2> HIDE DEF n, k
  <2> QED  BY SMT, <1>4, <1>5, <2>1
<1>7. k \in Nat
  <2> HIDE DEF n
  <2> QED  BY SMT, <1>4 DEF Threshold, n
<1>8. Cardinality(S) + Cardinality(T) > Cardinality(Q)
  <2> HIDE DEF k
  <2> QED  BY SMT, <1>1, <1>4, <1>6, <1>7
<1> QED  BY <1>1, <1>3, <1>8, FS_MajoritiesIntersect

(* Two competing blocks are both certified only by way of a member that    *)
(* signed both, a guard window apart or across a restart of its node.      *)
THEOREM CompetingCertificates == Spec => []CompetingCertificatesApart
<1>1. Spec => [](TypeOK /\ GuardSafe /\ ShareSafe)
  BY InitType, NextType, InitGuardSafe, NextGuardSafe, InitShareSafe, NextShareSafe, PTL DEF Spec
<1>2. TypeOK /\ GuardSafe /\ ShareSafe => CompetingCertificatesApart
  <2> SUFFICES ASSUME TypeOK, GuardSafe, ShareSafe,
                      NEW a \in Block, NEW b \in Block, a # b, Parent[a] = Parent[b],
                      cert[a] # {}, cert[b] # {}
               PROVE  \E s, t \in signed : /\ s.mem = t.mem /\ s.blk = a /\ t.blk = b
                                           /\ s.epoch # t.epoch \/ Apart(s, t)
    BY SMT DEF CompetingCertificatesApart
  <2>1. Verify(a, cert[a]) /\ Verify(b, cert[b])
    BY DEF ShareSafe, CertificateSound
  <2>2. PICK m \in cert[a] : m \in cert[b]
    BY <2>1, CertificatesIntersect
  <2>3. SignedBy(m, a) /\ SignedBy(m, b)
    BY <2>2 DEF ShareSafe, CertificateSound
  <2>4. PICK s \in signed : s.mem = m /\ s.blk = a
    BY <2>3 DEF SignedBy
  <2>5. PICK t \in signed : t.mem = m /\ t.blk = b
    BY <2>3 DEF SignedBy
  <2>6. s.epoch # t.epoch \/ Apart(s, t)
    BY <2>4, <2>5 DEF GuardSafe, GuardWindowRespected, OnSameParent
  <2> QED  BY <2>4, <2>5, <2>6
<1> QED  BY <1>1, <1>2, PTL
=============================================================================
