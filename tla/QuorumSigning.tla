--------------------------- MODULE QuorumSigning ---------------------------
(***************************************************************************)
(* Collection of an LLMQ quorum certificate for a proposed block ("Model   *)
(* D").  A coordinator node builds a block, signs it with the quorum keys  *)
(* it holds, broadcasts PROPOSEBLOCK, and polls its share cache until a    *)
(* majority of the quorum has signed (CreateNewBlock, miner.cpp).  Every   *)
(* node that receives the proposal relays it and, if it holds quorum keys  *)
(* and its anti-equivocation guard allows it, answers with QUORUMSIGSHARE  *)
(* messages (ProcessMessage, main.cpp; AllowQuorumSignature, llmq.cpp).    *)
(*                                                                         *)
(* Signatures are unforgeable: a share exists only if its member signed.   *)
(* Blocks are those that pass the validity checks of the PROPOSEBLOCK      *)
(* handler; a block that fails them changes no state modelled here.        *)
(***************************************************************************)
EXTENDS Integers, FiniteSets

CONSTANTS
  Node,             \* full nodes
  Peers,            \* Peers[n]: the nodes n is connected to
  Member,           \* masternodes that can be elected into a quorum
  Holder,           \* Holder[m]: the node that holds the private key of m
  Block,            \* blocks that may be proposed
  Genesis,          \* the block every node starts from
  Coordinator,      \* Coordinator[b]: the node whose coordinator key signed b
  Parent,           \* Parent[b]: hashPrevBlock
  Hash,             \* Hash[b]: the block hash as a number
  Height,           \* Height[p]: nHeight
  Quorum,           \* Quorum[p]: members of GetActiveQuorum on top of p
  None              \* no entry

CONSTANTS
  SameWindow,       \* 12 s: re-proposal by the same coordinator
  GuardWindow,      \* 30 s: QUORUM_EQUIVOCATION_GUARD_SECS
  StaleAge,         \* 3600 s: age at which a guard entry may be dropped
  ProposalWindow,   \* 15 s: ActiveProposalGuard
  RebroadcastAt,    \* poll iteration of the second PROPOSEBLOCK broadcast
  PollLimit,        \* nMaxWaitCount
  GuardLimit,       \* 1000: size of mapSignedProposalByPrev that triggers cleanup
  CacheLimit,       \* 1000: bound of setSeenProposedBlocks and mapQuorumBlockSigs
  PruneAt,          \* 50: cached blocks above which ConnectTip prunes
  KeepHeights,      \* 50: depth below a new tip at which cached shares go
  KeepItems         \* 500: cached blocks that survive pruning

CONSTANTS
  MaxTime, MaxRestarts, MaxLoss      \* bounds of the explored behaviours

Parents == Block \cup {Genesis}
GuardEntry == [blk : Block, time : Nat]       \* SignedProposal

ASSUME QuorumAssumption ==
  /\ IsFiniteSet(Member) /\ IsFiniteSet(Block)
  /\ Genesis \notin Block /\ None \notin Parents /\ None \notin GuardEntry
  /\ Peers \in [Node -> SUBSET Node]
  /\ Holder \in [Member -> Node]
  /\ Coordinator \in [Block -> Node]
  /\ Parent \in [Block -> Parents]
  /\ Hash \in [Block -> Nat]
  /\ \A a, b \in Block : Hash[a] = Hash[b] => a = b
  /\ Height \in [Parents -> Nat]
  /\ \A b \in Block : Height[b] = Height[Parent[b]] + 1
  /\ Quorum \in [Parents -> SUBSET Member]

ASSUME TimeAssumption ==
  /\ SameWindow \in Nat /\ GuardWindow \in Nat /\ StaleAge \in Nat
  /\ ProposalWindow \in Nat /\ RebroadcastAt \in Nat /\ PollLimit \in Nat
  /\ GuardLimit \in Nat /\ CacheLimit \in Nat \ {0}
  /\ PruneAt \in Nat /\ KeepHeights \in Nat /\ KeepItems \in Nat
  /\ MaxTime \in Nat /\ MaxRestarts \in Nat /\ MaxLoss \in Nat
  /\ SameWindow <= GuardWindow /\ GuardWindow <= StaleAge

VARIABLES
  now,        \* GetTime(), common to all nodes
  tip,        \* chainActive.Tip() of each node
  index,      \* blocks in mapBlockIndex of each node
  seen,       \* setSeenProposedBlocks of each node
  shares,     \* mapQuorumBlockSigs: block -> members whose share is cached
  guard,      \* mapSignedProposalByPrev: parent -> [blk, time] or None
  active,     \* ActiveProposalGuard: parent and start time of the live proposal
  phase,      \* progress of the CreateNewBlock call that builds each block
  collected,  \* its qsig.signatures
  due,        \* when its next poll iteration may run
  wait,       \* its nWaitCount
  cert,       \* blocks released with vQuorumSig: block -> signers
  net,        \* messages in flight
  epoch,      \* number of restarts of each node
  lost,       \* number of messages lost
  signed      \* every signature made: member, block, time, epoch

job == <<phase, collected, due, wait>>

vars == <<now, tip, index, seen, shares, guard, active, job, cert, net, epoch,
          lost, signed>>

-----------------------------------------------------------------------------
(* Data *)

Proposals(b, n, to) == {[kind |-> "PROPOSEBLOCK", blk |-> b, mem |-> None,
                         from |-> n, to |-> p] : p \in to}
Shares(b, ms, n, to) == {[kind |-> "QUORUMSIGSHARE", blk |-> b, mem |-> m,
                          from |-> n, to |-> p] : m \in ms, p \in to}
Message == [kind : {"PROPOSEBLOCK"}, blk : Block, mem : {None}, from : Node, to : Node]
             \cup [kind : {"QUORUMSIGSHARE"}, blk : Block, mem : Member, from : Node, to : Node]

Signature == [mem : Member, blk : Block, time : Nat, epoch : Nat]
Phase == {"new", "polling", "assembled", "released", "failed"}

(* A threshold that is half of the quorum, and never raised to two. *)
ThresholdHalf(p) == Cardinality(Quorum[p]) \div 2

(* CQuorumSignature::Verify and CreateNewBlock compute the same threshold. *)
Threshold(p) ==
  LET n == Cardinality(Quorum[p])
      majority == n \div 2 + 1
      atLeastTwo == IF majority < 2 THEN 2 ELSE majority
  IN  IF n < atLeastTwo THEN n ELSE atLeastTwo

(* CQuorumSignature::Verify: distinct members of the quorum, enough of them. *)
Verify(b, sigs) ==
  /\ sigs # {}
  /\ sigs \subseteq Quorum[Parent[b]]
  /\ Cardinality(sigs) >= Threshold(Parent[b])

(* One signature too few. *)
EnoughButOne(b, sigs) == Cardinality(sigs) + 1 >= Threshold(Parent[b])

(* CreateNewBlock counts what it has collected for b. *)
Enough(b, sigs) == Cardinality(sigs) >= Threshold(Parent[b])

(* Members of the quorum on top of b's parent whose key node n holds. *)
Signers(n, b) == {m \in Quorum[Parent[b]] : Holder[m] = n}

(* CBlockIndexWorkComparator: more work first, then the lower hash. *)
BetterTip(b, t) ==
  \/ Height[b] > Height[t]
  \/ Height[b] = Height[t] /\ t # Genesis /\ Hash[b] < Hash[t]

Lowest(S) == CHOOSE b \in S : \A c \in S : Hash[b] <= Hash[c]

(* setSeenProposedBlocks.insert(b), then eviction of the lowest other hash. *)
MarkSeen(S, b) ==
  LET T == S \cup {b} IN
  IF Cardinality(T) > CacheLimit THEN T \ {Lowest(T \ {b})} ELSE T

(* mapQuorumBlockSigs[b] gains ms; the lowest hash makes room for a new b. *)
CacheShares(C, b, ms) ==
  LET used == {c \in Block : C[c] # {}}
      D == IF ms # {} /\ Cardinality(used) > CacheLimit /\ b \notin used
           THEN [C EXCEPT ![Lowest(used)] = {}] ELSE C
  IN  [D EXCEPT ![b] = @ \cup ms]

(* ConnectTip prunes mapQuorumBlockSigs on a new tip of height h: blocks    *)
(* far below it go, then the lowest hashes.  It also does so when the ADAM *)
(* solutions cache is the one that has grown (full).                       *)
Pruned(C, known, h, full) ==
  LET used == {b \in Block : C[b] # {}}
      recent == {b \in used : b \in known => Height[b] >= h - KeepHeights}
      kept == {b \in recent : Cardinality({c \in recent : Hash[c] > Hash[b]}) < KeepItems}
  IN  IF full \/ Cardinality(used) > PruneAt
      THEN [b \in Block |-> IF b \in kept THEN C[b] ELSE {}] ELSE C

-----------------------------------------------------------------------------
(* AllowQuorumSignature: the guard of node n, at time now, for block b.  *)

(* A cleanup that does not look at the age of an entry. *)
CleanedAll(n) ==
  [p \in Parents |->
    IF Cardinality({q \in Parents : guard[n][q] # None}) > GuardLimit
    THEN None ELSE guard[n][p]]

(* The cleanup at its head: stale entries go once the map is too large. *)
Cleaned(n) ==
  [p \in Parents |->
    IF /\ Cardinality({q \in Parents : guard[n][q] # None}) > GuardLimit
       /\ guard[n][p] # None
       /\ now - guard[n][p].time > StaleAge
    THEN None ELSE guard[n][p]]

(* A window that does not tell competing coordinators from the same one. *)
AllowedShortWindow(n, b) ==
  LET prev == Cleaned(n)[Parent[b]] IN
  prev = None \/ prev.blk = b \/ now - prev.time >= SameWindow

Allowed(n, b) ==
  LET prev == Cleaned(n)[Parent[b]] IN
  \/ prev = None
  \/ prev.blk = b
  \/ now - prev.time >= IF Coordinator[prev.blk] = Coordinator[b]
                        THEN SameWindow ELSE GuardWindow

(* The map after the call: a new decision is recorded, a repeated one kept. *)
GuardAfter(n, b) ==
  LET prev == Cleaned(n)[Parent[b]] IN
  IF Allowed(n, b) /\ (prev = None \/ prev.blk # b)
  THEN [Cleaned(n) EXCEPT ![Parent[b]] = [blk |-> b, time |-> now]]
  ELSE Cleaned(n)

(* Node n consults its guard for b and signs with every key it holds; a   *)
(* node with no key in the quorum does not consult it.  A signature made   *)
(* again is the same signature: only its first time is kept.               *)
SignerSet(n, b) == IF Allowed(n, b) THEN Signers(n, b) ELSE {}
FirstSignatures(n, b) ==
  {[mem |-> m, blk |-> b, time |-> now, epoch |-> epoch[n]] :
     m \in {k \in SignerSet(n, b) :
              ~ \E s \in signed : s.mem = k /\ s.blk = b /\ s.epoch = epoch[n]}}
Sign(n, b) ==
  /\ guard' = [guard EXCEPT ![n] = IF Signers(n, b) = {} THEN @ ELSE GuardAfter(n, b)]
  /\ signed' = signed \cup FirstSignatures(n, b)
  /\ shares' = [shares EXCEPT ![n] = CacheShares(@, b, SignerSet(n, b))]

-----------------------------------------------------------------------------
(* The coordinator: CreateNewBlock *)

Init ==
  /\ now = 0
  /\ tip = [n \in Node |-> Genesis]
  /\ index = [n \in Node |-> {Genesis}]
  /\ seen = [n \in Node |-> {}]
  /\ shares = [n \in Node |-> [b \in Block |-> {}]]
  /\ guard = [n \in Node |-> [p \in Parents |-> None]]
  /\ active = [n \in Node |-> None]
  /\ phase = [b \in Block |-> "new"]
  /\ collected = [b \in Block |-> {}]
  /\ due = [b \in Block |-> 0]
  /\ wait = [b \in Block |-> 0]
  /\ cert = [b \in Block |-> {}]
  /\ net = {}
  /\ epoch = [n \in Node |-> 0]
  /\ lost = 0
  /\ signed = {}

(* ActiveProposalGuard lets a proposal start unless one on the same parent *)
(* started less than ProposalWindow ago.                                   *)
MayPropose(n, p) ==
  ~ /\ active[n] # None
    /\ active[n].parent = p
    /\ now - active[n].start < ProposalWindow

(* The coordinator of b builds it on its tip, signs locally, and either    *)
(* has enough signatures at once or broadcasts the proposal and polls.     *)
Propose(b) ==
  LET n == Coordinator[b]
      sigs == SignerSet(n, b)
      done == Enough(b, sigs)
  IN
  /\ phase[b] = "new"
  /\ tip[n] = Parent[b]
  /\ MayPropose(n, Parent[b])
  /\ active' = [active EXCEPT ![n] = [parent |-> Parent[b], start |-> now]]
  /\ Sign(n, b)
  /\ phase' = [phase EXCEPT ![b] = IF done THEN "assembled" ELSE "polling"]
  /\ collected' = [collected EXCEPT ![b] = sigs]
  /\ due' = [due EXCEPT ![b] = now]
  /\ net' = IF done THEN net ELSE net \cup Proposals(b, n, Peers[n])
  /\ UNCHANGED <<now, tip, index, seen, cert, epoch, lost, wait>>

(* The destructor of ActiveProposalGuard after a failed proposal. *)
Fail(b) ==
  /\ phase' = [phase EXCEPT ![b] = "failed"]
  /\ active' = [active EXCEPT ![Coordinator[b]] = None]
  /\ UNCHANGED <<net, collected, due, wait>>

(* One iteration of the polling loop.  It ends with a sleep: the next one  *)
(* is due a time unit later, and may run late.                             *)
Poll(b) ==
  LET n == Coordinator[b]
      p == Parent[b]
      sigs == collected[b] \cup (shares[n][b] \cap Quorum[p])
      last == wait[b] + 1 >= PollLimit
  IN
  /\ phase[b] = "polling"
  /\ now >= due[b]
  /\ \/ /\ tip[n] # p
        /\ Fail(b)
     \/ /\ tip[n] = p
        /\ Enough(b, sigs)
        /\ phase' = [phase EXCEPT ![b] = "assembled"]
        /\ collected' = [collected EXCEPT ![b] = sigs]
        /\ UNCHANGED <<active, net, due, wait>>
     \/ /\ tip[n] = p
        /\ ~ Enough(b, sigs)
        /\ IF last THEN Fail(b)
           ELSE /\ collected' = [collected EXCEPT ![b] = sigs]
                /\ wait' = [wait EXCEPT ![b] = @ + 1]
                /\ due' = [due EXCEPT ![b] = now + 1]
                /\ net' = IF wait[b] = RebroadcastAt
                          THEN net \cup Proposals(b, n, Peers[n]) ELSE net
                /\ UNCHANGED <<active, phase>>
  /\ UNCHANGED <<now, tip, index, seen, shares, guard, cert, epoch, lost, signed>>

(* The tip is read once more under cs_main before the block is handed out; *)
(* the proposal guard has already been marked successful.                  *)
Release(b) ==
  /\ phase[b] = "assembled"
  /\ IF tip[Coordinator[b]] = Parent[b]
     THEN /\ phase' = [phase EXCEPT ![b] = "released"]
          /\ cert' = [cert EXCEPT ![b] = collected[b]]
     ELSE /\ phase' = [phase EXCEPT ![b] = "failed"]
          /\ UNCHANGED cert
  /\ UNCHANGED <<collected, due, wait, now, tip, index, seen, shares, guard, active, net, epoch, lost, signed>>

-----------------------------------------------------------------------------
(* Message handlers: ProcessMessage *)

(* A repeated proposal that gets no answer. *)
ProposalSeenSilent(m) ==
  /\ m.kind = "PROPOSEBLOCK"
  /\ m.blk \in seen[m.to]
  /\ net' = net \ {m}
  /\ UNCHANGED <<now, tip, index, seen, shares, guard, active, job, cert, epoch, lost, signed>>

(* PROPOSEBLOCK, already seen: answer the sender with the cached shares. *)
ProposalSeen(m) ==
  LET n == m.to IN
  /\ m.kind = "PROPOSEBLOCK"
  /\ m.blk \in seen[n]
  /\ net' = (net \ {m}) \cup Shares(m.blk, shares[n][m.blk], n, {m.from})
  /\ UNCHANGED <<now, tip, index, seen, shares, guard, active, job, cert, epoch, lost, signed>>

(* PROPOSEBLOCK on an unknown parent: dropped, and not marked as seen. *)
ProposalUnknownParent(m) ==
  LET n == m.to IN
  /\ m.kind = "PROPOSEBLOCK"
  /\ m.blk \notin seen[n]
  /\ Parent[m.blk] \notin index[n]
  /\ net' = net \ {m}
  /\ UNCHANGED <<now, tip, index, seen, shares, guard, active, job, cert, epoch, lost, signed>>

(* PROPOSEBLOCK, new: mark as seen, relay, then sign if the guard allows. *)
ProposalNew(m) ==
  LET n == m.to
      b == m.blk
  IN
  /\ m.kind = "PROPOSEBLOCK"
  /\ b \notin seen[n]
  /\ Parent[b] \in index[n]
  /\ seen' = [seen EXCEPT ![n] = MarkSeen(@, b)]
  /\ Sign(n, b)
  /\ net' = (net \ {m}) \cup Proposals(b, n, Peers[n] \ {m.from})
                        \cup Shares(b, SignerSet(n, b), n, Peers[n])
  /\ UNCHANGED <<now, tip, index, active, job, cert, epoch, lost>>

(* QUORUMSIGSHARE: a share of a member of the quorum on top of the         *)
(* receiver's own tip that is not cached yet is cached and relayed.        *)
ReceiveShare(m) ==
  LET n == m.to
      fresh == m.mem \notin shares[n][m.blk] /\ m.mem \in Quorum[tip[n]]
  IN
  /\ m.kind = "QUORUMSIGSHARE"
  /\ shares' = IF fresh THEN [shares EXCEPT ![n] = CacheShares(@, m.blk, {m.mem})] ELSE shares
  /\ net' = (net \ {m}) \cup IF fresh THEN Shares(m.blk, {m.mem}, n, Peers[n] \ {m.from})
                                      ELSE {}
  /\ UNCHANGED <<now, tip, index, seen, guard, active, job, cert, epoch, lost, signed>>

-----------------------------------------------------------------------------
(* Environment *)

(* Node n accepts a released block whose certificate verifies (CheckBlock) *)
(* and whose parent it knows; a better block becomes the tip (ConnectTip). *)
Adopt(n, b) ==
  /\ cert[b] # {}
  /\ Verify(b, cert[b])
  /\ b \notin index[n]
  /\ Parent[b] \in index[n]
  /\ index' = [index EXCEPT ![n] = @ \cup {b}]
  /\ IF BetterTip(b, tip[n])
     THEN /\ tip' = [tip EXCEPT ![n] = b]
          /\ \E full \in BOOLEAN :
               shares' = [shares EXCEPT ![n] = Pruned(@, index[n], Height[b], full)]
     ELSE UNCHANGED <<tip, shares>>
  /\ UNCHANGED <<now, seen, guard, active, job, cert, net, epoch, lost, signed>>

(* A node stops and starts again: everything but the chain is in memory. *)
Restart(n) ==
  /\ epoch[n] < MaxRestarts
  /\ epoch' = [epoch EXCEPT ![n] = @ + 1]
  /\ seen' = [seen EXCEPT ![n] = {}]
  /\ shares' = [shares EXCEPT ![n] = [b \in Block |-> {}]]
  /\ guard' = [guard EXCEPT ![n] = [p \in Parents |-> None]]
  /\ active' = [active EXCEPT ![n] = None]
  /\ phase' = [b \in Block |->
                 IF Coordinator[b] = n /\ phase[b] \in {"polling", "assembled"}
                 THEN "failed" ELSE phase[b]]
  /\ net' = {m \in net : m.to # n}
  /\ UNCHANGED <<now, tip, index, cert, lost, signed, collected, due, wait>>

Lose(m) ==
  /\ lost < MaxLoss
  /\ lost' = lost + 1
  /\ net' = net \ {m}
  /\ UNCHANGED <<now, tip, index, seen, shares, guard, active, job, cert, epoch, signed>>

Tick ==
  /\ now < MaxTime
  /\ now' = now + 1
  /\ UNCHANGED <<tip, index, seen, shares, guard, active, job, cert, net, epoch, lost, signed>>

Next ==
  \/ \E b \in Block : Propose(b) \/ Poll(b) \/ Release(b)
  \/ \E m \in net : \/ ProposalSeen(m) \/ ProposalUnknownParent(m)
                    \/ ProposalNew(m) \/ ReceiveShare(m) \/ Lose(m)
  \/ \E n \in Node : Restart(n) \/ \E b \in Block : Adopt(n, b)
  \/ Tick

Spec == Init /\ [][Next]_vars

-----------------------------------------------------------------------------
(* Delivery within one time unit: time stands still while a message is in  *)
(* flight or an iteration of a polling loop is due.                        *)
Quiet == net = {} /\ \A b \in Block : phase[b] = "polling" => now < due[b]
Waiting == \E b \in Block : phase[b] = "polling"
NextTimely ==
  \/ Next /\ now' = now
  \/ Quiet /\ Waiting /\ Tick

(* Weak fairness of the loops that the threads of a node run: the staking  *)
(* thread polls, the message thread handles what arrives, time advances.   *)
TimelySpec ==
  /\ Init /\ [][NextTimely]_vars
  /\ \A b \in Block : WF_vars(Poll(b)) /\ WF_vars(Release(b))
  /\ WF_vars(\E m \in net : \/ ProposalSeen(m) \/ ProposalUnknownParent(m)
                            \/ ProposalNew(m) \/ ReceiveShare(m))
  /\ WF_vars(Quiet /\ Waiting /\ Tick)

-----------------------------------------------------------------------------
(* Properties *)

(* Every variable keeps the type its C++ counterpart has. *)
TypeOK ==
  /\ now \in Nat /\ lost \in Nat
  /\ tip \in [Node -> Parents]
  /\ index \in [Node -> SUBSET Parents]
  /\ seen \in [Node -> SUBSET Block]
  /\ shares \in [Node -> [Block -> SUBSET Member]]
  /\ guard \in [Node -> [Parents -> GuardEntry \cup {None}]]
  /\ active \in [Node -> [parent : Parents, start : Nat] \cup {None}]
  /\ phase \in [Block -> Phase]
  /\ collected \in [Block -> SUBSET Member]
  /\ due \in [Block -> Nat]
  /\ wait \in [Block -> Nat]
  /\ cert \in [Block -> SUBSET Member]
  /\ net \subseteq Message
  /\ epoch \in [Node -> Nat]
  /\ signed \subseteq Signature

(* The least time between signatures on two different blocks a and b. *)
Window(a, b) == IF Coordinator[a] = Coordinator[b] THEN SameWindow ELSE GuardWindow
Apart(s, t) == s.time - t.time >= Window(s.blk, t.blk) \/ t.time - s.time >= Window(s.blk, t.blk)
OnSameParent(s, t) == Parent[s.blk] = Parent[t.blk] /\ s.blk # t.blk

(* While a node stays up, AllowQuorumSignature keeps any two signatures of *)
(* its keys on different blocks with the same parent at least 12 s apart,  *)
(* and 30 s if the blocks come from competing coordinators, whatever       *)
(* sequence of proposals, repetitions and map cleanups lies between them.  *)
GuardWindowRespected ==
  \A s, t \in signed :
    /\ Holder[s.mem] = Holder[t.mem]
    /\ s.epoch = t.epoch
    /\ OnSameParent(s, t)
    => Apart(s, t)

SignedBy(m, b) == \E s \in signed : s.mem = m /\ s.blk = b

(* A certificate that CreateNewBlock attaches passes Verify, and each of   *)
(* its signers really signed that block, although it is put together from  *)
(* a cache fed by local signing, relayed shares and repeated broadcasts.   *)
CertificateSound ==
  \A b \in Block : cert[b] # {} => Verify(b, cert[b]) /\ \A m \in cert[b] : SignedBy(m, b)

(* Two blocks with the same parent can both be certified only through a    *)
(* member that signed both, a full guard window apart or across a restart  *)
(* of its node: certificates of competing coordinators cannot both form    *)
(* within the 30 s window unless a quorum node restarts.                   *)
CompetingCertificatesApart ==
  \A a, b \in Block :
    /\ a # b /\ Parent[a] = Parent[b]
    /\ cert[a] # {} /\ cert[b] # {}
    => \E s, t \in signed :
         /\ s.mem = t.mem /\ s.blk = a /\ t.blk = b
         /\ s.epoch # t.epoch \/ Apart(s, t)

(* With delivery within one poll iteration, a proposal with no competitor  *)
(* ends with a released block although MaxLoss messages are lost: the      *)
(* second broadcast reaches a member that missed the first, and a member   *)
(* that has signed answers it again from its share cache.                  *)
ProposalRecovers ==
  \A b \in Block : phase[b] = "polling" ~> phase[b] = "released"

-----------------------------------------------------------------------------
(* The inductive invariant behind the safety properties *)

(* An entry of the guard names a block on its parent, signed in this epoch *)
(* by every key of the node that may sign it.                              *)
GuardInv ==
  \A n \in Node, p \in Parents : guard[n][p] # None =>
    LET g == guard[n][p] IN
    /\ Parent[g.blk] = p
    /\ g.time <= now
    /\ \A m \in Signers(n, g.blk) :
         \E s \in signed : s.mem = m /\ s.blk = g.blk /\ s.epoch = epoch[n]

(* A signature of the current epoch is covered by the guard entry on its   *)
(* parent, or that entry was dropped when it no longer mattered.           *)
Covered(s, g) ==
  IF g = None THEN now - s.time >= GuardWindow
  ELSE IF g.blk = s.blk THEN s.time <= g.time
  ELSE g.time - s.time >= Window(s.blk, g.blk)

SignedInv ==
  \A s \in signed :
    /\ s.time <= now
    /\ s.epoch <= epoch[Holder[s.mem]]
    /\ s.epoch = epoch[Holder[s.mem]] => Covered(s, guard[Holder[s.mem]][Parent[s.blk]])

(* Whatever is cached, in flight or collected was signed by its member. *)
ShareInv ==
  /\ \A n \in Node, b \in Block : \A m \in shares[n][b] : SignedBy(m, b)
  /\ \A m \in net : m.kind = "QUORUMSIGSHARE" => SignedBy(m.mem, m.blk)
  /\ \A b \in Block :
       /\ collected[b] \subseteq Quorum[Parent[b]]
       /\ \A m \in collected[b] : SignedBy(m, b)
       /\ phase[b] = "assembled" => Enough(b, collected[b])

GuardSafe == GuardInv /\ SignedInv /\ GuardWindowRespected
ShareSafe == ShareInv /\ CertificateSound

=============================================================================
