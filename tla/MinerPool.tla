------------------------------ MODULE MinerPool ------------------------------
(***************************************************************************)
(* Who may mine next (adam.cpp): GetAdamMinerPool collects the keys that   *)
(* the chain entitles, SelectAdamNodes elects miners and a coordinator     *)
(* among them, and both keep what they computed in static caches.  Every   *)
(* node has to elect the same keys on the same chain, so an answer must    *)
(* not depend on what the node was asked before, or on the blocks that it  *)
(* has left.                                                               *)
(*                                                                         *)
(* One node on a tree of blocks whose content is given.  The masternode    *)
(* registry is taken to follow the chain (MasternodeRegistry), the coins   *)
(* of a chain are what its blocks created and did not spend (CoinsCache).  *)
(***************************************************************************)
EXTENDS Integers, FiniteSetsExt

CONSTANTS
    Block, Genesis,   \* the blocks of the tree
    Parent,           \* [Block -> Block], pprev; the parent of Genesis is Genesis
    Key, Order,       \* public keys and, [Key -> Nat], their order as CPubKey
    Rank,             \* [Block -> [Key -> Nat]], order of the hashes of a block's seed and a key
    Coin, NoCoin,     \* the outputs that matter here
    Registrations,    \* [Block -> SUBSET [kind, key, coin, challenge]]
    Beats,            \* [Block -> SUBSET Key], masternodes that are active in a block
    Collateral,       \* [Key -> Coin], the collateral of a masternode
    Spent,            \* [Block -> SUBSET Coin], coins that a block spends
    FundSpend,        \* blocks that spend from the developer fund
    SpentBefore,      \* [Block -> SUBSET Coin], what they spend before that
    Producer,         \* [Block -> SUBSET Key], the key that the coinbase pays
    AdamHeight,       \* the first height whose blocks are elected
    RegPeriod,        \* nRegPeriod: how long a registration lasts
    Window,           \* 2880: how long a masternode stays active
    MaxAge,           \* 100: how old the challenge of a registration may be
    LastBootstrap,    \* 199: the last block whose producer is a bootstrap miner
    BootstrapLimit,   \* nAdamBootstrapLimit: bootstrap miners count below this height
    MinersCount,      \* nAdamMinersCount
    LowThreshold,     \* 5: the threshold below ThresholdLimit
    HighThreshold,    \* nAdamThreshold: the threshold from there on
    ThresholdLimit,   \* nAdamThresholdBootstrapLimit
    QuorumMin,        \* 5: with fewer masternodes a quorum is taken from the pool
    PoolCacheCap,     \* 500: the pool cache is dropped above this size
    Asker,            \* threads that elect without cs_main: the miner, message handlers
    Seeds             \* the blocks after which they elect

VARIABLES
    tip,      \* chainActive.Tip(), and the best block of pcoinsTip
    pools,    \* the static variables of GetAdamMinerPool, and two history fields:
              \* mid, blocks whose cached pool is of coins in the middle of a block,
              \* and stale, whether a block was disconnected that had been scanned
    elected,  \* the static variables of SelectAdamNodes
    asking    \* what each asker has read so far, with a history of the reads:
              \* whole, all on one tip and none in the middle of a block, and
              \* fresh, moreover no bootstrap miner of a chain that was left

vars == <<tip, pools, elected, asking>>

Height ==
    LET up[b \in Block] == IF b = Genesis THEN 0 ELSE up[Parent[b]] + 1
    IN  [b \in Block |-> up[b]]

Chain ==
    LET up[b \in Block] == {b} \cup (IF b = Genesis THEN {} ELSE up[Parent[b]])
    IN  [b \in Block |-> up[b]]

ASSUME PoolAssumption ==
    /\ Genesis \in Block /\ Parent \in [Block -> Block]
    /\ IsFiniteSet(Block) /\ IsFiniteSet(Key) /\ "none" \notin Block
    /\ Order \in [Key -> Nat] /\ Rank \in [Block -> [Key -> Nat]]
    /\ \A b \in Block : \A k, l \in Key :
          k # l => Order[k] # Order[l] /\ Rank[b][k] # Rank[b][l]
    /\ Beats \in [Block -> SUBSET Key] /\ Producer \in [Block -> SUBSET Key]
    /\ \A b \in Block : \A r \in Registrations[b] : r.key \in Key
    /\ \A b \in Block : SpentBefore[b] \subseteq Spent[b]
    /\ MinersCount \in Nat /\ ThresholdLimit \in Nat
    /\ LowThreshold \in 1 .. MinersCount /\ HighThreshold \in 1 .. MinersCount
    /\ LastBootstrap \in Nat /\ AdamHeight \in Nat /\ PoolCacheCap \in Nat
    /\ FundSpend \subseteq Block /\ Seeds \subseteq Block

(* Parents lead back to the genesis block, so that the two recursions end. *)
ASSUME TreeAssumption ==
    /\ Height \in [Block -> Nat] /\ Chain \in [Block -> SUBSET Block]
    /\ Height[Genesis] = 0 /\ Chain[Genesis] = {Genesis}
    /\ \A b \in Block \ {Genesis} : /\ Height[b] = Height[Parent[b]] + 1
                                   /\ Chain[b] = {b} \cup Chain[Parent[b]]

(* The block at height h of the chain of t; the tip when there is none. *)
BlockAt(t, h) ==
    IF h \in 0 .. Height[t] THEN CHOOSE b \in Chain[t] : Height[b] = h ELSE t

(* pcoinsTip on the chain of t. *)
Created(b) == {r.coin : r \in Registrations[b]} \ {NoCoin}
Coins ==
    [t \in Block |->
        (UNION {Created(b) : b \in Chain[t]} \cup {Collateral[k] : k \in Key})
            \ UNION {Spent[b] : b \in Chain[t]}]

(***************************************************************************)
(* GetAdamMinerPool.                                                       *)
(***************************************************************************)
(* Miners and solutions that a block needs, by height. *)
GetAdamThreshold(h) == IF h < ThresholdLimit THEN LowThreshold ELSE HighThreshold

(* Keys of masternodes that were active on the chain of t in the window up *)
(* to height h and whose collateral is unspent.                            *)
ActiveMasternodes(h, t, coins) ==
    {k \in Key :
        /\ Collateral[k] \in coins
        /\ \E b \in Chain[t] : k \in Beats[b] /\ h - Height[b] \in 0 .. Window}

(* A proof-of-work registration names a recent block of the active chain. *)
ChallengeValid(r, b, t) ==
    /\ r.challenge \in Chain[t]
    /\ Height[b] - Height[r.challenge] \in 1 .. MaxAge

(* The registrations of the given kinds that hold at block q. *)
Registered(q, t, coins, kinds) ==
    {r.key : r \in UNION {
        {s \in Registrations[b] :
            /\ s.kind \in kinds
            /\ s.kind # "zero" => s.coin \in coins
            /\ s.kind # "lock" => ChallengeValid(s, b, t)}
        : b \in {c \in Chain[t] : Height[q] - Height[c] \in 0 .. RegPeriod - 1 /\ c # Genesis}}}

(* The first n keys of ks in the order of std::set<CPubKey>. *)
First(ks, n) == {k \in ks : Cardinality({l \in ks : Order[l] < Order[k]}) < n}

(* Keys are added in order until the pool has MinersCount + 2. *)
Fill(pool, ks) == pool \cup First(ks \ pool, MinersCount + 2 - Cardinality(pool))

(* The scan for bootstrap miners goes on where the last one ended. *)
ScanBootstrap(p, q, t) ==
    LET upTo == Min({LastBootstrap, Height[q]})
    IN  [p EXCEPT
            !.boot = @ \cup UNION {Producer[b] : b \in {c \in Chain[t] : Height[c] \in p.upTo + 1 .. upTo}},
            !.upTo = Max({@, upTo})]

Funded(q, t, coins) ==
    ActiveMasternodes(Height[q], t, coins) \cup Registered(q, t, coins, {"lock", "pow"})

(* Registrations without a coin fill the pool up after the funded keys. *)
Filled(q, t, coins) == Fill(Funded(q, t, coins), Registered(q, t, coins, {"zero"}))

(* What the coins of the chain of t entitle at its blocks. *)
Entitled == [t \in Block |-> [q \in Chain[t] |-> Filled(q, t, Coins[t])]]

NeedsBootstrap(filled, q) == Cardinality(filled) < MinersCount + 2 /\ Height[q] < BootstrapLimit

Bootstrapped(filled, q, boot) == IF NeedsBootstrap(filled, q) THEN Fill(filled, boot) ELSE filled

(* The cache is dropped when the registry has changed since it was last    *)
(* looked at (g_nMasternodePingStateGen), or when it is too large.         *)
Refreshed(p) ==
    LET drop == p.moved \/ Cardinality(DOMAIN p.cache) > PoolCacheCap
    IN  [p EXCEPT !.cache = IF drop THEN <<>> ELSE @,
                  !.mid   = IF drop THEN {} ELSE @,
                  !.moved = FALSE]

(* A pool that is large enough is kept in the cache; mid says that it was  *)
(* computed from other coins than those of the chain.                      *)
Kept(p, q, pool, mid) ==
    [pools |-> IF Cardinality(pool) >= GetAdamThreshold(Height[q])
               THEN [p EXCEPT !.cache = [c \in DOMAIN @ \cup {q} |-> IF c = q THEN pool ELSE @[c]],
                              !.mid   = IF mid THEN @ \cup {q} ELSE @]
               ELSE p,
     pool  |-> pool]

Completed(p, q, filled, mid) == Kept(p, q, Bootstrapped(filled, q, p.boot), mid)

Answered(p, q, t, filled, mid) ==
    IF q \in DOMAIN p.cache THEN [pools |-> p, pool |-> p.cache[q]]
    ELSE Completed(IF NeedsBootstrap(filled, q) THEN ScanBootstrap(p, q, t) ELSE p, q, filled, mid)

(* The answer for block q of the chain of t when the coins of the view     *)
(* entitle the keys filled, and what the call leaves in the static         *)
(* variables.  It holds cs_main.  Every view that it is called with here   *)
(* is at the tip, and so uses the cache.                                   *)
GetAdamMinerPool(p, q, t, filled) ==
    Answered(Refreshed(p), q, t, filled, filled # Entitled[t][q])

(* On pcoinsTip, for the block at height h. *)
PoolAt(p, h, t) == GetAdamMinerPool(p, BlockAt(t, h), t, Entitled[t][BlockAt(t, h)])

(* Bootstrap miners of a chain that was left stay for good, as far as the  *)
(* pool of t needs bootstrap miners.                                       *)
Leftovers(p, t) == p.stale /\ NeedsBootstrap(Entitled[t][t], t)

(***************************************************************************)
(* SelectAdamNodes, for the block after b.  The pool is that of the block  *)
(* of the active chain at the height of b, the threshold that of b, not of *)
(* the block that is to be mined.                                          *)
(***************************************************************************)
(* The n keys of ks that rank first under the seed of block b. *)
Ranked(ks, n, b) == {k \in ks : Cardinality({l \in ks : Rank[b][l] < Rank[b][k]}) < n}

BestOf(ks, b) == CHOOSE k \in ks : \A l \in ks : Rank[b][k] <= Rank[b][l]

ElectAtThreshold(key) ==
    LET coordinator == BestOf(key.mns, key.seed)
        miners      == Ranked(key.pool, MinersCount, key.seed)
    IN  IF Cardinality(key.mns) >= key.threshold
        THEN [coordinator |-> coordinator, miners |-> Ranked(key.pool \ {coordinator}, MinersCount, key.seed)]
        ELSE [coordinator |-> BestOf(IF key.pool = miners THEN key.pool ELSE key.pool \ miners, key.seed),
              miners      |-> miners]

(* Rule 1: with enough masternodes the best of them coordinates and does   *)
(* not mine.  Rule 2: the key that ranks next after the miners coordinates *)
(* or, when all of the pool mines, the first of them.                      *)
Elect(key) ==
    LET coordinator == BestOf(key.mns, key.seed)
        miners      == Ranked(key.pool, MinersCount, key.seed)
    IN  IF Cardinality(key.mns) > key.threshold
        THEN [coordinator |-> coordinator, miners |-> Ranked(key.pool \ {coordinator}, MinersCount, key.seed)]
        ELSE [coordinator |-> BestOf(IF key.pool = miners THEN key.pool ELSE key.pool \ miners, key.seed),
              miners      |-> miners]

NoElection == [coordinator |-> "none", miners |-> {}]

(* What an election depends on: the key of the cache of elections. *)
KeyFor(b, pool, mns) ==
    [seed |-> b, threshold |-> GetAdamThreshold(Height[b]), pool |-> pool, mns |-> mns]

TooSmall(b, pool) == Cardinality(pool) < GetAdamThreshold(Height[b])

(* The last result is kept with everything that it was computed from. *)
Recalled(e, key) == IF e.key = key THEN e ELSE [key |-> key, result |-> Elect(key)]

Outcome(e, got) ==
    [pools |-> got.pools, pool |-> got.pool, elected |-> e, result |-> e.result]

ElectFrom(e, b, got, mns) ==
    IF TooSmall(b, got.pool)
    THEN [Outcome(e, got) EXCEPT !.result = NoElection]
    ELSE Outcome(Recalled(e, KeyFor(b, got.pool, mns)), got)

(* The whole of it, when the caller holds cs_main. *)
SelectAdamNodes(p, e, b, t) ==
    ElectFrom(e, b, PoolAt(p, Height[b], t), ActiveMasternodes(Height[b], t, Coins[t]))

(***************************************************************************)
(* The steps of the node.                                                  *)
(***************************************************************************)
NoKey == [seed |-> "none", threshold |-> 0, pool |-> {}, mns |-> {}]

NoAsk ==
    [at |-> "idle", key |-> NoKey, whole |-> FALSE, fresh |-> FALSE]

Init ==
    /\ tip = Genesis
    /\ pools = [cache |-> <<>>, moved |-> FALSE, boot |-> {}, upTo |-> 0, mid |-> {}, stale |-> FALSE]
    /\ elected = [key |-> NoKey, result |-> NoElection]
    /\ asking = [a \in Asker |-> NoAsk]

(* The pool of a height is asked for: RPC, payments, quorum members. *)
AskPool(h) ==
    /\ h \in 0 .. Height[tip]
    /\ pools' = PoolAt(pools, h, tip).pools
    /\ UNCHANGED <<tip, elected, asking>>

(* SelectAdamNodes of a caller without cs_main, on the tip by the miner or *)
(* on any known block by the handler of a solution and by CheckBlock of a  *)
(* block that has arrived.  It takes the pool, the masternodes and then    *)
(* twice the cache of elections, each under a lock of its own.             *)
Asked(b, got) ==
    IF TooSmall(b, got.pool) THEN NoAsk
    ELSE [at    |-> "masternodes",
          key   |-> KeyFor(b, got.pool, {}),
          whole |-> b = tip /\ tip \notin got.pools.mid,
          fresh |-> b = tip /\ tip \notin got.pools.mid /\ ~ Leftovers(got.pools, tip)]

Take(a, b, got) ==
    /\ asking[a].at = "idle"
    /\ pools' = got.pools
    /\ asking' = [asking EXCEPT ![a] = Asked(b, got)]
    /\ UNCHANGED <<tip, elected>>

TakePool(a, b) == Take(a, b, PoolAt(pools, Height[b], tip))

WithMasternodes(r) ==
    [at    |-> "recall",
     key   |-> KeyFor(r.key.seed, r.key.pool, ActiveMasternodes(Height[r.key.seed], tip, Coins[tip])),
     whole |-> r.whole /\ r.key.seed = tip,
     fresh |-> r.fresh /\ r.key.seed = tip]

TakeMasternodes(a) ==
    /\ asking[a].at = "masternodes"
    /\ asking' = [asking EXCEPT ![a] = WithMasternodes(asking[a])]
    /\ UNCHANGED <<tip, pools, elected>>

(* The asker has its answer, Recalled(elected, key).result; unless it was  *)
(* in the cache it is still to be stored.                                  *)
ToStore(r) ==
    IF elected.key = r.key THEN NoAsk
    ELSE [at |-> "store", key |-> r.key, whole |-> FALSE, fresh |-> FALSE]

RecallElection(a) ==
    /\ asking[a].at = "recall"
    /\ asking' = [asking EXCEPT ![a] = ToStore(asking[a])]
    /\ UNCHANGED <<tip, pools, elected>>

StoreElection(a) ==
    /\ asking[a].at = "store"
    /\ elected' = [key |-> asking[a].key, result |-> Elect(asking[a].key)]
    /\ asking' = [asking EXCEPT ![a] = NoAsk]
    /\ UNCHANGED <<tip, pools>>

(* Whether CheckBlock compares the miners of b with the election: not      *)
(* while the node is syncing.                                              *)
Elects(b) == IF Height[b] >= AdamHeight THEN BOOLEAN ELSE {FALSE}

(* A spend of the developer fund is checked against a quorum in the middle *)
(* of the block, on a view that has the spends before it and is still at   *)
(* the tip.                                                                *)
AskQuorum(p, b, coins) ==
    IF b \in FundSpend /\ Cardinality(ActiveMasternodes(Height[tip], tip, coins)) < QuorumMin
    THEN GetAdamMinerPool(p, tip, tip, Filled(tip, tip, coins)).pools ELSE p

(* What CheckBlock and ConnectBlock ask, under cs_main, while they check b *)
(* on the tip.                                                             *)
Checked(b, elects) ==
    [(IF elects THEN SelectAdamNodes(pools, elected, tip, tip)
      ELSE [pools |-> pools, elected |-> elected, pool |-> {}, result |-> NoElection])
        EXCEPT !.pools = AskQuorum(@, b, Coins[tip] \ SpentBefore[b])]

(* The block names the elected miners, and needs as many of their          *)
(* solutions as the threshold of its own height.                           *)
Connectable(b, elects, got) ==
    /\ b # Genesis /\ Parent[b] = tip
    /\ Spent[b] \subseteq Coins[tip]
    /\ elects => /\ got.result # NoElection
                 /\ Cardinality(got.result.miners) >= GetAdamThreshold(Height[b])

Connect(b, elects, got) ==
    /\ Connectable(b, elects, got)
    /\ tip' = b
    /\ pools' = [got.pools EXCEPT !.moved = @ \/ Beats[b] # {}]
    /\ elected' = got.elected
    /\ UNCHANGED asking

ConnectBlock(b) == \E elects \in Elects(b) : Connect(b, elects, Checked(b, elects))

(* The block is refused after the middle of it, or was only to be checked  *)
(* (TestBlockValidity).                                                    *)
Test(b, elects, got) ==
    /\ Connectable(b, elects, got)
    /\ pools' = got.pools
    /\ elected' = got.elected
    /\ UNCHANGED <<tip, asking>>

CheckOnly(b) == \E elects \in Elects(b) : Test(b, elects, Checked(b, elects))

DisconnectSilently ==
    /\ tip # Genesis
    /\ tip' = Parent[tip]
    /\ pools' = [pools EXCEPT !.moved = @ \/ Beats[tip] # {}, !.stale = @ \/ Height[tip] <= pools.upTo]
    /\ UNCHANGED <<elected, asking>>

DisconnectBlock ==
    /\ tip # Genesis
    /\ tip' = Parent[tip]
    /\ pools' = [pools EXCEPT !.moved = TRUE, !.stale = @ \/ Height[tip] <= pools.upTo]
    /\ UNCHANGED <<elected, asking>>

Next ==
    \/ \E h \in 0 .. Height[tip] : AskPool(h)
    \/ \E a \in Asker, b \in Seeds : TakePool(a, b)
    \/ \E a \in Asker : TakeMasternodes(a) \/ RecallElection(a) \/ StoreElection(a)
    \/ \E b \in Block : ConnectBlock(b)
    \/ \E b \in Block : CheckOnly(b)
    \/ DisconnectBlock

Spec == Init /\ [][Next]_vars

-----------------------------------------------------------------------------
(***************************************************************************)
(* Properties.                                                             *)
(***************************************************************************)
Election == [coordinator : Key \cup {"none"}, miners : SUBSET Key]

(* The variables have their types, and the pool cache stays near its cap.  *)
TypeOK ==
    /\ tip \in Block
    /\ DOMAIN pools.cache \subseteq Block /\ Cardinality(DOMAIN pools.cache) <= PoolCacheCap + 1
    /\ \A q \in DOMAIN pools.cache : pools.cache[q] \subseteq Key
    /\ pools.moved \in BOOLEAN /\ pools.boot \subseteq Key /\ pools.upTo \in 0 .. LastBootstrap
    /\ pools.mid \subseteq Block /\ pools.stale \in BOOLEAN
    /\ elected.result \in Election
    /\ \A a \in Asker : /\ asking[a].at \in {"idle", "masternodes", "recall", "store"}
                        /\ asking[a].key.pool \subseteq Key /\ asking[a].key.mns \subseteq Key

(* The pool of a node that has just started on the chain of t. *)
FreshPool ==
    [t \in Block |->
        Bootstrapped(Entitled[t][t], t,
                     UNION {Producer[b] : b \in {c \in Chain[t] : Height[c] \in 1 .. LastBootstrap}})]

(* What it elects there. *)
FreshElection ==
    [t \in Block |->
        IF TooSmall(t, FreshPool[t]) THEN NoElection
        ELSE Elect(KeyFor(t, FreshPool[t], ActiveMasternodes(Height[t], t, Coins[t])))]

(* What an election under cs_main would be now, on the tip. *)
ElectionNow == SelectAdamNodes(pools, elected, tip, tip)

MidNow == tip \in Refreshed(pools).mid

(* What an asker is about to get. *)
Got(r) == Recalled(elected, r.key).result

(* The miners and the coordinator that a node elects on its tip are those  *)
(* that a node elects that has just started on the same chain, whatever it *)
(* was asked, checked, connected or disconnected before.  That is so under *)
(* cs_main, and without it when the tip did not change between the reads,  *)
(* also when other askers mixed two chains in theirs.  The exceptions are  *)
(* a pool that was cached in the middle of a block, and a pool that needs  *)
(* bootstrap miners after a bootstrap block was disconnected.              *)
AnswersFollowChain ==
    /\ ~ MidNow /\ ~ Leftovers(pools, tip) => ElectionNow.result = FreshElection[tip]
    /\ \A a \in Asker : LET r == asking[a] IN
          r.at = "recall" /\ r.fresh => Got(r) = FreshElection[r.key.seed]

(* Miners enough for the threshold of b and, unless the threshold changes  *)
(* with the block after b, for the block to be valid.                      *)
Enough(b, pool, r) ==
    r # NoElection =>
        /\ Cardinality(r.miners) \in GetAdamThreshold(Height[b]) .. MinersCount
        /\ Height[b] + 1 # ThresholdLimit => Cardinality(r.miners) >= GetAdamThreshold(Height[b] + 1)
        /\ r.miners \subseteq pool /\ r.coordinator \in pool
        /\ r.coordinator \in r.miners => r.miners = pool

(* An election that succeeds names enough miners, no more than             *)
(* MinersCount, all of the pool, and a coordinator of the pool that does   *)
(* not mine unless the whole pool has to: under cs_main, and without it    *)
(* when the tip did not change between the reads; whatever bootstrap       *)
(* miners the pool has.                                                    *)
ElectedEnough ==
    /\ ~ MidNow => LET now == ElectionNow IN Enough(tip, now.pool, now.result)
    /\ \A a \in Asker : LET r == asking[a] IN
          r.at = "recall" /\ r.whole => Enough(r.key.seed, r.key.pool, Got(r))
=============================================================================
