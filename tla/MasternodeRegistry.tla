------------------------- MODULE MasternodeRegistry -------------------------
(***************************************************************************)
(* The on-chain masternode registry of one node (adam.cpp, with its hooks  *)
(* in ConnectBlock, DisconnectBlock, FlushStateToDisk and VerifyDB of      *)
(* main.cpp).  A block carries pings, which bind a masternode key to a     *)
(* collateral, and heartbeats, by which a bound key took part in making    *)
(* the block.  The registry is updated as blocks are connected, reverted   *)
(* as they are disconnected, saved with the hash of a block, and reloaded  *)
(* at start-up.  Elections read it (Enabled), so every node on the same    *)
(* chain has to hold the same one.                                         *)
(***************************************************************************)
EXTENDS Integers, Sequences, FiniteSetsExt, Functions

CONSTANTS
  Block, Genesis,  \* a tree of blocks
  Parent,          \* Parent[b]: pprev
  Chain,           \* Chain[b]: the blocks after the genesis block up to b
  Rank,            \* order of preference of tips: work, then hash
  Keys,            \* the masternode keys, in the order of CPubKey::operator<
  Coll,            \* collateral outpoints
  Owner,           \* Owner[c]: the key the collateral pays to directly
  Miners,          \* keys that are also registered by a coin-lock or PoW-lock
  None,
  Content,         \* what a block may carry
  Window,          \* 2880: blocks a ping keeps a masternode active
  HistoryCap,      \* 16: delegations remembered per collateral
  MaxHeights,      \* 64: heights kept per key before old ones are dropped
  CheckBlocks,     \* -checkblocks: depth of VerifyDB
  MaxRestart       \* restarts explored

Key == Range(Keys)
Index == Block \cup {Genesis}

(* A ping, with or without a proof of delegation, or a heartbeat. *)
Act == [kind : {"ping"}, key : Key, coll : Coll, proof : BOOLEAN]
         \cup [kind : {"beat"}, key : Key]

ASSUME RegistryAssumption ==
  /\ Genesis \notin Block /\ None \notin Key \cup Coll /\ Keys \in Seq(Key)
  /\ Parent \in [Block -> Index] /\ Rank \in [Index -> Nat]
  /\ Chain \in [Index -> Seq(Block)] /\ Chain[Genesis] = <<>>
  /\ \A b \in Block : Chain[b] = Append(Chain[Parent[b]], b)
  /\ Content \subseteq [Block -> [acts : Seq(Act), spends : SUBSET Coll]]
  /\ Owner \in [Coll -> Key \cup {None}] /\ Miners \subseteq Key
  /\ Window \in Nat /\ HistoryCap \in Nat /\ MaxHeights \in Nat /\ CheckBlocks \in Nat
  /\ MaxRestart \in Nat

VARIABLES
  content,  \* content[b]: [acts, spends] of block b, fixed from the start
  tip,      \* chainActive.Tip()
  goal,     \* the tip ActivateBestChain works towards
  reg,      \* the registry in memory
  saved,    \* the saved registry and the block it is tagged with
            \* (with the collaterals that were touched then)
  diskTip,  \* the best block of the coins database
  at,       \* where the thread that holds cs_main is
  touched,  \* history: collaterals with activity in blocks that VerifyDB reverted
            \* or whose flush a crash tore
  restarts

vars == <<content, tip, goal, reg, saved, diskTip, at, touched, restarts>>

Height(b) == Len(Chain[b])
OnChain(b, t) == b = Genesis \/ b \in Range(Chain[t])

(* The collaterals that are unspent when t is the tip. *)
Coins(t) == {c \in Coll : \A i \in 1 .. Height(t) : c \notin content[Chain[t][i]].spends}

(* The collaterals that key k pings for on the chain of b, and those that  *)
(* the pings and heartbeats of b are about.                                *)
Claims(k, b) ==
  {c \in Coll : \E i \in 1 .. Height(b) : \E a \in Range(content[Chain[b][i]].acts) :
                  a.kind = "ping" /\ a.key = k /\ a.coll = c}
Involved(b) == UNION {Claims(a.key, b) : a \in Range(content[b].acts)}

-----------------------------------------------------------------------------
(* The registry: heights of activity, the last of them (0: none), and the  *)
(* collateral of each key; the delegated key of each collateral, the       *)
(* height it was first recorded at, and its predecessors.                  *)

Empty == [heights |-> [k \in Key |-> {}],
          last    |-> [k \in Key |-> 0],
          coll    |-> [k \in Key |-> None],
          del     |-> [c \in Coll |-> None],
          first   |-> [c \in Coll |-> 0],
          hist    |-> [c \in Coll |-> <<>>]]

(* IsValidMasternodeCollateralAndAuth: the collateral is unspent and pays  *)
(* to the key, or is delegated to it, by this ping or by an earlier one.   *)
Authorised(r, k, c, proof, coins) ==
  c \in coins /\ (Owner[c] = k \/ proof \/ r.del[c] = k)

(* IsMasternodeActiveAtHeight *)
ActiveAt(r, k, h) ==
  LET Fresh(p) == p <= h /\ h - p <= Window IN
  (\E p \in r.heights[k] : Fresh(p)) \/ (r.last[k] # 0 /\ Fresh(r.last[k]))

(* The masternodes that ElectQuorumMembers and GetAdamMinerPool find.      *)
Enabled(r, t) ==
  {<<k, r.coll[k]>> : k \in
     {l \in Key : /\ r.coll[l] # None
                  /\ ActiveAt(r, l, Height(t))
                  /\ Authorised(r, l, r.coll[l], FALSE, Coins(t))}}

(* RecordCollateralDelegationWithHistory *)
Delegate(r, c, k, h) ==
  LET old == r.del[c]
      longer == Append(r.hist[c], <<r.first[c], old>>)
      moved == old # None /\ old # k
  IN [r EXCEPT
       !.del[c] = k,
       !.hist[c] = IF ~moved THEN @ ELSE IF Len(longer) > HistoryCap THEN Tail(longer) ELSE longer,
       !.first[c] = IF old = k THEN Min({@, h}) ELSE h]

(* The key before it keeps its heights when a collateral changes hands. *)
PingShared(r, k, c, proof, h) ==
  LET d == IF proof THEN Delegate(r, c, k, h) ELSE r IN
  [d EXCEPT !.heights[k] = @ \cup {h}, !.last[k] = Max(r.heights[k] \cup {h}), !.coll[k] = c]

(* RegisterOnChainMasternodePing, once authorised: the key takes the       *)
(* collateral from every other key, which loses its heights.               *)
Ping(r, k, c, proof, h) ==
  LET d == IF proof THEN Delegate(r, c, k, h) ELSE r
      others == {l \in Key \ {k} : d.coll[l] = c}
      all == d.heights[k] \cup {h}
      kept == IF Cardinality(all) <= MaxHeights THEN all
              ELSE {p \in all : p >= h - 2 * Window}
  IN [d EXCEPT
       !.heights = [l \in Key |-> IF l = k THEN kept ELSE IF l \in others THEN {} ELSE @[l]],
       !.last = [l \in Key |-> IF l = k THEN Max(kept) ELSE IF l \in others THEN 0 ELSE @[l]],
       !.coll = [l \in Key |-> IF l = k THEN c ELSE IF l \in others THEN None ELSE @[l]]]

(* One ping or heartbeat of a block, as RegisterBlockMasternodeActivity    *)
(* handles it: a heartbeat counts for the collateral its key is bound to.  *)
Apply(r, a, h, coins) ==
  LET c == IF a.kind = "ping" THEN a.coll ELSE r.coll[a.key]
      proof == a.kind = "ping" /\ a.proof IN
  IF c # None /\ Authorised(r, a.key, c, proof, coins) THEN Ping(r, a.key, c, proof, h) ELSE r

(* RegisterBlockMasternodeActivity, one ping or heartbeat after the other. *)
Registered(r, b, coins) ==
  LET acts == content[b].acts
      after[i \in 0 .. Len(acts)] ==
        IF i = 0 THEN r ELSE Apply(after[i - 1], acts[i], Height(b), coins)
  IN after[Len(acts)]

-----------------------------------------------------------------------------
(* Disconnecting a block *)

(* RevertOnChainCollateralDelegation: a delegation first recorded in the   *)
(* disconnected block gives way to its predecessor, if one is remembered.  *)
Reverted(r, c, k, h) ==
  LET n == Len(r.hist[c])
      back == r.hist[c][n] IN
  IF r.del[c] # k \/ r.first[c] < h THEN r
  ELSE IF n # 0
    THEN [r EXCEPT !.del[c] = back[2], !.first[c] = back[1], !.hist[c] = SubSeq(@, 1, n - 1)]
    ELSE [r EXCEPT !.del[c] = None, !.first[c] = 0]

(* What RestoreMasternodeActivityFromBlock takes from a block for key k    *)
(* and collateral c: a ping of either, or a heartbeat of k or of the       *)
(* collateral's delegate, that is still authorised.                        *)
Restorable(r, a, k, c, coins) ==
  IF a.kind = "ping"
    THEN (a.key = k \/ a.coll = c) /\ Authorised(r, a.key, a.coll, a.proof, coins)
    ELSE c # None /\ a.key \in {k, r.del[c]} /\ Authorised(r, a.key, c, FALSE, coins)

Restorables(r, b, k, c, coins) ==
  {i \in DOMAIN content[b].acts : Restorable(r, content[b].acts[i], k, c, coins)}

FirstRestorable(r, b, k, c, coins) == content[b].acts[Min(Restorables(r, b, k, c, coins))]

(* The first of them is registered, at the height of its block. *)
Restored(r, b, k, c, coins) ==
  LET a == FirstRestorable(r, b, k, c, coins) IN
  IF a.kind = "ping" THEN Ping(r, a.key, a.coll, a.proof, Height(b))
                     ELSE Ping(r, a.key, c, FALSE, Height(b))

(* Blocks above height low, at or below p and within the window of h, from *)
(* which something can be restored.                                        *)
Sources(r, p, low, h, k, c, coins) ==
  {i \in low + 1 .. Height(p) : h - i <= Window /\ Restorables(r, Chain[p][i], k, c, coins) # {}}

(* Only the emptied key is looked for, not the one that held the           *)
(* collateral before it.                                                   *)
RecoveredKeyOnly(r, p, k, c, coins) ==
  LET r1 == [r EXCEPT !.last[k] = 0, !.coll[k] = None]
      S == Sources(r1, p, 0, Height(p) + 1, k, None, coins)
  IN IF S = {} THEN r1 ELSE Restored(r1, Chain[p][Max(S)], k, None, coins)

(* DisconnectBlock for one key left without heights: scan back for the     *)
(* latest activity of the key or of its collateral; if it was another      *)
(* key's, scan again for later activity of that key.                       *)
Recovered(r, p, k, c, coins) ==
  LET r1 == [r EXCEPT !.last[k] = 0, !.coll[k] = None]
      S == Sources(r1, p, 0, Height(p) + 1, k, c, coins)
      b == Chain[p][Max(S)]
      a == FirstRestorable(r1, b, k, c, coins)
      r2 == Restored(r1, b, k, c, coins)
      T == Sources(r2, p, Max(S), Height(p), a.key, c, coins)
  IN IF S = {} THEN r1
     ELSE IF a.key = k \/ T = {} THEN r2
     ELSE Restored(r2, Chain[p][Max(T)], a.key, c, coins)

(* Only the keys that have other heights lose that of the block. *)
WithoutHeightUnlessLast(r, h) ==
  [r EXCEPT !.heights = [k \in Key |-> IF @[k] = {h} THEN @[k] ELSE @[k] \ {h}]]

(* The heights of the disconnected block go; the keys they leave without   *)
(* heights, with the collaterals to look for, are to be recovered.         *)
WithoutHeight(r, h) ==
  [r EXCEPT !.heights = [k \in Key |-> @[k] \ {h}],
            !.last = [k \in Key |-> IF h \notin r.heights[k] THEN @[k]
                                    ELSE Max({0} \cup (r.heights[k] \ {h}))]]

Emptied(r, h) == [k \in {l \in Key : r.heights[l] = {h}} |-> r.coll[k]]

(* A ping of the disconnected block: its delegation is reverted, and the   *)
(* key given back, like the key of the ping, may have to be recovered.     *)
RevertPing(acc, a, h) ==
  LET r == IF a.proof THEN Reverted(acc.r, a.coll, a.key, h) ELSE acc.r
      back == IF r = acc.r THEN None ELSE r.del[a.coll]
      lost == {k \in {back, a.key} \ {None} : r.heights[k] = {}}
  IN [r |-> r,
      todo |-> [k \in lost \cup DOMAIN acc.todo |-> IF k \in lost THEN a.coll ELSE acc.todo[k]]]

(* The pings of the disconnected block, in order. *)
PingsReverted(r, b) ==
  LET acts == content[b].acts
      h == Height(b)
      after[i \in 0 .. Len(acts)] ==
        IF i = 0 THEN [r |-> WithoutHeight(r, h), todo |-> Emptied(r, h)]
        ELSE IF acts[i].kind = "ping" THEN RevertPing(after[i - 1], acts[i], h)
        ELSE after[i - 1]
  IN after[Len(acts)]

(* The keys to recover, in their order. *)
AllRecovered(r, p, todo) ==
  LET after[i \in 0 .. Len(Keys)] ==
        IF i = 0 THEN r
        ELSE LET s == after[i - 1]
                 k == Keys[i] IN
             IF k \notin DOMAIN todo THEN s
             ELSE Recovered(s, p, k, IF todo[k] = None THEN s.coll[k] ELSE todo[k], Coins(p))
  IN after[Len(Keys)]

(* DisconnectBlock *)
Disconnected(r, b) ==
  LET acc == PingsReverted(r, b) IN AllRecovered(acc.r, Parent[b], acc.todo)

-----------------------------------------------------------------------------
(* Activation *)

(* ActivateBestChain turns to a better tip. *)
Choose(b) ==
  /\ at = "idle" /\ tip = goal /\ Rank[b] > Rank[tip]
  /\ goal' = b
  /\ UNCHANGED <<content, tip, reg, saved, diskTip, at, touched, restarts>>

Next1 == Chain[goal][Height(tip) + 1]

(* GetAdamMinerPool: who may take part in making the next block.           *)
Elected(b) ==
  \A i \in DOMAIN content[b].acts : content[b].acts[i].kind = "beat" =>
    LET k == content[b].acts[i].key IN k \in Miners \/ \E e \in Enabled(reg, tip) : e[1] = k

(* ConnectBlock registers the block's activity and saves the registry,     *)
(* tagged with the block.                                                  *)
ConnectBlock ==
  /\ at = "idle" /\ tip # goal /\ OnChain(tip, goal) /\ Elected(Next1)
  /\ reg' = Registered(reg, Next1, Coins(Next1))
  /\ saved' = [reg |-> reg', tag |-> Next1, touched |-> touched]
  /\ at' = "connected"
  /\ UNCHANGED <<content, tip, goal, diskTip, touched, restarts>>

(* FlushStateToDisk, if ConnectTip needs it, saves the registry again,     *)
(* tagged with the tip, which has not been advanced yet ...                *)
ConnectFlush ==
  /\ at = "connected"
  /\ saved' = [reg |-> reg, tag |-> tip, touched |-> touched]
  /\ at' = "connect-coins"
  /\ UNCHANGED <<content, tip, goal, reg, diskTip, touched, restarts>>

(* ... and then the coins.  UpdateTip ends ConnectTip.                     *)
ConnectTip ==
  /\ at \in {"connected", "connect-coins"}
  /\ diskTip' = IF at = "connect-coins" THEN Next1 ELSE diskTip
  /\ tip' = Next1
  /\ at' = "idle"
  /\ UNCHANGED <<content, goal, reg, saved, touched, restarts>>

DisconnectBlock ==
  /\ at = "idle" /\ ~OnChain(tip, goal)
  /\ reg' = Disconnected(reg, tip)
  /\ saved' = [reg |-> reg', tag |-> Parent[tip], touched |-> touched]
  /\ at' = "disconnected"
  /\ UNCHANGED <<content, tip, goal, diskTip, touched, restarts>>

(* DisconnectTip always flushes; the tip is still the deleted block.       *)
DisconnectFlush ==
  /\ at = "disconnected"
  /\ saved' = [reg |-> reg, tag |-> tip, touched |-> touched]
  /\ at' = "disconnect-coins"
  /\ UNCHANGED <<content, tip, goal, reg, diskTip, touched, restarts>>

DisconnectTip ==
  /\ at = "disconnect-coins"
  /\ diskTip' = Parent[tip]
  /\ tip' = Parent[tip]
  /\ at' = "idle"
  /\ UNCHANGED <<content, goal, reg, saved, touched, restarts>>

(* FlushStateToDisk between blocks, with or without the coins.             *)
Flush ==
  /\ at = "idle"
  /\ saved' = [reg |-> reg, tag |-> tip, touched |-> touched]
  /\ diskTip' \in {diskTip, tip}
  /\ UNCHANGED <<content, tip, goal, reg, at, touched, restarts>>

-----------------------------------------------------------------------------
(* Start-up *)

(* A saved registry with the heights above that of its tag cut off.        *)
Trimmed(r, h) ==
  LET cut == [k \in Key |-> {p \in r.heights[k] : p <= h}] IN
  [r EXCEPT !.heights = cut, !.last = [k \in Key |-> Max({0} \cup cut[k])]]

(* The blocks above height low are scanned again, with the coins of t.     *)
Rescanned(r, t, low) ==
  LET after[i \in 0 .. Height(t) - low] ==
        IF i = 0 THEN r ELSE Registered(after[i - 1], Chain[t][low + i], Coins(t))
  IN after[Height(t) - low]

(* The saved registry is used whatever block it is tagged with. *)
LoadedAnyTag ==
  LET low == Min({Height(saved.tag), Height(diskTip)}) IN
  IF diskTip = Genesis THEN Empty ELSE Rescanned(Trimmed(saved.reg, low), diskTip, low)

(* InitializeOnChainMasternodePings: the saved registry is used if its tag *)
(* is on the active chain.                                                 *)
Loaded ==
  IF diskTip = Genesis THEN Empty
  ELSE IF OnChain(saved.tag, diskTip)
    THEN Rescanned(Trimmed(saved.reg, Height(saved.tag)), diskTip, Height(saved.tag))
    ELSE Rescanned(Empty, diskTip, 0)

(* A crash between the registry and the coins of one flush: the registry   *)
(* of another block is loaded for diskTip.                                 *)
Torn == CASE at = "connect-coins" -> Involved(Next1)
          [] at = "disconnect-coins" -> Involved(tip)
          [] OTHER -> {}

(* A crash, or a stop, and a start: the chain is that of the coins.        *)
Restart ==
  /\ restarts < MaxRestart
  /\ restarts' = restarts + 1
  /\ reg' = Loaded
  /\ touched' = (Coll \ Coins(diskTip)) \cup
                  IF diskTip # Genesis /\ OnChain(saved.tag, diskTip) THEN saved.touched \cup Torn ELSE {}
  /\ LET kept == diskTip = Genesis \/ saved.tag = diskTip IN
     saved' = [reg |-> IF kept THEN saved.reg ELSE reg',
               tag |-> IF kept THEN saved.tag ELSE diskTip, touched |-> touched']
  /\ tip' = diskTip /\ goal' = diskTip
  /\ at' = "loaded"
  /\ UNCHANGED <<content, diskTip>>

(* The registry once the last n blocks of t are disconnected. *)
Unwound(r, t, n) ==
  LET after[i \in 0 .. n] ==
        IF i = 0 THEN r ELSE Disconnected(after[i - 1], Chain[t][Height(t) + 1 - i])
  IN after[n]

(* VerifyDB at start-up: the last blocks are disconnected, and connected   *)
(* again, in a scratch copy of the coins.                                  *)
(* DisconnectBlock reverts the registry, and ConnectBlock, while blocks    *)
(* are verified, does not register their activity again.                   *)
VerifyDB ==
  /\ at = "loaded"
  /\ LET depth == IF CheckBlocks = 0 THEN Height(tip) ELSE Min({CheckBlocks, Height(tip)})
         n == Min({depth + 1, Height(tip)})
     IN  /\ reg' = Unwound(reg, tip, n)
         /\ touched' = touched \cup UNION {Involved(Chain[tip][i]) : i \in Height(tip) + 1 - n .. Height(tip)}
  /\ at' = "idle"
  /\ UNCHANGED <<content, tip, goal, saved, diskTip, restarts>>

-----------------------------------------------------------------------------
Init ==
  /\ content \in Content
  /\ tip = Genesis /\ goal = Genesis
  /\ reg = Empty
  /\ saved = [reg |-> Empty, tag |-> Genesis, touched |-> {}]
  /\ diskTip = Genesis
  /\ at = "idle"
  /\ touched = {} /\ restarts = 0

Next ==
  \/ \E b \in Block : Choose(b)
  \/ ConnectBlock \/ ConnectFlush \/ ConnectTip
  \/ DisconnectBlock \/ DisconnectFlush \/ DisconnectTip
  \/ Flush \/ Restart \/ VerifyDB

Spec == Init /\ [][Next]_vars

-----------------------------------------------------------------------------
(* Properties *)

Registry == [heights : [Key -> SUBSET Nat], last : [Key -> Nat],
             coll : [Key -> Coll \cup {None}], del : [Coll -> Key \cup {None}],
             first : [Coll -> Nat], hist : [Coll -> Seq(Nat \X Key)]]

(* Every variable has its type. *)
TypeOK ==
  /\ tip \in Index /\ goal \in Index /\ diskTip \in Index /\ saved.tag \in Index
  /\ reg \in Registry /\ saved.reg \in Registry
  /\ touched \in SUBSET Coll /\ saved.touched \in SUBSET Coll
  /\ at \in {"idle", "connected", "connect-coins", "disconnected", "disconnect-coins", "loaded"}
  /\ restarts \in 0 .. MaxRestart

(* The registry of a node that connected the active chain and nothing else.*)
Replayed[b \in Index] ==
  IF b = Genesis THEN Empty ELSE Registered(Replayed[Parent[b]], b, Coins(b))

(* But for the touched collaterals, elections find the same masternodes as *)
(* in a registry that only ever followed the active chain, and unspent     *)
(* collaterals have the same delegations.                                  *)
FollowsChain ==
  LET r == Replayed[tip]
      found == Enabled(reg, tip)
      due == Enabled(r, tip)
  IN \A c \in Coll \ touched : /\ {e \in found : e[2] = c} = {e \in due : e[2] = c}
                               /\ c \in Coins(tip) => reg.del[c] = r.del[c]

(* "Quorums and ADAM validator elections are resolved 100%                 *)
(* deterministically from verified on-chain Masternode state": between     *)
(* blocks, the masternodes an election finds are those of a node that saw  *)
(* the active chain only, whatever was connected, disconnected, saved and  *)
(* reloaded before.  Start-up breaks this for the touched collaterals      *)
(* only: those with activity in the blocks that VerifyDB reverts and       *)
(* ConnectBlock does not register again, or in a block whose flush was     *)
(* torn, and those that were spent at a start (a later reorganisation may  *)
(* bring them back).                                                       *)
RegistryFollowsChain == at = "idle" => FollowsChain

(* The same of the registry that a start has just loaded, from a save made *)
(* before or after a verification, with the hash of the tip of the coins   *)
(* or of another block.                                                    *)
LoadFollowsChain == at = "loaded" => FollowsChain

(* A recorded height, and the last one, which is kept beside them, is that *)
(* of a block of the active chain in which the key was active: no activity *)
(* of a disconnected block survives, and IsMasternodeActiveAtHeight, which *)
(* looks at both, answers from the active chain.                           *)
HeightsOnChain ==
  at = "idle" => \A k \in Key : \A h \in reg.heights[k] \cup ({reg.last[k]} \ {0}) :
    h \in 1 .. Height(tip) /\ \E i \in DOMAIN content[Chain[tip][h]].acts :
                               content[Chain[tip][h]].acts[i].key = k

(* RegisterOnChainMasternodePing: "Enforce strict 1-to-1 bijection between *)
(* collateralOutpoint and pubKeyMasternode", through restores and reloads. *)
OneKeyPerCollateral ==
  \A k, l \in Key : reg.coll[k] = reg.coll[l] /\ reg.coll[k] # None => k = l
=============================================================================
