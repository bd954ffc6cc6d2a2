------------------------------ MODULE BurnCache ------------------------------
(***************************************************************************)
(* The burn cache of a node (kernel.cpp) and the steps of block connection *)
(* that edit and save it (main.cpp).  A burn gives the address that paid   *)
(* for it stake weight that decays with the height, so the cache has to be *)
(* a function of the active chain: two nodes that count different burns    *)
(* accept different stakes.                                                *)
(*                                                                         *)
(* The cache is edited burn by burn while a block is connected or          *)
(* disconnected, written to the block database after every burn with the   *)
(* hash of a block, and written again by FlushStateToDisk before the       *)
(* coins.  A crash may fall between any two of these steps.                *)
(***************************************************************************)
EXTENDS Integers, Sequences, FiniteSetsExt, Functions

CONSTANTS
    Block, Genesis,   \* the blocks of the tree
    Parent,           \* [Block -> Block], pprev; the parent of Genesis is Genesis
    Dest, Amount,     \* addresses and amounts that burns name
    Burns,            \* [Block -> Seq([dest, amount])], the burns of a block in order
    Bad,              \* blocks whose connection fails
    FailsAfter,       \* [Bad -> Nat], how many burns are counted before it does
    Decay,            \* nBurnDecayBlocks
    MaxCrash          \* bound on the number of crashes

VARIABLES
    tip,      \* chainActive.Tip()
    burns,    \* mapAddressBurns, as a bag: how often each entry is in it
    disk,     \* the saved cache: [tag, burns], with the entries that were spoiled then
    dbTip,    \* the best block of the coin database
    work,     \* the step under way, with cs_main held
    spoiled,  \* history: the entries whose count may be wrong, because of a block
              \* that was refused, a verification that was stopped, a crash inside
              \* the flush of a disconnection, or a start that dropped old burns
    failed,   \* the blocks marked BLOCK_FAILED_VALID
    failedDb, \* and those marked so in the block database
    crashes   \* number of crashes so far

vars == <<tip, burns, disk, dbTip, work, spoiled, failed, failedDb, crashes>>

Height ==
    LET up[b \in Block] == IF b = Genesis THEN 0 ELSE up[Parent[b]] + 1
    IN  [b \in Block |-> up[b]]

Chain ==
    LET up[b \in Block] == {b} \cup (IF b = Genesis THEN {} ELSE up[Parent[b]])
    IN  [b \in Block |-> up[b]]

Heights == {Height[b] : b \in Block}

Entry == [dest : Dest, amount : Amount, height : Heights]

EntryOf(b, i) ==
    [dest |-> Burns[b][i].dest, amount |-> Burns[b][i].amount, height |-> Height[b]]

(* Where the blocks in bs burn: a block and a place in its list of burns.  *)
Places(bs) == UNION {{b} \X DOMAIN Burns[b] : b \in bs}

(* The cache of a node that counted exactly the burns of the blocks in bs. *)
BurnsOf(bs) ==
    LET ps == Places(bs)
    IN  [e \in Entry |-> Cardinality({p \in ps : EntryOf(p[1], p[2]) = e})]

EntriesOf(b) == {EntryOf(b, i) : i \in DOMAIN Burns[b]}

Idle == [op |-> "idle", block |-> Genesis, done |-> 0]

ASSUME BurnAssumption ==
    /\ Genesis \in Block /\ Bad \subseteq Block
    /\ Parent \in [Block -> Block]
    /\ Amount \subseteq Nat
    /\ Burns \in [Block -> Seq([dest : Dest, amount : Amount])] /\ Burns[Genesis] = <<>>
    /\ Decay \in Nat \ {0} /\ MaxCrash \in Nat
    /\ \A b \in Bad : FailsAfter[b] \in 0 .. Len(Burns[b])

(* Parents lead back to the genesis block, so that the two recursions end. *)
ASSUME TreeAssumption ==
    /\ Height \in [Block -> Nat] /\ Chain \in [Block -> SUBSET Block]
    /\ Height[Genesis] = 0 /\ Chain[Genesis] = {Genesis}
    /\ \A b \in Block \ {Genesis} : /\ Height[b] = Height[Parent[b]] + 1
                                   /\ Chain[b] = {b} \cup Chain[Parent[b]]

(***************************************************************************)
(* The operations of kernel.cpp.                                           *)
(***************************************************************************)
AddBurnToCache(e) == [burns EXCEPT ![e] = @ + 1]

(* std::remove_if drops every entry of the address with this amount and    *)
(* height.                                                                 *)
RemoveBurnFromCache(m, e) == [m EXCEPT ![e] = 0]

(* What one entry adds to the weight of its address for a block at height  *)
(* h, and the weight of an address (GetActiveBurnWeight).                  *)
EntryWeight(e, h) ==
    IF h - e.height \in 0 .. Decay - 1
    THEN (e.amount * 5 * (Decay - (h - e.height))) \div Decay
    ELSE 0

GetActiveBurnWeight(m, d, h) ==
    SumFunction([e \in {x \in Entry : x.dest = d} |-> m[e] * EntryWeight(e, h)])

MinBurnHeight(t) == Max({0, Height[t] - Decay})

LoadWithoutScan(saved, t) ==
    IF saved.tag \in Chain[t]
    THEN [e \in Entry |-> IF e.height \in MinBurnHeight(t) .. Height[saved.tag] THEN saved.burns[e] ELSE 0]
    ELSE BurnsOf({b \in Chain[t] : Height[b] >= MinBurnHeight(t)})

(* InitializeBurnCache: the saved entries up to the height of the block    *)
(* they were saved with and the burns of the blocks above it, or, when     *)
(* that block is not on the chain, the burns of the blocks that still have *)
(* weight.                                                                 *)
InitializeBurnCache(saved, t) ==
    IF saved.tag \in Chain[t]
    THEN LET kept  == {e \in Entry : e.height \in MinBurnHeight(t) .. Height[saved.tag]}
             delta == BurnsOf(Chain[t] \ Chain[saved.tag])
         IN  [e \in Entry |-> (IF e \in kept THEN saved.burns[e] ELSE 0) + delta[e]]
    ELSE BurnsOf({b \in Chain[t] : Height[b] >= MinBurnHeight(t)})

(* What a node that only ever connected the chain of t counts. *)
Replayed(t) == BurnsOf(Chain[t])

(* A start drops the burns of the chain that have lost their weight, and   *)
(* keeps what the saved cache has wrong when it builds on it.              *)
LoadedSpoiled(saved, t) ==
    {e \in Entry : e.height < MinBurnHeight(t) /\ Replayed(t)[e] > 0}
        \cup (IF saved.tag \in Chain[t] THEN saved.spoiled ELSE {})

(***************************************************************************)
(* Connecting a block.                                                     *)
(***************************************************************************)
Init ==
    /\ tip = Genesis /\ dbTip = Genesis
    /\ burns = BurnsOf({})
    /\ disk = [tag |-> Genesis, burns |-> BurnsOf({}), spoiled |-> {}]
    /\ work = Idle
    /\ spoiled = {} /\ failed = {} /\ failedDb = {} /\ crashes = 0

BeginConnect(b) ==
    /\ work = Idle
    /\ b # Genesis /\ Parent[b] = tip /\ b \notin failed
    /\ work' = [op |-> "connect", block |-> b, done |-> 0]
    /\ UNCHANGED <<tip, burns, disk, dbTip, spoiled, failed, failedDb, crashes>>

(* How many burns of b the transaction loop of ConnectBlock gets to. *)
Reached(b) == IF b \in Bad THEN FailsAfter[b] ELSE Len(Burns[b])

(* ConnectBlock counts a burn before the block is known to be valid, and   *)
(* saves the cache with the hash of that block.                            *)
CountBurn ==
    /\ work.op = "connect"
    /\ work.done < Reached(work.block)
    /\ burns' = AddBurnToCache(EntryOf(work.block, work.done + 1))
    /\ disk' = [tag |-> work.block, burns |-> burns', spoiled |-> spoiled]
    /\ work' = [work EXCEPT !.done = @ + 1]
    /\ UNCHANGED <<tip, dbTip, spoiled, failed, failedDb, crashes>>

(* ConnectBlock returns false: the view of the coins is dropped and the    *)
(* block is marked (InvalidBlockFound), but the burns it counted stay.     *)
Reject ==
    /\ work.op = "connect"
    /\ work.block \in Bad
    /\ work.done = Reached(work.block)
    /\ work' = Idle
    /\ spoiled' = spoiled \cup {EntryOf(work.block, i) : i \in 1 .. work.done}
    /\ failed' = failed \cup {work.block}
    /\ UNCHANGED <<tip, burns, disk, dbTip, failedDb, crashes>>

Counted ==
    /\ work.op = "connect"
    /\ work.block \notin Bad
    /\ work.done = Reached(work.block)

(* The end of ConnectTip when no flush is due. *)
ConnectTip ==
    /\ Counted
    /\ tip' = work.block
    /\ work' = Idle
    /\ UNCHANGED <<burns, disk, dbTip, spoiled, failed, failedDb, crashes>>

(***************************************************************************)
(* Disconnecting the tip.                                                  *)
(***************************************************************************)
BeginDisconnect ==
    /\ work = Idle
    /\ tip # Genesis
    /\ work' = [op |-> "disconnect", block |-> Parent[tip], done |-> Len(Burns[tip])]
    /\ UNCHANGED <<tip, burns, disk, dbTip, spoiled, failed, failedDb, crashes>>

UncountKeepsTag ==
    /\ work.op = "disconnect"
    /\ work.done > 0
    /\ burns' = RemoveBurnFromCache(burns, EntryOf(tip, work.done))
    /\ disk' = [disk EXCEPT !.burns = burns']
    /\ work' = [work EXCEPT !.done = @ - 1]
    /\ UNCHANGED <<tip, dbTip, spoiled, failed, failedDb, crashes>>

(* DisconnectBlock goes through the transactions backwards and saves the   *)
(* cache with the hash of the previous block.                              *)
UncountBurn ==
    /\ work.op = "disconnect"
    /\ work.done > 0
    /\ burns' = RemoveBurnFromCache(burns, EntryOf(tip, work.done))
    /\ disk' = [tag |-> Parent[tip], burns |-> burns', spoiled |-> spoiled]
    /\ work' = [work EXCEPT !.done = @ - 1]
    /\ UNCHANGED <<tip, dbTip, spoiled, failed, failedDb, crashes>>

(***************************************************************************)
(* FlushStateToDisk: the block database with the cache under the hash of   *)
(* chainActive.Tip(), which is not updated yet, then the coins.            *)
(***************************************************************************)
FlushDue ==
    \/ work = Idle
    \/ Counted
    \/ work.op = "disconnect" /\ work.done = 0

(* Until the coins are written too, a cache without the burns of the tip   *)
(* is saved with the hash of the tip.                                      *)
FlushIndex ==
    /\ FlushDue
    /\ disk' = [tag |-> tip, burns |-> burns,
                spoiled |-> spoiled \cup (IF work.op = "disconnect" THEN EntriesOf(tip) ELSE {})]
    /\ work' = [op |-> "flush", block |-> (IF work = Idle THEN tip ELSE work.block), done |-> 0]
    /\ failedDb' = failed
    /\ UNCHANGED <<tip, burns, dbTip, spoiled, failed, crashes>>

(* The coins are at the block that was connected or disconnected to. *)
FlushCoins ==
    /\ work.op = "flush"
    /\ dbTip' = work.block
    /\ work' = [work EXCEPT !.op = "flushed"]
    /\ UNCHANGED <<tip, burns, disk, spoiled, failed, failedDb, crashes>>

(* A periodic write of the block index leaves the coins for later. *)
PeriodicWrite ==
    /\ work.op = "flush" /\ work.block = tip
    /\ work' = Idle
    /\ UNCHANGED <<tip, burns, disk, dbTip, spoiled, failed, failedDb, crashes>>

UpdateTip ==
    /\ work.op = "flushed"
    /\ tip' = work.block
    /\ work' = Idle
    /\ UNCHANGED <<burns, disk, dbTip, spoiled, failed, failedDb, crashes>>

(***************************************************************************)
(* verifychain and restarts.                                               *)
(***************************************************************************)
(* VerifyDB disconnects the blocks from the tip down to, not including, b, *)
(* on a view of its own, and connects them again unless the node is being  *)
(* stopped.  Neither saves the cache (fVerifyingBlocks), but both edit it. *)
VerifyDB(b, stopped) ==
    /\ work = Idle
    /\ b \in Chain[tip] \ {tip}
    /\ LET checked == BurnsOf(Chain[tip] \ Chain[b])
           removed == [e \in Entry |-> IF checked[e] > 0 THEN 0 ELSE burns[e]]
       IN  \/ /\ stopped
              /\ burns' = removed
              /\ spoiled' = spoiled \cup {e \in Entry : checked[e] > 0}
           \/ /\ ~ stopped
              /\ burns' = [e \in Entry |-> removed[e] + checked[e]]
              /\ spoiled' = spoiled
    /\ UNCHANGED <<tip, disk, dbTip, work, failed, failedDb, crashes>>

(* A crash and the next start, which saves the cache when it scanned. *)
Restart ==
    /\ crashes < MaxCrash
    /\ crashes' = crashes + 1
    /\ tip' = dbTip
    /\ burns' = InitializeBurnCache(disk, dbTip)
    /\ spoiled' = LoadedSpoiled(disk, dbTip)
    /\ disk' = IF disk.tag = dbTip THEN disk ELSE [tag |-> dbTip, burns |-> burns', spoiled |-> spoiled']
    /\ failed' = failedDb
    /\ work' = Idle
    /\ UNCHANGED <<dbTip, failedDb>>

Next ==
    \/ \E b \in Block : BeginConnect(b)
    \/ CountBurn
    \/ Reject
    \/ ConnectTip
    \/ BeginDisconnect
    \/ UncountBurn
    \/ FlushIndex
    \/ FlushCoins
    \/ PeriodicWrite
    \/ UpdateTip
    \/ \E b \in Block, stopped \in BOOLEAN : VerifyDB(b, stopped)
    \/ Restart

Spec == Init /\ [][Next]_vars

-----------------------------------------------------------------------------
(***************************************************************************)
(* Properties.                                                             *)
(***************************************************************************)
(* The variables have their types: counts and heights are never negative.  *)
TypeOK ==
    /\ tip \in Block /\ dbTip \in Block
    /\ burns \in [Entry -> Nat]
    /\ disk \in [tag : Block, burns : [Entry -> Nat], spoiled : SUBSET Entry]
    /\ work \in [op : {"idle", "connect", "disconnect", "flush", "flushed"},
                 block : Block, done : Nat]
    /\ spoiled \in SUBSET Entry
    /\ failed \in SUBSET Bad /\ failedDb \in SUBSET Bad
    /\ crashes \in 0 .. MaxCrash

(* m gives every address the weight that it has for the block after t,     *)
(* unless one of the entries in bad has weight there.                      *)
SameWeight(m, t, bad) ==
    \A d \in Dest :
        (\A e \in bad : e.dest = d => EntryWeight(e, Height[t] + 1) = 0) =>
            GetActiveBurnWeight(m, d, Height[t] + 1)
                = GetActiveBurnWeight(Replayed(t), d, Height[t] + 1)

(* Whenever cs_main is free, an address has the stake weight that the      *)
(* burns of the active chain give it, whatever was disconnected, verified, *)
(* saved or reloaded before: refused blocks, stopped verifications and     *)
(* starts only harm the addresses whose own burns they spoiled, and only   *)
(* as long as those burns have weight.  The burns that a start drops have  *)
(* none until three or more blocks below its tip are undone.               *)
WeightFollowsChain == work = Idle => SameWeight(burns, tip, spoiled)

(* At every moment, a crash would reload a cache that gives an address its *)
(* weight on the chain that the coin database would start from, but for    *)
(* the entries that the saved cache has wrong: those spoiled when it was   *)
(* saved and, inside the flush of a disconnection, those of the tip.       *)
SavedBurnsReload ==
    SameWeight(InitializeBurnCache(disk, dbTip), dbTip, LoadedSpoiled(disk, dbTip))

(* No burn is counted, while no step is under way, that is not the burn of *)
(* a block on the active chain: a block that was refused left nothing in   *)
(* memory.                                                                 *)
NoStrayBurn ==
    work = Idle => \A e \in Entry : burns[e] <= Replayed(tip)[e]
=============================================================================
