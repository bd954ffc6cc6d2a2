--------------------------- MODULE ChainSelection ---------------------------
(***************************************************************************)
(* The block index of one node and the choice of its active chain          *)
(* (main.cpp): blocks are stored (AcceptBlock, ReceivedBlockTransactions), *)
(* the best candidate is activated step by step (FindMostWorkChain,        *)
(* ActivateBestChainStep), an operator may invalidate or reconsider a      *)
(* block, the index and the coins are flushed to disk, and the node may    *)
(* crash and reload (LoadBlockIndexDB).  Several threads run these         *)
(* operations; cs_main is released between two activation steps, and only  *)
(* there.                                                                  *)
(***************************************************************************)
EXTENDS Integers, FiniteSets

CONSTANTS
  Block,        \* blocks other than the genesis block
  Genesis,
  Parent,       \* Parent[b]: pprev
  Chain,        \* Chain[b]: b and its ancestors
  ChainWork,    \* ChainWork[b]: nChainWork
  Hash,         \* Hash[b]: the block hash as a number
  BadContext,   \* blocks ContextualCheckBlock rejects
  BadConnect,   \* blocks ConnectBlock rejects for a consensus rule
  Stake,        \* proof-of-stake blocks, whose coinstake inputs may be refused
  MaxReorg,     \* -maxreorg
  Thread, Main, \* threads that process blocks; Main also runs start-up
  Free,         \* nobody holds cs_main
  MaxInvalidate, MaxReconsider,   \* operator commands explored
  MaxCrash      \* crashes explored

Index == Block \cup {Genesis}
Height(b) == Cardinality(Chain[b]) - 1

ASSUME TreeAssumption ==
  /\ IsFiniteSet(Block) /\ Genesis \notin Block
  /\ Free \notin Thread /\ Main \in Thread
  /\ Parent \in [Block -> Index]
  /\ Chain \in [Index -> SUBSET Index]
  /\ Chain[Genesis] = {Genesis}
  /\ \A b \in Block : Chain[b] = Chain[Parent[b]] \cup {b} /\ b \notin Chain[Parent[b]]
  /\ ChainWork \in [Index -> Nat] /\ Hash \in [Index -> Nat]
  /\ \A b \in Block : ChainWork[Parent[b]] < ChainWork[b]
  /\ \A a, b \in Index : Hash[a] = Hash[b] => a = b
  /\ BadContext \subseteq Block /\ BadConnect \subseteq Block /\ Stake \subseteq Block
  /\ MaxReorg \in Nat /\ MaxInvalidate \in Nat /\ MaxReconsider \in Nat /\ MaxCrash \in Nat

VARIABLES
  index,        \* mapBlockIndex
  data,         \* entries with BLOCK_HAVE_DATA
  linked,       \* entries with nChainTx # 0
  undo,         \* entries with BLOCK_HAVE_UNDO
  failedValid,  \* entries with BLOCK_FAILED_VALID
  failedChild,  \* entries with BLOCK_FAILED_CHILD
  cand,         \* setBlockIndexCandidates
  unlinked,     \* mapBlocksUnlinked: every b listed under its parent
  dirty,        \* setDirtyBlockIndex
  tip,          \* chainActive.Tip(), and the best block of pcoinsTip
  lock,         \* the thread that holds cs_main, or Free
  at,           \* where each thread is
  goal,         \* its pindexMostWork, or the block it invalidates
  old,          \* pindexOldTip of the running ActivateBestChainStep
  disk,         \* the block index database
  diskTip,      \* the best block of the coins database
  invalidates, reconsiders, crashes

flags == <<failedValid, failedChild>>
store == <<index, data, linked, undo, unlinked>>
control == <<lock, at, goal, old>>
bounds == <<invalidates, reconsiders, crashes>>
vars == <<store, flags, cand, dirty, tip, control, disk, diskTip, bounds>>

-----------------------------------------------------------------------------
(* The order of candidates *)

(* CBlockIndexWorkComparator: less work, or the higher hash at equal work. *)
Worse(a, b) ==
  \/ ChainWork[a] < ChainWork[b]
  \/ ChainWork[a] = ChainWork[b] /\ Hash[a] > Hash[b]

Best(S) == CHOOSE b \in S : \A c \in S : ~Worse(b, c)

Failed == failedValid \cup failedChild

(* Nothing is deleted. *)
PrunedNothing(S, t) == S

(* A rival of equal work is deleted: the first block seen keeps the tip. *)
PrunedFirstSeen(S, t) == {b \in S : b = t \/ ChainWork[t] < ChainWork[b]}

(* PruneBlockIndexCandidates *)
Pruned(S, t) == {b \in S : ~Worse(b, t)}

-----------------------------------------------------------------------------
(* Flushing.  FlushStateToDisk writes the dirty index entries first, and   *)
(* the coins, whose best block is the tip, only after them.                *)

(* The database after the entries D, in the state given, are written.      *)
IndexWritten(D, undone, marked) ==
  LET Written(S, onDisk) == (onDisk \ D) \cup (S \cap D) IN
  [index |-> disk.index \cup D,
   data  |-> Written(data, disk.data),
   undo  |-> Written(undone, disk.undo),
   valid |-> Written(failedValid, disk.valid),
   child |-> Written(marked, disk.child)]

(* Only the coins are written, the index entries wait for the next flush. *)
FlushCoinsOnly ==
  /\ lock = Free
  /\ diskTip' = tip
  /\ UNCHANGED <<store, flags, cand, dirty, tip, control, disk, bounds>>

(* FlushStateToDisk with FLUSH_STATE_PERIODIC or FLUSH_STATE_ALWAYS: the   *)
(* index alone, or the index and then the coins.                           *)
Flush ==
  /\ lock = Free
  /\ dirty # {} \/ diskTip # tip
  /\ disk' = IndexWritten(dirty, undo, failedChild)
  /\ dirty' = {}
  /\ diskTip' \in {diskTip, tip}
  /\ UNCHANGED <<store, flags, cand, tip, control, bounds>>

-----------------------------------------------------------------------------
(* Storing blocks *)

(* Blocks that can be linked once b has its data: b and the waiting        *)
(* descendants it was holding up.                                          *)
Released(b) ==
  {b} \cup {d \in unlinked : b \in Chain[d] /\ Chain[d] \ Chain[b] \subseteq unlinked}

(* Only the block itself is linked, its waiting descendants are forgotten. *)
ReceivedOnlyItself(b) ==
  IF Parent[b] \in linked
    THEN /\ linked' = linked \cup {b}
         /\ cand' = cand \cup (IF Worse(b, tip) THEN {} ELSE {b})
         /\ UNCHANGED unlinked
    ELSE unlinked' = unlinked \cup {b} /\ UNCHANGED <<linked, cand>>

(* ReceivedBlockTransactions.  The parent is never failed here.            *)
ReceivedBlockTransactions(b) ==
  IF Parent[b] \in linked
    THEN /\ linked' = linked \cup Released(b)
         /\ cand' = cand \cup Pruned(Released(b), tip)
         /\ unlinked' = unlinked \ Released(b)
    ELSE unlinked' = unlinked \cup {b} /\ UNCHANGED <<linked, cand>>

(* AcceptBlock up to AcceptBlockHeader: the parent is known and not        *)
(* failed; a known entry is not failed; a new one is not a fork too deep.  *)
HeaderAccepted(b) ==
  /\ Parent[b] \in index \ Failed
  /\ b \in index => b \notin Failed
  /\ b \notin index => Height(tip) - Height(b) < MaxReorg

Enter(t, b) == lock = Free /\ at[t] = "idle" /\ HeaderAccepted(b)

(* ProcessNewBlock of a block whose data is already stored.                *)
AcceptKnown(t, b) ==
  /\ Enter(t, b) /\ b \in data
  /\ at' = [at EXCEPT ![t] = "find"]
  /\ UNCHANGED <<store, flags, cand, dirty, tip, lock, goal, old, disk, diskTip, bounds>>

(* ContextualCheckBlock fails: the new entry is failed from the start.     *)
AcceptInvalid(t, b) ==
  /\ Enter(t, b) /\ b \in BadContext \ data
  /\ index' = index \cup {b}
  /\ failedValid' = failedValid \cup {b}
  /\ dirty' = dirty \cup {b}
  /\ UNCHANGED <<data, linked, undo, unlinked, failedChild, cand, tip, control,
                 disk, diskTip, bounds>>

(* The coinstake checks refuse the block: its header stays in the index.   *)
AcceptHeaderOnly(t, b) ==
  /\ Enter(t, b) /\ b \in Stake \ (BadContext \cup index)
  /\ index' = index \cup {b}
  /\ dirty' = dirty \cup {b}
  /\ UNCHANGED <<data, linked, undo, unlinked, flags, cand, tip, control, disk,
                 diskTip, bounds>>

(* The thread returns once the block is stored, unless it was known before. *)
AcceptStoredReturns(t, b) ==
  /\ Enter(t, b) /\ b \notin BadContext \cup data
  /\ b \in Stake => Parent[b] \in data
  /\ index' = index \cup {b}
  /\ data' = data \cup {b}
  /\ dirty' = dirty \cup {b}
  /\ ReceivedBlockTransactions(b)
  /\ UNCHANGED <<undo, flags, tip, control, disk, diskTip, bounds>>

(* The block is stored, and its thread goes on to ActivateBestChain.  A    *)
(* proof-of-stake block needs its parent's data for the coinstake checks.  *)
AcceptStored(t, b) ==
  /\ Enter(t, b) /\ b \notin BadContext \cup data
  /\ b \in Stake => Parent[b] \in data
  /\ index' = index \cup {b}
  /\ data' = data \cup {b}
  /\ dirty' = dirty \cup {b}
  /\ ReceivedBlockTransactions(b)
  /\ at' = [at EXCEPT ![t] = "find"]
  /\ UNCHANGED <<undo, flags, tip, lock, goal, old, disk, diskTip, bounds>>

-----------------------------------------------------------------------------
(* ActivateBestChain *)

(* The best candidate's blocks outside the active chain, and those of them *)
(* that cannot be used.                                                    *)
NewPart == Chain[Best(cand)] \ Chain[tip]

(* Only the candidate itself is examined, not the path to it. *)
UnusableSelf == {b \in NewPart \cap {Best(cand)} : b \in Failed \/ b \notin data}

Unusable == {b \in NewPart : b \in Failed \/ b \notin data}
Nearest == CHOOSE b \in Unusable : \A c \in Unusable : ChainWork[c] <= ChainWork[b]

Above == {b \in NewPart : ChainWork[b] > ChainWork[Nearest]}

(* FindMostWorkChain, an unusable candidate: it goes, with the blocks down *)
(* to the first unusable one, which are marked (the mark is not dirty) or  *)
(* put back to wait for the missing data.                                  *)
Discard(t) ==
  /\ at[t] = "find" /\ lock \in {Free, t}
  /\ cand # {} /\ Unusable # {}
  /\ lock' = t
  /\ cand' = cand \ (Above \cup {Nearest})
  /\ failedChild' = failedChild \cup (IF Nearest \in Failed THEN Above ELSE {})
  /\ unlinked' = unlinked \cup (IF Nearest \in Failed THEN {} ELSE Above)
  /\ UNCHANGED <<index, data, linked, undo, failedValid, dirty, tip, at, goal,
                 old, disk, diskTip, bounds>>

(* FindMostWorkChain, a usable candidate or none.                          *)
Select(t) ==
  /\ at[t] = "find" /\ lock \in {Free, t}
  /\ cand # {} => Unusable = {}
  /\ IF cand = {} \/ Best(cand) = tip
       THEN /\ at' = [at EXCEPT ![t] = "idle"]
            /\ lock' = Free
            /\ UNCHANGED <<goal, old>>
       ELSE /\ at' = [at EXCEPT ![t] = "step"]
            /\ lock' = t
            /\ goal' = [goal EXCEPT ![t] = Best(cand)]
            /\ old' = tip
  /\ UNCHANGED <<store, flags, cand, dirty, tip, disk, diskTip, bounds>>

(* DisconnectTip, first half: the flush writes the index.  In              *)
(* InvalidateBlock the tip has been marked just before.                    *)
DisconnectWriteIndex(t) ==
  /\ \/ /\ at[t] = "step" /\ tip \notin Chain[goal[t]]
        /\ at' = [at EXCEPT ![t] = "step-coins"]
        /\ disk' = IndexWritten(dirty, undo, failedChild)
        /\ UNCHANGED <<failedChild, cand>>
     \/ /\ at[t] = "invalidate" /\ goal[t] \in Chain[tip]
        /\ at' = [at EXCEPT ![t] = "invalidate-coins"]
        /\ failedChild' = failedChild \cup {tip}
        /\ cand' = cand \ {tip}
        /\ disk' = IndexWritten(dirty \cup {tip}, undo, failedChild')
  /\ dirty' = {}
  /\ UNCHANGED <<store, failedValid, tip, lock, goal, old, diskTip, bounds>>

(* DisconnectTip, second half: the coins are written, and UpdateTip.       *)
DisconnectTip(t) ==
  /\ \/ at[t] = "step-coins" /\ at' = [at EXCEPT ![t] = "step"]
     \/ at[t] = "invalidate-coins" /\ at' = [at EXCEPT ![t] = "invalidate"]
  /\ tip' = Parent[tip]
  /\ diskTip' = Parent[tip]
  /\ UNCHANGED <<store, flags, cand, dirty, lock, goal, old, disk, bounds>>

(* The next block to connect on the way to the goal. *)
Next1(t) == CHOOSE b \in Chain[goal[t]] \ {Genesis} : Parent[b] = tip

Connecting(t) == at[t] = "step" /\ tip \in Chain[goal[t]] \ {goal[t]}

LeaveStep(t) == lock' = Free /\ at' = [at EXCEPT ![t] = "check"]

(* ConnectTip fails: InvalidBlockFound, and the step is over.              *)
ConnectInvalid(t) ==
  /\ Connecting(t) /\ Next1(t) \in BadConnect
  /\ failedValid' = failedValid \cup {Next1(t)}
  /\ dirty' = dirty \cup {Next1(t)}
  /\ cand' = cand \ {Next1(t)}
  /\ LeaveStep(t)
  /\ UNCHANGED <<store, failedChild, tip, goal, old, disk, diskTip, bounds>>

(* The step returns at the goal, or as soon as the chain has improved.     *)
StepDone(t, b) == b = goal[t] \/ ChainWork[b] > ChainWork[old]

(* ConnectTip: the undo data is stored, the chain state is flushed if      *)
(* needed, the tip advances and worse candidates are pruned.               *)
ConnectTip(t) ==
  /\ Connecting(t) /\ Next1(t) \notin BadConnect
  /\ LET b == Next1(t) IN
     /\ undo' = undo \cup {b}
     /\ tip' = b
     /\ cand' = Pruned(cand, b)
     /\ \/ dirty' = dirty \cup {b} /\ UNCHANGED <<disk, diskTip>>
        \/ /\ dirty' = {}
           /\ disk' = IndexWritten(dirty \cup {b}, undo', failedChild)
           /\ diskTip' = b
     /\ IF StepDone(t, b) THEN LeaveStep(t) ELSE UNCHANGED <<lock, at>>
  /\ UNCHANGED <<index, data, linked, unlinked, flags, goal, old, bounds>>

(* The thread leaves after one step. *)
LoopNever(t) ==
  /\ at[t] = "check"
  /\ at' = [at EXCEPT ![t] = "idle"]
  /\ UNCHANGED <<store, flags, cand, dirty, tip, lock, goal, old, disk, diskTip, bounds>>

(* The loop condition, read without cs_main.                               *)
LoopCheck(t) ==
  /\ at[t] = "check"
  /\ at' = [at EXCEPT ![t] = IF goal[t] = tip THEN "idle" ELSE "find"]
  /\ UNCHANGED <<store, flags, cand, dirty, tip, lock, goal, old, disk, diskTip, bounds>>

-----------------------------------------------------------------------------
(* Operator commands *)

(* InvalidateBlock up to its loop.                                         *)
InvalidateBlock(t, b) ==
  /\ invalidates < MaxInvalidate /\ lock = Free /\ at[t] = "idle" /\ b \in index
  /\ failedValid' = failedValid \cup {b}
  /\ dirty' = dirty \cup {b}
  /\ cand' = cand \ {b}
  /\ lock' = t
  /\ at' = [at EXCEPT ![t] = "invalidate"]
  /\ goal' = [goal EXCEPT ![t] = b]
  /\ invalidates' = invalidates + 1
  /\ UNCHANGED <<store, failedChild, tip, old, disk, diskTip, reconsiders, crashes>>

(* The candidates are left as they are when the tip has dropped. *)
RefilledNot == cand

(* Entries as good as the new tip become candidates again.                 *)
Refilled == cand \cup {b \in linked \ Failed : ~Worse(b, tip)}

(* InvalidateBlock after its loop, then ActivateBestChain.                 *)
InvalidateDone(t) ==
  /\ at[t] = "invalidate" /\ goal[t] \notin Chain[tip]
  /\ cand' = Refilled
  /\ at' = [at EXCEPT ![t] = "find"]
  /\ lock' = Free
  /\ UNCHANGED <<store, flags, dirty, tip, goal, old, disk, diskTip, bounds>>

(* ReconsiderBlock: the marks of b, of its descendants and of its          *)
(* ancestors go; only b and descendants become candidates again.           *)
ReconsiderBlock(t, b) ==
  /\ reconsiders < MaxReconsider /\ lock = Free /\ at[t] = "idle" /\ b \in index
  /\ LET below == {x \in index : b \in Chain[x] /\ (x \in Failed \/ x \notin data)}
         cleared == below \cup (Chain[b] \cap Failed) IN
     /\ failedValid' = failedValid \ cleared
     /\ failedChild' = failedChild \ cleared
     /\ dirty' = dirty \cup cleared
     /\ cand' = cand \cup {x \in below \cap linked : Worse(tip, x)}
  /\ at' = [at EXCEPT ![t] = "find"]
  /\ reconsiders' = reconsiders + 1
  /\ UNCHANGED <<store, tip, lock, goal, old, disk, diskTip, invalidates, crashes>>

-----------------------------------------------------------------------------
(* A crash, and LoadBlockIndexDB; start-up then calls ActivateBestChain.   *)
Restart ==
  /\ crashes < MaxCrash
  /\ crashes' = crashes + 1
  /\ index' = disk.index /\ data' = disk.data /\ undo' = disk.undo
  /\ failedValid' = disk.valid /\ failedChild' = disk.child
  /\ linked' = {b \in disk.data : Chain[b] \subseteq disk.data}
  /\ unlinked' = disk.data \ linked'
  /\ tip' = diskTip
  /\ cand' = Pruned(linked' \ (disk.valid \cup disk.child), diskTip)
  /\ dirty' = {}
  /\ lock' = Free
  /\ at' = [t \in Thread |-> IF t = Main THEN "find" ELSE "idle"]
  /\ goal' = [t \in Thread |-> Genesis]
  /\ old' = Genesis
  /\ UNCHANGED <<disk, diskTip, invalidates, reconsiders>>

-----------------------------------------------------------------------------
Init ==
  /\ index = {Genesis} /\ data = {Genesis} /\ linked = {Genesis} /\ undo = {}
  /\ failedValid = {} /\ failedChild = {}
  /\ cand = {Genesis} /\ unlinked = {} /\ dirty = {}
  /\ tip = Genesis
  /\ lock = Free
  /\ at = [t \in Thread |-> "idle"]
  /\ goal = [t \in Thread |-> Genesis]
  /\ old = Genesis
  /\ disk = [index |-> {Genesis}, data |-> {Genesis}, undo |-> {}, valid |-> {}, child |-> {}]
  /\ diskTip = Genesis
  /\ invalidates = 0 /\ reconsiders = 0 /\ crashes = 0

Accept(t, b) ==
  AcceptKnown(t, b) \/ AcceptInvalid(t, b) \/ AcceptHeaderOnly(t, b) \/ AcceptStored(t, b)

(* What a thread does on its own once it is inside an operation.           *)
Proceed(t) ==
  \/ Discard(t) \/ Select(t)
  \/ DisconnectWriteIndex(t) \/ DisconnectTip(t)
  \/ ConnectInvalid(t) \/ ConnectTip(t) \/ LoopCheck(t)
  \/ InvalidateDone(t)

Next ==
  \/ \E t \in Thread : Proceed(t)
  \/ \E t \in Thread, b \in Block :
       Accept(t, b) \/ InvalidateBlock(t, b) \/ ReconsiderBlock(t, b)
  \/ Flush
  \/ Restart

Spec == Init /\ [][Next]_vars

(* Peers hand over the missing blocks until all are stored, and no thread  *)
(* is kept out of cs_main for ever.                                        *)
FairSpec ==
  /\ Spec
  /\ \A t \in Thread : SF_vars(Proceed(t))
  /\ SF_vars(\E t \in Thread, b \in Block : AcceptStored(t, b))

-----------------------------------------------------------------------------
(* Properties *)

Location == {"idle", "find", "step", "step-coins", "invalidate",
             "invalidate-coins", "check"}

(* Every variable has its type. *)
TypeOK ==
  /\ index \subseteq Index /\ data \subseteq index /\ linked \subseteq data
  /\ undo \subseteq data /\ unlinked \subseteq data
  /\ failedValid \subseteq index /\ failedChild \subseteq index
  /\ cand \subseteq linked /\ dirty \subseteq index /\ tip \in linked
  /\ lock \in Thread \cup {Free}
  /\ at \in [Thread -> Location]
  /\ goal \in [Thread -> Index] /\ old \in Index
  /\ disk \in [index : SUBSET Index, data : SUBSET Index, undo : SUBSET Index,
                valid : SUBSET Index, child : SUBSET Index]
  /\ diskTip \in Index
  /\ invalidates \in 0..MaxInvalidate /\ reconsiders \in 0..MaxReconsider
  /\ crashes \in 0..MaxCrash

(* No thread is inside an operation. *)
Settled == lock = Free /\ \A t \in Thread : at[t] = "idle"

(* CheckBlockIndex: nChainTx is set exactly when the block and all its     *)
(* ancestors have their data, and mapBlocksUnlinked lists exactly the      *)
(* other blocks with data, whatever order the data arrived in.             *)
LinksExact ==
  /\ linked = {b \in index : Chain[b] \subseteq data}
  /\ unlinked = data \ linked

(* When no activation is under way, no stored chain free of failed blocks  *)
(* sorts above the tip: ActivateBestChain leaves nothing better behind,    *)
(* whatever its threads interleaved with.                                  *)
BestTip ==
  Settled => \A b \in linked : Chain[b] \cap Failed = {} => ~Worse(tip, b)

(* FindMostWorkChain stops at the active chain because "we know all blocks *)
(* in it are valid already": whenever cs_main is free, no block of the     *)
(* active chain is failed, and each can be disconnected with its undo data.*)
ActiveChainUsable ==
  lock = Free => Chain[tip] \subseteq data \ Failed /\ Chain[tip] \ {Genesis} \subseteq undo

(* PruneBlockIndexCandidates asserts that a candidate is left: either the  *)
(* current tip or a successor of it we're working towards.  The set may be *)
(* empty only inside InvalidateBlock, which refills it.                    *)
CandidateLeft ==
  (\A t \in Thread : at[t] \notin {"invalidate", "invalidate-coins"}) => cand # {}

(* CheckBlockIndex on setBlockIndexCandidates: every entry is linked and   *)
(* no worse than the tip, and every such entry without invalid ancestors   *)
(* is there.                                                               *)
CandidatesMatch ==
  /\ \A b \in cand : b \in linked /\ ~Worse(b, tip)
  /\ \A b \in linked : ~Worse(b, tip) /\ Chain[b] \cap failedValid = {} => b \in cand

(* The candidates match when no activation is under way. *)
CandidatesSettled == Settled => CandidatesMatch

(* Whenever the node crashes, the coins on disk belong to a block whose    *)
(* whole chain is in the index on disk, with data and undo data, because   *)
(* FlushStateToDisk writes the index before the coins.                     *)
DiskUsable ==
  /\ Chain[diskTip] \subseteq disk.data
  /\ Chain[diskTip] \ {Genesis} \subseteq disk.undo
  /\ \A b \in disk.index : Chain[b] \subseteq disk.index

(* The best tip of all the blocks that pass every check: a function of the *)
(* set of blocks alone.                                                    *)
ValidBlocks == {b \in Index : Chain[b] \cap (BadContext \cup BadConnect) = {}}

(* Once every valid block is stored and activation is over, the tip does   *)
(* not depend on the order of arrival: the tie-breaker "makes every node   *)
(* converge on the same equal-work tip".                                   *)
OrderIndependent ==
  Settled /\ ValidBlocks \subseteq data => tip = Best(ValidBlocks)

(* A node that keeps receiving blocks ends on that tip and stays there.    *)
Converges == <>[](tip = Best(ValidBlocks))
=============================================================================
