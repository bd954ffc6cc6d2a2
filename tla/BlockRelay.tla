----------------------------- MODULE BlockRelay -----------------------------
(***************************************************************************)
(* How blocks reach a node (main.cpp): the blocks in flight from each      *)
(* peer, the queue of blocks whose timestamp is still too new, and the     *)
(* compact blocks whose transactions are being asked for.                  *)
(*                                                                         *)
(* One thread handles messages; it also releases queued blocks and asks    *)
(* for missing ones.  The socket thread creates and finalizes peers, and   *)
(* other threads (staking, RPC) hand in blocks of their own, at any time.  *)
(* Peers send what they like: a block may come unasked, twice, late or     *)
(* never.  The HEADERS handlers are left out: HeadersFirstSyncingActive()  *)
(* is false on every network.                                              *)
(***************************************************************************)
EXTENDS Integers, FiniteSets

CONSTANTS
    Block, Genesis,   \* the blocks of the tree
    Parent,           \* [Block -> Block], hashPrevBlock; the parent of Genesis is Genesis
    Rank,             \* [Block -> Nat], the order of the block hashes
    Time,             \* [Block -> Nat], nTime
    Signed,           \* blocks that carry the fields a deferred block must have
    Refusable,        \* blocks that the checks before the header's may refuse, for what
                      \* the tip and the masternode registry are at that time
    Marked,           \* blocks that AcceptBlock marks invalid once their header is in the index
    Unmarked,         \* blocks that AcceptBlock may refuse without marking them
    Peer,             \* the peers that may be connected
    Preferred,        \* the peers preferred for download
    Told,             \* the blocks that peers announce
    Compact,          \* the blocks that peers send as compact blocks
    None,             \* no block, no peer
    Drift,            \* FutureBlockTimeDrift
    Horizon,          \* how far ahead a deferred block may be, 15 minutes
    FutureCap,        \* limit of mapFutureBlocks, 64
    PartialCap,       \* limit of mapPartiallyDownloadedBlocks, 64
    MaxInTransit,     \* MAX_BLOCKS_IN_TRANSIT_PER_PEER
    Window,           \* BLOCK_DOWNLOAD_WINDOW
    MaxNow,           \* bound on the clock
    MaxQueued         \* bound on nQueuedValidatedHeaders

VARIABLES
    now,       \* GetAdjustedTime()
    index,     \* mapBlockIndex
    data,      \* the blocks with BLOCK_HAVE_DATA
    tip,       \* chainActive.Tip()
    flying,    \* mapBlocksInFlight: the peer each block was asked from, or None
    queued,    \* nQueuedValidatedHeaders
    peers,     \* the keys of mapNodeState
    leaving,   \* the peers with fDisconnect
    known,     \* what each peer is known to have, and the last block in common
    list,      \* vBlocksInFlight of each peer; its order only decides what times out
    count,     \* nBlocksInFlight of each peer
    stalling,  \* the peers with nStallingSince # 0
    future,    \* the keys of mapFutureBlocks
    taken,     \* toProcess, while ProcessFutureBlocks is under way
    partial    \* the keys of mapPartiallyDownloadedBlocks

chainVars == <<index, data, tip>>
flightVars == <<flying, queued, list, count, stalling>>
peerVars == <<peers, leaving, known>>
vars == <<now, chainVars, flightVars, peerVars, future, taken, partial>>

Height ==
    LET up[b \in Block] == IF b = Genesis THEN 0 ELSE up[Parent[b]] + 1
    IN  [b \in Block |-> up[b]]

Chain ==
    LET up[b \in Block] == {b} \cup (IF b = Genesis THEN {} ELSE up[Parent[b]])
    IN  [b \in Block |-> up[b]]

ASSUME RelayAssumption ==
    /\ Genesis \in Block /\ None \notin Block /\ None \notin Peer
    /\ Parent \in [Block -> Block] /\ Time \in [Block -> Nat] /\ Rank \in [Block -> Nat]
    /\ IsFiniteSet(Block) /\ Told \subseteq Block /\ Compact \subseteq Block
    /\ MaxInTransit \in Nat /\ FutureCap \in Nat \ {0} /\ PartialCap \in Nat \ {0}
    /\ Window \in Nat /\ Drift \in Nat /\ MaxQueued \in Nat /\ MaxNow \in Nat

(* Parents lead back to the genesis block, so that the two recursions end. *)
ASSUME TreeAssumption ==
    /\ Height \in [Block -> Nat] /\ Chain \in [Block -> SUBSET Block]
    /\ Height[Genesis] = 0 /\ Chain[Genesis] = {Genesis}
    /\ \A b \in Block \ {Genesis} : /\ Height[b] = Height[Parent[b]] + 1
                                   /\ Chain[b] = {b} \cup Chain[Parent[b]]

Known == [best : Block \cup {None},     \* pindexBestKnownBlock
          unknown : Block \cup {None},  \* hashLastUnknownBlock
          common : Block \cup {None}]   \* pindexLastCommonBlock

NothingKnown == [best |-> None, unknown |-> None, common |-> None]

(* nChainTx # 0: the block and all its ancestors have data. *)
Linked(d) == {b \in d : Chain[b] \subseteq d}

Highest(bs) == {b \in bs : \A c \in bs : Height[c] <= Height[b]}

Lowest(bs) == {b \in bs : \A c \in bs : Height[b] <= Height[c]}

(***************************************************************************)
(* Blocks in flight.                                                       *)
(***************************************************************************)
Owed(p, bs) == {b \in bs : flying[b] = p}

ReceivedStillStalling(bs) ==
    /\ flying' = [b \in Block |-> IF b \in bs THEN None ELSE flying[b]]
    /\ list' = [p \in Peer |-> list[p] \ Owed(p, bs)]
    /\ count' = [p \in Peer |-> count[p] - Cardinality(Owed(p, bs))]
    /\ queued' = queued - Cardinality({b \in bs : flying[b] # None})
    /\ UNCHANGED stalling

(* MarkBlockAsReceived of the blocks in bs. *)
MarkBlockAsReceived(bs) ==
    /\ flying' = [b \in Block |-> IF b \in bs THEN None ELSE flying[b]]
    /\ list' = [p \in Peer |-> list[p] \ Owed(p, bs)]
    /\ count' = [p \in Peer |-> count[p] - Cardinality(Owed(p, bs))]
    /\ queued' = queued - Cardinality({b \in bs : flying[b] # None})
    /\ stalling' = {p \in stalling : Owed(p, bs) = {}}

(* MarkBlockAsInFlight of the blocks in bs, which first takes them off the *)
(* list of another peer; then the staller, if there is one, is noted.      *)
MarkBlockAsInFlight(p, bs, staller) ==
    LET free == {b \in bs : flying[b] = None}
        kept(q) == (list[q] \ Owed(q, bs)) \cup (IF q = p THEN bs ELSE {})
    IN  /\ flying' = [b \in Block |-> IF b \in bs THEN p ELSE flying[b]]
        /\ list' = [q \in Peer |-> kept(q)]
        /\ count' = [q \in Peer |-> count[q] - Cardinality(Owed(q, bs))
                                     + (IF q = p THEN Cardinality(bs) ELSE 0)]
        /\ queued' = queued + Cardinality(free)
        /\ stalling' = {q \in stalling : Owed(q, bs) = {}} \cup
                       (IF count'[p] = 0 THEN staller ELSE {})

FinalizeForgetful(p) ==
    /\ p \in leaving
    /\ list' = [list EXCEPT ![p] = {}] /\ count' = [count EXCEPT ![p] = 0]
    /\ stalling' = stalling \ {p}
    /\ known' = [known EXCEPT ![p] = NothingKnown]
    /\ peers' = peers \ {p} /\ leaving' = leaving \ {p}
    /\ UNCHANGED <<flying, queued, now, chainVars, future, taken, partial>>

(* FinalizeNode, once nobody uses the peer any more. *)
FinalizeNode(p) ==
    /\ p \in leaving
    /\ flying' = [b \in Block |-> IF b \in list[p] THEN None ELSE flying[b]]
    /\ list' = [list EXCEPT ![p] = {}] /\ count' = [count EXCEPT ![p] = 0]
    /\ stalling' = stalling \ {p}
    /\ known' = [known EXCEPT ![p] = NothingKnown]
    /\ peers' = peers \ {p} /\ leaving' = leaving \ {p}
    /\ UNCHANGED <<queued, now, chainVars, future, taken, partial>>

InitializeNode(p) ==
    /\ p \notin peers
    /\ peers' = peers \cup {p}
    /\ UNCHANGED <<now, chainVars, flightVars, leaving, known, future, taken, partial>>

(* The connection is closed by the peer, or the peer is to be banned. *)
Leave(p) ==
    /\ p \in peers \ leaving
    /\ leaving' = leaving \cup {p}
    /\ UNCHANGED <<now, chainVars, flightVars, peers, known, future, taken, partial>>

(***************************************************************************)
(* Asking for blocks.                                                      *)
(***************************************************************************)
Better(b, c) == IF b = None \/ Height[c] >= Height[b] THEN c ELSE b

(* ProcessBlockAvailability *)
Available(k) ==
    IF k.unknown \in index
    THEN [k EXCEPT !.best = Better(k.best, k.unknown), !.unknown = None]
    ELSE k

(* UpdateBlockAvailability *)
Announced(k, b) ==
    IF b \in index
    THEN [Available(k) EXCEPT !.best = Better(@, b)]
    ELSE [Available(k) EXCEPT !.unknown = b]

(* The last common block is a guess at first, and goes back when the peer  *)
(* has changed branches.                                                   *)
LastCommon(k) ==
    LET guess == IF k.common # None THEN {k.common}
                 ELSE {b \in Chain[tip] : Height[b] <= Height[k.best]}
        both  == Chain[CHOOSE b \in Highest(guess) : TRUE] \cap Chain[k.best]
    IN  CHOOSE b \in Highest(both) : TRUE

(* Where FindNextBlocksToDownload looks: the blocks from the common one to *)
(* one past the window, up to the first that is invalid.                   *)
Walk(k) ==
    LET path == {b \in Block : /\ b \in Chain[k.best] \ Chain[k.common]
                               /\ Height[b] <= Height[k.common] + Window + 1}
    IN  {b \in path : Chain[b] \cap path \cap Marked = {}}

(* The first n blocks in the window that are neither here nor in flight. *)
Fetch(k, n) ==
    LET wanted == {b \in Walk(k) \ data :
                      flying[b] = None /\ Height[b] <= Height[k.common] + Window}
    IN  {b \in wanted : Cardinality({c \in wanted : Height[c] < Height[b]}) < n}

(* The peer that keeps the window from moving: nothing can be asked for,   *)
(* though the block past the window could, and the first block on the way  *)
(* is in flight from another peer.                                         *)
Staller(p, k) ==
    IF Fetch(k, 1) # {} \/ (\A b \in Walk(k) \ data : flying[b] # None) THEN {}
    ELSE {flying[b] : b \in Lowest({c \in Walk(k) \ data : flying[c] # None})} \ {p}

(* What is known of the peer once FindNextBlocksToDownload is done. *)
Advanced(k) ==
    [k EXCEPT !.common = CHOOSE b \in Highest({k.common} \cup (Walk(k) \cap Linked(data))) : TRUE]

Handling(p) == taken = {} /\ p \in peers \ leaving

(* The part of SendMessages that asks a peer for blocks. *)
SendMessages(p) ==
    LET seen == Available(known[p])
        k    == [seen EXCEPT !.common = LastCommon(seen)]
        bs   == Fetch(k, MaxInTransit - count[p])
    IN  /\ Handling(p)
        /\ p \in Preferred \/ Preferred \cap peers = {}
        /\ count[p] < MaxInTransit
        /\ IF seen.best = None \/ Height[seen.best] < Height[tip]
           THEN /\ known' = [known EXCEPT ![p] = seen]
                /\ UNCHANGED flightVars
           ELSE /\ queued + Cardinality(bs) <= MaxQueued
                /\ known' = [known EXCEPT ![p] = Advanced(k)]
                /\ MarkBlockAsInFlight(p, bs, Staller(p, k))
        /\ UNCHANGED <<now, chainVars, peers, leaving, future, taken, partial>>

TimeOutStallers(p) ==
    /\ Handling(p)
    /\ p \in stalling
    /\ leaving' = leaving \cup {p}
    /\ UNCHANGED <<now, chainVars, flightVars, peers, known, future, taken, partial>>

(* SendMessages gives up on a peer that stalls or owes a block for long. *)
TimeOut(p) ==
    /\ Handling(p)
    /\ p \in stalling \/ list[p] # {}
    /\ leaving' = leaving \cup {p}
    /\ UNCHANGED <<now, chainVars, flightVars, peers, known, future, taken, partial>>

(* An INV of a block.  It is asked for without being put in flight. *)
Announce(p, b) ==
    /\ Handling(p)
    /\ known' = [known EXCEPT ![p] = Announced(@, b)]
    /\ UNCHANGED <<now, chainVars, flightVars, peers, leaving, future, taken, partial>>

(***************************************************************************)
(* Receiving blocks.                                                       *)
(***************************************************************************)
TooNew(b) == Time[b] > now + Drift

(* The blocks that are too new at some time; others are never deferred. *)
Deferrable == {b \in Block : Time[b] > Drift}

(* AcceptBlock and ActivateBestChain: the block is refused before its      *)
(* header is in the index (CheckWork, CheckProofOfStake, the time), or     *)
(* after that, or it is stored and the best linked block becomes the tip.  *)
(* That its transactions connect is taken for granted.                     *)
AcceptBlock(b) ==
    \/ /\ b \in Refusable \/ (b \notin index /\ (TooNew(b) \/ Parent[b] \in Marked))
       /\ UNCHANGED chainVars
    \/ /\ b \in index \/ (~TooNew(b) /\ Parent[b] \notin Marked)
       /\ b \in Marked \cup (Unmarked \ data)
       /\ index' = index \cup {b}
       /\ UNCHANGED <<data, tip>>
    \/ /\ b \in index \/ (~TooNew(b) /\ Parent[b] \notin Marked)
       /\ b \notin Marked
       /\ index' = index \cup {b}
       /\ data' = data \cup {b}
       /\ LET best == Highest(Linked(data')) IN
          tip' \in IF tip \in best THEN {tip} ELSE best

StoreInFlight(b) ==
    /\ Parent[b] \in index
    /\ AcceptBlock(b)
    /\ UNCHANGED flightVars

(* ProcessNewBlock: a block that CheckBlock refuses is no longer in flight *)
(* either.                                                                 *)
ProcessNewBlock(b) ==
    /\ Parent[b] \in index
    /\ MarkBlockAsReceived({b})
    /\ \/ b \in Refusable /\ UNCHANGED chainVars
       \/ AcceptBlock(b)

Latest(bs) == {b \in bs : \A c \in bs : Time[c] <= Time[b]}

FirstByHash(bs) == CHOOSE b \in bs : \A c \in bs : Rank[b] <= Rank[c]

DeferAlways(b) == future \cup {b}

DeferByHash(b) ==
    LET kept == IF Cardinality(future) >= FutureCap THEN future \ {FirstByHash(future)} ELSE future
    IN  IF Cardinality(kept) < FutureCap THEN kept \cup {b} ELSE kept

(* A block that is too new for now: at the limit the latest block of the   *)
(* queue makes room for an earlier one.                                    *)
Defer(b) ==
    LET last == FirstByHash(Latest(future))
        kept == IF Cardinality(future) >= FutureCap /\ Time[b] < Time[last]
                THEN future \ {last} ELSE future
    IN  IF Cardinality(kept) < FutureCap THEN kept \cup {b} ELSE kept

(* The BLOCK handler.  A block whose header is in the index is skipped,    *)
(* and one is deferred if it is refused for its time and nothing else.     *)
ReceiveBlock(p, b) ==
    /\ Handling(p)
    /\ b \notin index
    /\ ProcessNewBlock(b)
    /\ \/ /\ TooNew(b) /\ Parent[b] \notin Marked /\ b \in Signed /\ Time[b] <= now + Horizon
          /\ future' = Defer(b)
       \/ /\ \/ ~TooNew(b) \/ Parent[b] \in Marked \/ b \notin Signed \/ Time[b] > now + Horizon
             \/ b \in Refusable
          /\ UNCHANGED future
    /\ UNCHANGED <<now, peerVars, taken, partial>>

(* A block handed in by the staking thread or over RPC. *)
SubmitBlock(b) ==
    /\ ProcessNewBlock(b)
    /\ UNCHANGED <<now, peerVars, future, taken, partial>>

(* ProcessFutureBlocks takes out what is no longer too new...  (The parent *)
(* of a queued block is always in the index, so none is left to grow old.) *)
TakeDue ==
    LET due == {b \in future : Parent[b] \in index /\ ~TooNew(b)} IN
    /\ taken = {} /\ due # {}
    /\ future' = future \ due
    /\ taken' = due
    /\ UNCHANGED <<now, chainVars, flightVars, peerVars, partial>>

(* ... and, with no lock held, processes one after the other. *)
ProcessFuture(b) ==
    /\ b \in taken
    /\ taken' = taken \ {b}
    /\ IF b \in index THEN UNCHANGED <<chainVars, flightVars>> ELSE ProcessNewBlock(b)
    /\ UNCHANGED <<now, peerVars, future, partial>>

(* The CMPCTBLOCK handler: transactions are missing, or the block is       *)
(* complete.                                                               *)
ReceiveCompact(p, b) ==
    /\ Handling(p)
    /\ b \notin index /\ Parent[b] \in index
    /\ \/ /\ partial' = {b} \cup (IF Cardinality(partial) >= PartialCap
                                  THEN partial \ {FirstByHash(partial)} ELSE partial)
          /\ UNCHANGED <<chainVars, flightVars>>
       \/ ProcessNewBlock(b) /\ UNCHANGED partial
    /\ UNCHANGED <<now, peerVars, future, taken>>

(* The BLOCKTXN handler: not the transactions asked for, or all of them. *)
ReceiveTransactions(p, b) ==
    /\ Handling(p)
    /\ b \in partial
    /\ partial' = partial \ {b}
    /\ UNCHANGED <<chainVars, flightVars>> \/ ProcessNewBlock(b)
    /\ UNCHANGED <<now, peerVars, future, taken>>

Tick ==
    /\ now < MaxNow
    /\ now' = now + 1
    /\ UNCHANGED <<chainVars, flightVars, peerVars, future, taken, partial>>

Init ==
    /\ now = 0
    /\ index = {Genesis} /\ data = {Genesis} /\ tip = Genesis
    /\ flying = [b \in Block |-> None] /\ queued = 0
    /\ peers = {} /\ leaving = {}
    /\ known = [p \in Peer |-> NothingKnown]
    /\ list = [p \in Peer |-> {}] /\ count = [p \in Peer |-> 0] /\ stalling = {}
    /\ future = {} /\ taken = {} /\ partial = {}

Next ==
    \/ Tick \/ TakeDue
    \/ \E p \in Peer : \/ InitializeNode(p) \/ Leave(p) \/ FinalizeNode(p)
                       \/ SendMessages(p) \/ TimeOut(p)
    \/ \E b \in Block : SubmitBlock(b) \/ ProcessFuture(b)
    \/ \E p \in Peer : \/ \E b \in Told : Announce(p, b)
                       \/ \E b \in Block : ReceiveBlock(p, b) \/ ReceiveTransactions(p, b)
                       \/ \E b \in Compact : ReceiveCompact(p, b)

Spec == Init /\ [][Next]_vars

(* The clock moves on, the message thread takes out what is due and works  *)
(* it off, and a peer that owes a block is given up (message thread) and   *)
(* finalized (socket thread), whatever the other peers do.                 *)
FairSpec ==
    /\ Spec
    /\ WF_vars(Tick)
    /\ WF_vars(TakeDue \/ \E b \in Block : ProcessFuture(b))
    /\ \A p \in Peer : WF_vars(TimeOut(p) \/ FinalizeNode(p))

(***************************************************************************)
(* Properties.                                                             *)
(***************************************************************************)
(* The state has its types, the two maps keep to their limits (64 in the   *)
(* code), only blocks that were too new are deferred and no peer owes more *)
(* than MAX_BLOCKS_IN_TRANSIT_PER_PEER blocks.                             *)
TypeOK ==
    /\ now \in 0 .. MaxNow
    /\ data \subseteq index /\ index \subseteq Block /\ tip \in data
    /\ flying \in [Block -> Peer \cup {None}]
    /\ queued \in 0 .. MaxQueued
    /\ leaving \subseteq peers /\ peers \subseteq Peer
    /\ known \in [Peer -> Known]
    /\ list \in [Peer -> SUBSET Block] /\ stalling \subseteq peers
    /\ count \in [Peer -> 0 .. MaxInTransit]
    /\ future \subseteq Deferrable /\ Cardinality(future) <= FutureCap
    /\ taken \subseteq Block
    /\ partial \subseteq Block /\ Cardinality(partial) <= PartialCap

(* mapBlocksInFlight and the lists and counters of the peers agree: every  *)
(* block in flight is on the list of one peer, which is still known (code  *)
(* that finds the owner of a block uses its state without a check), and    *)
(* nQueuedValidatedHeaders, which lengthens the time-out of a request,     *)
(* counts at least what is in flight.                                      *)
FlightExact ==
    /\ \A b \in Block : flying[b] # None => flying[b] \in peers
    /\ \A p \in Peer : /\ list[p] = {b \in Block : flying[b] = p}
                       /\ count[p] = Cardinality(list[p])
    /\ queued >= Cardinality({b \in Block : flying[b] # None})

(* A peer is held to be stalling only while it owes a block: otherwise it  *)
(* would be disconnected for a block that has come.                        *)
StallersOwe == \A p \in stalling : list[p] # {}

(* What is in flight is still missing, whichever way and thread blocks     *)
(* come in by: no peer is disconnected for a block that is already stored. *)
FlyingMissing == \A b \in Block : flying[b] # None => b \notin data

(* The queue keeps a node with a slow clock from losing a block: a         *)
(* deferred block that no deferrable one precedes gets into the index,     *)
(* whatever else is deferred at the limit, or, if the other checks may     *)
(* have turned against it by then, is handed to them.                      *)
EarliestDeferredArrives ==
    \A b \in Deferrable : (\A c \in Deferrable : Time[b] <= Time[c]) =>
        (b \in future ~> b \in index \/ (b \in taken /\ b \in Refusable))

(* No request waits for ever: a block that a peer never delivers is given  *)
(* up and can be asked from another.                                       *)
NothingFliesForever == \A b \in Block : []<>(flying[b] = None)
=============================================================================
