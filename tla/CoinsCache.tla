----------------------------- MODULE CoinsCache -----------------------------
(***************************************************************************)
(* The stack of coin views (coins.cpp, txdb.cpp): a scratch cache, in      *)
(* which ConnectBlock and DisconnectBlock work, on pcoinsTip, a cache of   *)
(* its own, on the database.  A cache entry carries two flags that decide  *)
(* what has to be written to the view below: DIRTY, it may differ from     *)
(* that view; FRESH, that view has no unspent coin for it.                 *)
(***************************************************************************)
CONSTANTS
  Outpoint, Coin,
  Spent,            \* a coin that IsSpent(), or none
  NoEntry,          \* an outpoint that a cache has no entry for
  Blocks, Genesis,
  Null              \* a hashBlock that IsNull()

ASSUME CoinsAssumption ==
  /\ Spent \notin Coin
  /\ Genesis \in Blocks /\ Null \notin Blocks

VARIABLES
  db,       \* CCoinsViewDB: the coin stored for each outpoint
  dbBest,   \* DB_BEST_BLOCK
  tip,      \* pcoinsTip->cacheCoins
  tipBest,  \* pcoinsTip->hashBlock
  view      \* cacheCoins of the scratch view; no entries when there is none

coinVars == <<db, dbBest, tip, tipBest, view>>

Value == Coin \cup {Spent}
Entry == [coin : Value, dirty : BOOLEAN, fresh : BOOLEAN]
ASSUME NoEntryAssumption == NoEntry \notin Entry \cup Value

NoEntries == [o \in Outpoint |-> NoEntry]

(* GetCoin, seen through each view. *)
TipCoin(o) == IF tip[o] = NoEntry THEN db[o] ELSE tip[o].coin
ViewCoin(o) == IF view[o] = NoEntry THEN TipCoin(o) ELSE view[o].coin

(* GetBestBlock *)
Best == IF tipBest = Null THEN dbBest ELSE tipBest

-----------------------------------------------------------------------------
(* One cache *)

(* FetchCoin: the entry e of a cache after a look-up, when the view below  *)
(* answers with below, or has nothing to answer with (NoEntry).            *)
FetchCoin(e, below) ==
  IF e # NoEntry \/ below = NoEntry THEN e
  ELSE [coin |-> below, dirty |-> FALSE, fresh |-> below = Spent]

(* The flag is set whatever has still to be written. *)
AddFresh(e, c) == [coin |-> c, dirty |-> TRUE, fresh |-> TRUE]

(* AddCoin without possible_overwrite: the entry becomes FRESH unless the  *)
(* pruned entry it replaces has still to be written.                       *)
AddCoin(e, c) ==
  [coin  |-> c,
   dirty |-> TRUE,
   fresh |-> IF e = NoEntry THEN TRUE ELSE e.fresh \/ ~e.dirty]

(* A spent entry is forgotten even if the view below has the coin. *)
SpendForgets(e) == NoEntry

(* SpendCoin, once fetched: a FRESH entry is forgotten. *)
SpendCoin(e) ==
  IF e = NoEntry \/ e.fresh THEN NoEntry
  ELSE [coin |-> Spent, dirty |-> TRUE, fresh |-> FALSE]

(* The child's FRESH flag is copied over an entry of the parent. *)
WriteCopiesFresh(e, p) ==
  IF e = NoEntry \/ ~e.dirty THEN p ELSE [coin |-> e.coin, dirty |-> TRUE, fresh |-> e.fresh]

(* BatchWrite, an entry e of the child into the entry p of the parent.     *)
BatchWrite(e, p) ==
  IF e = NoEntry \/ ~e.dirty THEN p
  ELSE IF p = NoEntry
    THEN IF e.fresh /\ e.coin = Spent THEN NoEntry
         ELSE [coin |-> e.coin, dirty |-> TRUE, fresh |-> e.fresh]
  ELSE IF p.fresh /\ e.coin = Spent THEN NoEntry
  ELSE [coin |-> e.coin, dirty |-> TRUE, fresh |-> p.fresh]

(* What BatchWrite throws on. *)
Misapplied(e, p) ==
  e # NoEntry /\ e.dirty /\ e.fresh /\ p # NoEntry /\ p.coin # Spent

-----------------------------------------------------------------------------
(* The stack *)

(* A look-up in pcoinsTip, and in the scratch view on top of it.           *)
TipFetched(o) == FetchCoin(tip[o], IF db[o] = Spent THEN NoEntry ELSE db[o])
ViewFetched(o) ==
  FetchCoin(view[o], IF TipFetched(o) = NoEntry THEN NoEntry ELSE TipFetched(o).coin)

(* A look-up in the view falls through to pcoinsTip only on a miss.        *)
TipTouched(o) == IF view[o] = NoEntry THEN [tip EXCEPT ![o] = TipFetched(o)] ELSE tip

(* HaveCoin, AccessCoin and GetCoin on pcoinsTip ...                       *)
AccessTip(o) ==
  /\ tip' = [tip EXCEPT ![o] = TipFetched(o)]
  /\ UNCHANGED <<db, dbBest, tipBest, view>>

(* ... and on the scratch view. *)
AccessView(o) ==
  /\ tip' = TipTouched(o)
  /\ view' = [view EXCEPT ![o] = ViewFetched(o)]
  /\ UNCHANGED <<db, dbBest, tipBest>>

(* AddCoins, an output of a new transaction: no look-up is made.  It never *)
(* meets an unspent coin, since transaction ids are unique.                *)
AddNew(o, c) ==
  /\ ViewCoin(o) = Spent
  /\ view' = [view EXCEPT ![o] = AddCoin(@, c)]
  /\ UNCHANGED <<db, dbBest, tip, tipBest>>

(* ApplyTxInUndo, an input of a transaction being disconnected: it looks   *)
(* the coin up (HaveCoin) and puts it back.  The coin is spent, since      *)
(* blocks and their transactions are undone in reverse order.              *)
Restore(o, c) ==
  /\ ViewCoin(o) = Spent
  /\ tip' = TipTouched(o)
  /\ view' = [view EXCEPT ![o] = AddCoin(ViewFetched(o), c)]
  /\ UNCHANGED <<db, dbBest, tipBest>>

(* UpdateCoins of an input, or DisconnectBlock of an output. *)
Spend(o) ==
  /\ tip' = TipTouched(o)
  /\ view' = [view EXCEPT ![o] = SpendCoin(ViewFetched(o))]
  /\ UNCHANGED <<db, dbBest, tipBest>>

(* ConnectTip and DisconnectTip flush the scratch view into pcoinsTip, the *)
(* block set with SetBestBlock as its best block.                          *)
Flush(b) ==
  /\ tip' = [o \in Outpoint |-> BatchWrite(view[o], tip[o])]
  /\ tipBest' = b
  /\ view' = NoEntries
  /\ UNCHANGED <<db, dbBest>>

(* The block was invalid: the scratch view is destroyed. *)
Discard ==
  /\ view' = NoEntries
  /\ UNCHANGED <<db, dbBest, tip, tipBest>>

(* AcceptToMemoryPool and LimitMempoolSize drop entries without flags.     *)
Unflagged(e) == ~e.dirty /\ ~e.fresh
Uncache(o) ==
  /\ tip[o] # NoEntry /\ Unflagged(tip[o])
  /\ tip' = [tip EXCEPT ![o] = NoEntry]
  /\ UNCHANGED <<db, dbBest, tipBest, view>>

(* A coin that was spent is left in the database. *)
StoredUnspent(e, old) == IF e # NoEntry /\ e.dirty /\ e.coin # Spent THEN e.coin ELSE old

(* FlushStateToDisk: pcoinsTip->Flush writes the DIRTY entries and the     *)
(* best block to the database in one batch.                                *)
Stored(e, old) == IF e # NoEntry /\ e.dirty THEN e.coin ELSE old
FlushTip ==
  /\ db' = [o \in Outpoint |-> Stored(tip[o], db[o])]
  /\ dbBest' = Best
  /\ tip' = NoEntries
  /\ UNCHANGED <<tipBest, view>>

(* A crash, and the caches of a new process. *)
Crash ==
  /\ tip' = NoEntries /\ tipBest' = Null /\ view' = NoEntries
  /\ UNCHANGED <<db, dbBest>>

CoinsInit ==
  /\ db = [o \in Outpoint |-> Spent] /\ dbBest = Genesis
  /\ tip = NoEntries /\ tipBest = Null
  /\ view = NoEntries

CoinsNext ==
  \/ \E o \in Outpoint :
       \/ AccessTip(o) \/ AccessView(o) \/ Spend(o) \/ Uncache(o)
       \/ \E c \in Coin : AddNew(o, c) \/ Restore(o, c)
  \/ \E b \in Blocks : Flush(b)
  \/ Discard \/ FlushTip \/ Crash

CoinsSpec == CoinsInit /\ [][CoinsNext]_coinVars

-----------------------------------------------------------------------------
(* Properties *)

Cache == [Outpoint -> Entry \cup {NoEntry}]

(* Every variable has its type. *)
CoinsTypeOK ==
  /\ db \in [Outpoint -> Value] /\ dbBest \in Blocks
  /\ tip \in Cache /\ tipBest \in Blocks \cup {Null}
  /\ view \in Cache

(* The flags of an entry e say the truth about the coin below it. *)
Truthful(e, below) ==
  e # NoEntry => /\ ~e.dirty => e.coin = below
                 /\ e.fresh => below = Spent

(* CCoinsCacheEntry::Flags: "potentially different from the version in the *)
(* parent view" and "the parent view does not have this entry (or it is    *)
(* pruned)", for both caches and whatever is fetched, flushed or uncached  *)
(* in between.                                                             *)
FlagsTruthful ==
  \A o \in Outpoint : Truthful(tip[o], db[o]) /\ Truthful(view[o], TipCoin(o))

(* BatchWrite never throws "FRESH flag misapplied to cache entry for base  *)
(* transaction with spendable outputs".                                    *)
NeverMisapplied == \A o \in Outpoint : ~Misapplied(view[o], tip[o])

(* Whatever the two caches hold, spending, adding and restoring a coin     *)
(* change what the scratch view answers for that outpoint and for no       *)
(* other, and nothing of what pcoinsTip answers: an edit is neither lost   *)
(* behind a stale entry nor visible below before the flush.                *)
Edited(o, v) ==
  \A q \in Outpoint : /\ ViewCoin(q)' = IF q = o THEN v ELSE ViewCoin(q)
                      /\ TipCoin(q)' = TipCoin(q)
EditsExact ==
  [][\A o \in Outpoint : /\ Spend(o) => Edited(o, Spent)
                         /\ \A c \in Coin : AddNew(o, c) \/ Restore(o, c) => Edited(o, c)]_coinVars

(* The caches cannot be told from the plain map: what a block read and     *)
(* wrote is committed or dropped as a whole, survives a crash with its     *)
(* best block, and no coin comes back or disappears through the flags.     *)
Map == INSTANCE CoinsMap WITH
  cur <- [o \in Outpoint |-> ViewCoin(o)],
  committed <- [coins |-> [o \in Outpoint |-> TipCoin(o)], best |-> Best],
  durable <- [coins |-> db, best |-> dbBest]
ImplementsMap == Map!MapSpec
=============================================================================
