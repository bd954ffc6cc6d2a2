------------------------------ MODULE CoinsMap ------------------------------
(***************************************************************************)
(* What the stack of coin views promises: a map from outpoints to unspent  *)
(* coins that is edited in a scratch view, committed or dropped as a       *)
(* whole, and made durable as a whole.  No caches, no flags.               *)
(***************************************************************************)
CONSTANTS Outpoint, Coin, Spent, Blocks, Genesis

VARIABLES
  cur,        \* the coins seen through the scratch view
  committed,  \* the coins of the active chain, and its tip
  durable     \* the coins that survive a crash, and the block they belong to

mapVars == <<cur, committed, durable>>

MapInit ==
  /\ cur = [o \in Outpoint |-> Spent]
  /\ committed = [coins |-> cur, best |-> Genesis]
  /\ durable = committed

(* An outpoint gets or loses its coin. *)
Put(o, c) ==
  /\ cur' = [cur EXCEPT ![o] = c]
  /\ UNCHANGED <<committed, durable>>

Commit(b) ==
  /\ committed' = [coins |-> cur, best |-> b]
  /\ UNCHANGED <<cur, durable>>

Drop ==
  /\ cur' = committed.coins
  /\ UNCHANGED <<committed, durable>>

Persist ==
  /\ durable' = committed
  /\ UNCHANGED <<cur, committed>>

Crash ==
  /\ cur' = durable.coins
  /\ committed' = durable
  /\ UNCHANGED durable

MapNext ==
  \/ \E o \in Outpoint : \E c \in Coin \cup {Spent} : Put(o, c)
  \/ \E b \in Blocks : Commit(b)
  \/ Drop \/ Persist \/ Crash

MapSpec == MapInit /\ [][MapNext]_mapVars
=============================================================================
