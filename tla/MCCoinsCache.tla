---------------------------- MODULE MCCoinsCache ----------------------------
(* Instance of CoinsCache for TLC. *)
EXTENDS CoinsCache
=============================================================================
