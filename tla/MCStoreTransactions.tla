------------------------- MODULE MCStoreTransactions -------------------------
(* Instances of StoreTransactions for TLC.                                  *)
EXTENDS StoreTransactions
==============================================================================
