--------------------------- MODULE InventorySync_MC ---------------------------
(* TLC instances of InventorySync.                                         *)
EXTENDS InventorySync, TLC

SyncSymmetry == Permutations(Consumers)
=============================================================================
