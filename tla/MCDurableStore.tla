--------------------------- MODULE MCDurableStore ---------------------------
(* Small values for DurableStore.                                           *)
EXTENDS DurableStore, TLC

CONSTANTS fresh, a, b

StoreSymmetry == Permutations({a, b})
=============================================================================
