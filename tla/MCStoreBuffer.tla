--------------------------- MODULE MCStoreBuffer ---------------------------
(***************************************************************************)
(* Instances of StoreBuffer for TLC.                                        *)
(***************************************************************************)
EXTENDS StoreBuffer, TLC

CONSTANTS d1, d2

DataSymmetry == Permutations({d1, d2})
=============================================================================
