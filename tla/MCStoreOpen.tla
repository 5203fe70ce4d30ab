---------------------------- MODULE MCStoreOpen ----------------------------
(* Instance of StoreOpen: edits are interchangeable. *)
EXTENDS StoreOpen, TLC

Symmetry == Permutations(Edit)
============================================================================
