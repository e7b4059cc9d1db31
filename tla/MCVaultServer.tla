---------------------------- MODULE MCVaultServer ----------------------------
(***************************************************************************)
(* Model checking of VaultServer: revision UUIDs are interchangeable, and  *)
(* so are item UUIDs.                                                      *)
(***************************************************************************)
EXTENDS VaultServer, TLC

Interchangeable == Permutations(RevId) \cup Permutations(Item)
=============================================================================
