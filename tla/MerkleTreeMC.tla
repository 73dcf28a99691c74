----------------------------- MODULE MerkleTreeMC -----------------------------
(***************************************************************************)
(* Instance of MerkleTree for TLC.                                         *)
(***************************************************************************)
EXTENDS MerkleTree, TLC
=============================================================================
