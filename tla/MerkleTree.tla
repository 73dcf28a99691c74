------------------------------ MODULE MerkleTree ------------------------------
(***************************************************************************)
(* BuildMerkleTree as the loop it is, and what verification later makes of *)
(* the proof rows the aggregator stores.  A hash is symbolic: leaf k is    *)
(* <<k>> and the hash of two nodes is the pair of them, so two nodes are   *)
(* equal only if they commit to the same.  The leaves of a batch differ,   *)
(* since log_id is part of a log's hash.                                   *)
(***************************************************************************)
EXTENDS Integers, Sequences, FiniteSets, SequencesExt

CONSTANT MaxLeaves

ASSUME LeavesAssumption == MaxLeaves \in Nat \ {0}

VARIABLES
  leaves,                      \* the hashes of the batch
  currentLevel, currentGroups, \* nodes of a level and the leaves below each
  nextLevel, nextGroups,
  proofs, levelIndex, index,   \* index: i of the loop over a level, from 1
  rows                         \* merkle_proofs of this root

treeVars == <<leaves, currentLevel, currentGroups, nextLevel, nextGroups,
              proofs, levelIndex, index, rows>>

hashNodes(left, right) == <<left, right>>

InitTree ==
  /\ \E n \in 1..MaxLeaves : leaves = [k \in 1..n |-> <<k>>]
  /\ currentLevel = leaves
  /\ currentGroups = [k \in DOMAIN leaves |-> {leaves[k]}]
  /\ nextLevel = <<>> /\ nextGroups = <<>>
  /\ proofs = [h \in ToSet(leaves) |-> <<>>]
  /\ levelIndex = 0 /\ index = 1
  /\ rows = {}

AddStepOnFirstLevel(p, group, sibling, isLeft) ==   \* a bug: only leaves get proof steps
  [h \in DOMAIN p |->
     IF h \in group /\ levelIndex = 0
     THEN Append(p[h], [sibling |-> sibling, isLeft |-> isLeft, level |-> levelIndex])
     ELSE p[h]]

AddStep(p, group, sibling, isLeft) ==
  [h \in DOMAIN p |->
     IF h \in group
     THEN Append(p[h], [sibling |-> sibling, isLeft |-> isLeft, level |-> levelIndex])
     ELSE p[h]]

PairNodes ==
  /\ Len(currentLevel) > 1 /\ index < Len(currentLevel)
  /\ LET left == currentLevel[index]  right == currentLevel[index + 1]
         leftGroup == currentGroups[index]  rightGroup == currentGroups[index + 1]
     IN /\ proofs' = AddStep(AddStep(proofs, leftGroup, right, FALSE), rightGroup, left, TRUE)
        /\ nextLevel' = Append(nextLevel, hashNodes(left, right))
        /\ nextGroups' = Append(nextGroups, leftGroup \cup rightGroup)
  /\ index' = index + 2
  /\ UNCHANGED <<leaves, currentLevel, currentGroups, levelIndex, rows>>

(* A node without a sibling is paired with itself.                         *)
PairWithSelf ==
  /\ Len(currentLevel) > 1 /\ index = Len(currentLevel)
  /\ LET left == currentLevel[index] IN
       /\ proofs' = AddStep(proofs, currentGroups[index], left, FALSE)
       /\ nextLevel' = Append(nextLevel, hashNodes(left, left))
       /\ nextGroups' = Append(nextGroups, currentGroups[index])
  /\ index' = index + 2
  /\ UNCHANGED <<leaves, currentLevel, currentGroups, levelIndex, rows>>

NextLevel ==
  /\ Len(currentLevel) > 1 /\ index > Len(currentLevel)
  /\ currentLevel' = nextLevel /\ currentGroups' = nextGroups
  /\ nextLevel' = <<>> /\ nextGroups' = <<>>
  /\ levelIndex' = levelIndex + 1 /\ index' = 1
  /\ UNCHANGED <<leaves, proofs, rows>>

Root == currentLevel[1]

(* The aggregator stores one row per step; rows have no order.             *)
StoreProofs ==
  /\ Len(currentLevel) = 1 /\ rows = {}
  /\ rows' = UNION {{[leaf |-> h, sibling |-> s.sibling, isLeft |-> s.isLeft, level |-> s.level]
                       : s \in ToSet(proofs[h])} : h \in DOMAIN proofs}
  /\ UNCHANGED <<leaves, currentLevel, currentGroups, nextLevel, nextGroups, proofs,
                 levelIndex, index>>

BuildStep == PairNodes \/ PairWithSelf \/ NextLevel \/ StoreProofs

TreeSpec == InitTree /\ [][BuildStep]_treeVars

-----------------------------------------------------------------------------
(* Verification of one leaf.                                               *)

ReconstructMerkleRoot(leafHash, path) ==
  LET current[n \in 0..Len(path)] ==
        IF n = 0 THEN leafHash
        ELSE IF path[n].isLeft THEN hashNodes(path[n].sibling, current[n - 1])
                               ELSE hashNodes(current[n - 1], path[n].sibling)
  IN current[Len(path)]

(* ORDER BY tree_level ASC.                                                *)
LoadProofs(leafHash) ==
  LET stored == {r \in rows : r.leaf = leafHash}
      place == 1..Cardinality(stored)
  IN CHOOSE path \in [place -> stored] :
       /\ \A r \in stored : \E k \in place : path[k] = r
       /\ \A j, k \in place : j < k => path[j].level <= path[k].level

-----------------------------------------------------------------------------
(* Properties.                                                             *)

(* Nodes of the loop with the leaves below them: those paired already in   *)
(* this pass, and those that are still to be paired.                       *)
Built == {<<nextLevel[k], nextGroups[k]>> : k \in DOMAIN nextLevel}
ToPair == {<<currentLevel[k], currentGroups[k]>> :
             k \in {j \in DOMAIN currentLevel : j >= index}}

(* At every point of the loop the proof collected for a leaf so far leads  *)
(* exactly to the node the leaf is under, and every leaf is under one,     *)
(* whatever the size of the batch and wherever an odd node occurs.         *)
ProofReachesItsNode ==
  \A h \in ToSet(leaves) :
    \E n \in Built \cup ToPair : h \in n[2] /\ ReconstructMerkleRoot(h, proofs[h]) = n[1]

(* Read back from the unordered rows, every leaf's proof verifies against  *)
(* the root of its batch.                                                  *)
StoredProofsVerify ==
  Len(currentLevel) = 1 /\ (rows # {} \/ Len(leaves) = 1) =>
    \A h \in ToSet(leaves) : ReconstructMerkleRoot(h, LoadProofs(h)) = Root
=============================================================================
