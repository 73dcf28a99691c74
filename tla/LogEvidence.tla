------------------------------ MODULE LogEvidence ------------------------------
(***************************************************************************)
(* What the Gateway can tell about one row of audit_logs: the verdict of   *)
(* each verification path and the reference a recovery may trust.          *)
(*                                                                         *)
(* A row is abstracted to what the checks compare: its metadata and the    *)
(* other hashed fields, as they were sealed or altered since; the stored   *)
(* hash, which is the content it is the hash of; the Merkle root field;    *)
(* and the proof rows filed under the sealed hash.  "complete" proofs lead *)
(* from the leaf to the anchored root (none are needed in a batch of one), *)
(* "foreign" ones name another root, "limited" ones lack the data of       *)
(* today's format, "absent" ones are lost.  The columns that name the      *)
(* row's snapshot and the client's own record of the event count too.      *)
(***************************************************************************)
EXTENDS Integers, FiniteSets

Contents == {"sealed", "altered"}

(* Objects in the bucket: that of the log, that of another log of the      *)
(* batch, one that is lost, rewritten or not readable with the key.        *)
Snapshots == {"own", "sibling", "broken"}

(* Records of the client's audit trail: that of the event, and those of    *)
(* other changes of the row within the lookup window, which left it in the *)
(* same state or in another.                                               *)
TrailEvents == {"own", "twin", "near"}

Row ==
  [stage : {"received", "hashed", "anchored"}, meta : Contents, rest : Contents,
   hash : Contents \X Contents, root : {"anchor", "other", "none"},
   proofs : {"complete", "foreign", "limited", "absent"},
   snapshot : Snapshots, source : {"none"} \cup TrailEvents]

ContentHash(r) == <<r.meta, r.rest>>
SealedHash == <<"sealed", "sealed">>

Sound ==
  [stage |-> "anchored", meta |-> "sealed", rest |-> "sealed",
   hash |-> SealedHash, root |-> "anchor", proofs |-> "complete",
   snapshot |-> "own", source |-> "none"]

(* Proof rows are looked up by the stored hash.                            *)
ProofsOf(r) == IF r.hash = SealedHash THEN r.proofs ELSE "absent"

ReconstructsUnchecked(r) ==   \* a bug: proof rows found are taken to lead to the root
  ProofsOf(r) # "absent"

Reconstructs(r) == ProofsOf(r) = "complete"

-----------------------------------------------------------------------------
(* Verdicts.  reads is the set of lookups that succeed.                    *)

AllReads == {"fabric", "proofs"}
Verdicts == {"VALID", "TAMPERED", "PENDING", "UNREACHABLE"}
IncidentTypes == {"METADATA_HASH_MISMATCH", "MERKLE_ROOT_MISMATCH", "MERKLE_PROOF_MISMATCH"}

Found(verdict) == [verdict |-> verdict, incident |-> "none"]
Tampered(type) == [verdict |-> "TAMPERED", incident |-> type]

(* Rows of the time before proofs were complete: nothing but the root      *)
(* field agrees with the anchor.                                           *)
LegacyLimited(r) == r.root = "anchor" /\ ~Reconstructs(r)

(* path "scan" is VerifyGatewayIntegrityBatch, "log" verifyLogIntegrity,   *)
(* "explorer" classifyIntegrityDetailed.                                   *)
Classify(path, r, reads) ==
  IF r.stage = "received" THEN Found("PENDING")
  ELSE IF ContentHash(r) # r.hash THEN Tampered("METADATA_HASH_MISMATCH")
  ELSE IF r.stage # "anchored" THEN Found("PENDING")
  ELSE IF "fabric" \notin reads \/ ("proofs" \notin reads /\ path # "scan")
       THEN Found("UNREACHABLE")
  ELSE IF r.root = "other" THEN Tampered("MERKLE_ROOT_MISMATCH")
  ELSE IF "proofs" \notin reads THEN Found("UNREACHABLE")
  ELSE IF ProofsOf(r) = "foreign" THEN Tampered("MERKLE_PROOF_MISMATCH")
  ELSE IF Reconstructs(r) THEN Found("VALID")
  ELSE IF LegacyLimited(r) THEN Found(IF path = "log" THEN "VALID" ELSE "UNREACHABLE")
  ELSE IF ProofsOf(r) = "absent" THEN Found("UNREACHABLE")
  ELSE Tampered(IF path = "log" THEN "MERKLE_ROOT_MISMATCH" ELSE "MERKLE_PROOF_MISMATCH")

-----------------------------------------------------------------------------
(* References of a recovery.                                               *)

(* trustedGatewayLogFromAuditTrail: the image of the record, in the place  *)
(* of the stored metadata, has the stored hash.                            *)
Image(record) == IF record = "near" THEN "altered" ELSE "sealed"
Recreates(record, r) == <<Image(record), r.rest>> = r.hash

(* findGatewayAuditTrailReference: one record of the window recreates it.  *)
Matching(trail, r) == {record \in trail : Recreates(record, r)}
Linked(trail, r) ==
  IF r.source = "none" /\ Cardinality(Matching(trail, r)) = 1
  THEN [r EXCEPT !.source = CHOOSE record \in trail : Recreates(record, r)] ELSE r

(* ValidateTrustedReference of the row with the image of its record.       *)
Trusted(trail, r) ==
  /\ r.source \in trail /\ Recreates(r.source, r)
  /\ r.stage = "anchored"
  /\ r.root = "anchor" /\ ProofsOf(r) = "complete"

(* The image in a snapshot, if ValidateObjectInfo, the decryption and the  *)
(* parser accept the object.                                               *)
Readable(snapshot) == snapshot # "broken"
Stored(snapshot) == IF snapshot = "own" THEN "sealed" ELSE "altered"

(* validateSnapshotIdentity.                                               *)
OwnIdentity(snapshot) == snapshot = "own"

(* verifyAnchor for the hash in the snapshot and the frozen root: proof    *)
(* rows are looked up by the snapshot's hash, whatever root they name.     *)
AnchorOf(snapshot, frozenRoot, r) ==
  frozenRoot = "anchor" /\ (snapshot = "sibling" \/ r.proofs = "complete")

(* validateSnapshot.                                                       *)
ValidSnapshot(snapshot, frozenRoot, r) ==
  Readable(snapshot) /\ OwnIdentity(snapshot) /\ AnchorOf(snapshot, frozenRoot, r)

(* ensureTargetNeedsRecovery, and the same test in the transaction.        *)
NeedsSnapshot(image, r) == ContentHash(r) # <<image, image>> \/ r.hash # <<image, image>>
=============================================================================
