-------------------------- MODULE GatewayIntegrityMC --------------------------
(***************************************************************************)
(* Instances of GatewayIntegrity for TLC.                                  *)
(***************************************************************************)
EXTENDS GatewayIntegrity

CONSTANTS l1, l2, l3, u1, q1, q2

OneLog == {l1}
ThreeLogs == {l1, l2, l3}
OneUser == {u1}
NoUser == {}
OneRequest == {q1}
TwoRequests == {q1, q2}

DirectMode == {"agent_direct"}
BothModes == {"agent_direct", "snapshot_legacy"}

MetadataAltered == [Sound EXCEPT !.meta = "altered"]
RootAltered == [Sound EXCEPT !.root = "other"]
ProofsForeign == [Sound EXCEPT !.proofs = "foreign"]
OldFormat == [Sound EXCEPT !.proofs = "limited"]
SnapshotSwapped == [MetadataAltered EXCEPT !.snapshot = "sibling"]
ActorAndSnapshotLost == [Sound EXCEPT !.rest = "altered", !.snapshot = "broken"]
LeafDamage == {MetadataAltered, SnapshotSwapped, ActorAndSnapshotLost}
AnyDamage ==
  {MetadataAltered, RootAltered, ProofsForeign, OldFormat}

OwnRecord == {{"own"}}
RecordsNearby == {{"own", "near"}, {"own", "twin"}}
Filled == {"own"}
Empty == {"none"}
=============================================================================
