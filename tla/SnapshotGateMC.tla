--------------------------- MODULE SnapshotGateMC ---------------------------
(***************************************************************************)
(* Instances of SnapshotGate for TLC.                                      *)
(***************************************************************************)
EXTENDS SnapshotGate, TLC

CONSTANTS l1, w1, w2, g1

OneLog == {l1}
OneAge == [l \in OneLog |-> 1]
TwoWorkers == {w1, w2}
OneGateway == {g1}
=============================================================================
