-------------------------- MODULE AnchorPipelineMC --------------------------
(***************************************************************************)
(* Instances of AnchorPipeline for TLC.                                    *)
(***************************************************************************)
EXTENDS AnchorPipeline, TLC

CONSTANTS l1, l2, l3, l4, l5, g1, g2

(* One gateway that starts with a backlog: l4 is an internal RECOVERY row, *)
(* l5 predates the cutoff, l1 is an ordinary RECEIVED row.                 *)
OneLogs == {l1, l2, l3, l4, l5}
OneBacklog == {l1, l4, l5}
OneInternal == {l4}
OneOldRows == {l5}
OneTimestamp == [l \in OneLogs |-> CASE l = l1 -> 3 [] l = l2 -> 1 [] OTHER -> 2]
OneGateway == {g1}

(* Two gateways on one database; l1 and l2 have the same timestamp, so the *)
(* gateways may read batches that overlap without being equal.             *)
TwoLogs == {l1, l2, l3}
TwoTimestamp == [l \in TwoLogs |-> IF l = l3 THEN 2 ELSE 1]
TwoGateways == {g1, g2}
Nothing == {}

GatewaySymmetry == Permutations(TwoGateways)
=============================================================================
