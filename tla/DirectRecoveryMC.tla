-------------------------- MODULE DirectRecoveryMC --------------------------
(***************************************************************************)
(* Instances of DirectRecovery for TLC.                                    *)
(***************************************************************************)
EXTENDS DirectRecovery, TLC

CONSTANTS a, b, r1, r2, g1, g2, u

TwoStates == {a, b}
OneRequest == {r1}
TwoRequests == {r1, r2}
OneGateway == {g1}
TwoGateways == {g1, g2}
OneUser == {u}
NoUser == {}

RequestSymmetry == Permutations(TwoRequests)
=============================================================================
