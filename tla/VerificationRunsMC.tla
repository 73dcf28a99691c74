-------------------------- MODULE VerificationRunsMC --------------------------
(***************************************************************************)
(* Instances of VerificationRuns for TLC.                                  *)
(***************************************************************************)
EXTENDS VerificationRuns

CONSTANTS g1, g2

OneGateway == {g1}
TwoGateways == {g1, g2}
Times == <<1, 1>>
LateRange == {<<2, 3>>}
=============================================================================
