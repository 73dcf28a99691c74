---------------------------- MODULE ClientTamperMC ----------------------------
(***************************************************************************)
(* Instances of ClientTamper for TLC.                                      *)
(***************************************************************************)
EXTENDS ClientTamper, TLC

CONSTANTS h1, h2, u1, u2

TwoHandlers == {h1, h2}
TwoUsers == {u1, u2}

HandlerSymmetry == Permutations(TwoHandlers)
=============================================================================
