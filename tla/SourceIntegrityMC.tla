--------------------------- MODULE SourceIntegrityMC ---------------------------
(***************************************************************************)
(* An instance of SourceIntegrity for TLC: two resources that compete for  *)
(* the sweep, with a fault, one resource with the sweep and a user, with   *)
(* an edit or a fault, and a resource that changes often enough for a log  *)
(* that has been overtaken to agree with a row it never agreed with        *)
(* before, checked by a user.                                              *)
(***************************************************************************)
EXTENDS SourceIntegrity

CONSTANTS r1, r2, u1

TwoResources == {r1, r2}
OneUser == {u1}

SweepOrUser ==
  {[resources |-> {r1, r2}, checkers |-> {"sweep"}, writes |-> 0, edits |-> 1, faults |-> 1],
   [resources |-> {r1, r2}, checkers |-> {"sweep"}, writes |-> 1, edits |-> 1, faults |-> 0],
   [resources |-> {r1, r2}, checkers |-> {"sweep"}, writes |-> 1, edits |-> 0, faults |-> 1],
   [resources |-> {r1}, checkers |-> {"sweep", u1}, writes |-> 1, edits |-> 1, faults |-> 0],
   [resources |-> {r1}, checkers |-> {"sweep", u1}, writes |-> 1, edits |-> 0, faults |-> 1],
   [resources |-> {r1}, checkers |-> {u1}, writes |-> 3, edits |-> 0, faults |-> 0]}

MetadataAltered == [Sound EXCEPT !.meta = "altered"]
OldFormat == [Sound EXCEPT !.proofs = "limited"]
MetadataRehashed == [MetadataAltered EXCEPT !.hash = ContentHash(MetadataAltered)]
SomeDamage == {MetadataAltered, MetadataRehashed, OldFormat}
=============================================================================
