---------------------------- MODULE AnchorLedger ----------------------------
(***************************************************************************)
(* What the audit pipeline promises, without its database, its tickers or  *)
(* its errors: logs are sealed into batches that never share a log, only a *)
(* sealed batch is witnessed by the ledger, only a witnessed batch is      *)
(* attested to its readers, and nothing of this is ever taken back.        *)
(* AnchorPipeline is shown to implement it.                                *)
(***************************************************************************)
CONSTANT Logs

VARIABLES
  sealed,     \* batches whose Merkle root is fixed
  witnessed,  \* batches whose root is on the ledger
  attested    \* batches all of whose logs are shown as ANCHORED

ledgerVars == <<sealed, witnessed, attested>>

Batches == (SUBSET Logs) \ {{}}

Init == sealed = {} /\ witnessed = {} /\ attested = {}

Seal(b) ==
  /\ \A other \in sealed : other \cap b = {}
  /\ sealed' = sealed \cup {b}
  /\ UNCHANGED <<witnessed, attested>>

Witness(b) ==
  /\ b \in sealed
  /\ witnessed' = witnessed \cup {b}
  /\ UNCHANGED <<sealed, attested>>

Attest(b) ==
  /\ b \in witnessed
  /\ attested' = attested \cup {b}
  /\ UNCHANGED <<sealed, witnessed>>

Next == \E b \in Batches : Seal(b) \/ Witness(b) \/ Attest(b)

Safety == Init /\ [][Next]_ledgerVars

(* A batch that is sealed is eventually witnessed and attested.            *)
Fairness == \A b \in Batches :
  WF_ledgerVars(Witness(b)) /\ WF_ledgerVars(Attest(b))

Spec == Safety /\ Fairness
=============================================================================
