----------------------- MODULE AnchorPipeline_proofs -----------------------
(***************************************************************************)
(* Proofs about AnchorPipeline, for any number of logs and gateways, any   *)
(* batch size and any number of faults, with and without a snapshot gate:  *)
(* types, the evidence of ANCHORED logs, the promise of AnchorLedger, and  *)
(* what holds for one gateway.                                             *)
(***************************************************************************)
EXTENDS AnchorPipeline, FiniteSetTheorems, TLAPS

-----------------------------------------------------------------------------
(* Facts about the operators of the pipeline.                              *)

(* The LIMIT of ProcessBatch: a batch it reads is a nonempty set of logs   *)
(* of the pool and has at most BatchSize of them.                          *)
LEMMA BatchOfPool ==
  ASSUME NEW pool \in SUBSET Logs, pool # {}, NEW b \in OldestOf(pool)
  PROVE  b \subseteq pool /\ b # {} /\ Cardinality(b) <= BatchSize
<1>1. IsFiniteSet(pool) /\ Cardinality(pool) \in Nat
  BY FS_Subset, FS_CardinalityType, LogsAssumption
<1>2. b \subseteq pool
  BY DEF OldestOf
<1>3. Cardinality(b) = BatchSize \/ (b = pool /\ Cardinality(pool) < BatchSize)
  BY DEF OldestOf
<1>4. Cardinality(b) <= BatchSize
  BY <1>1, <1>3, BoundsAssumption
<1>5. b # {}
  BY <1>3, FS_EmptySet, BoundsAssumption
<1> QED BY <1>2, <1>4, <1>5

(* No batch is within the limit of an aggregation.                         *)
LEMMA NoBatchFits == Cardinality({}) <= BatchSize
BY FS_EmptySet, BoundsAssumption

(* A fault stays within the budget.                                        *)
LEMMA SpendInBudget == TypeOK /\ Spend => faults' \in 0..MaxFaults
BY BoundsAssumption DEF TypeOK, Spend

-----------------------------------------------------------------------------
(* Type correctness.                                                       *)

LEMMA TypeInit == Init => TypeOK
<1> SUFFICES ASSUME Init PROVE TypeOK
  OBVIOUS
<1>1. row \in [Logs -> Row]
  BY DEF Init, Row, Statuses, Roots, NoRoot
<1>2. meta \subseteq Roots /\ ledger \in Seq(Roots)
  BY DEF Init
<1>3. pc \in [Gateways -> Phases]
  BY DEF Init, Phases
<1>4. copy = [g \in Gateways |-> copy[g]] /\ \A g \in Gateways : IsCopy(copy[g])
  BY DEF Init, IsCopy, NoCopy
<1>5. batch \in [Gateways -> Roots] /\ \A g \in Gateways : Cardinality(batch[g]) <= BatchSize
  BY NoBatchFits DEF Init, Roots
<1>6. todo \in [Gateways -> SUBSET Roots] /\ sent \in [Gateways -> [root : Roots, id : Nat]]
  BY DEF Init, Roots, NoSubmission, NoRoot
<1>7. faults \in 0..MaxFaults
  BY BoundsAssumption DEF Init
<1> QED BY <1>1, <1>2, <1>3, <1>4, <1>5, <1>6, <1>7 DEF TypeOK

(* Every step of the pipeline goroutine preserves the types, whatever the  *)
(* snapshot gate admits.                                                   *)
LEMMA TypeTick ==
  ASSUME TypeOK, NEW g \in Gateways, NEW gate, Tick(g, gate)
  PROVE  TypeOK'
<1> USE DEF TypeOK
<1>1. CASE LoadPending(g)
  <2>1. Pending \subseteq Logs
    BY DEF Pending, WithStatus
  <2>2. IsCopy([l \in Pending |-> row[l]])
    BY <2>1 DEF IsCopy
  <2> QED BY <1>1, <2>2 DEF LoadPending, Phases
<1>2. ASSUME NEW l \in Logs, SaveHashed(g, l) PROVE TypeOK'
  <2>1. l \in DOMAIN copy[g] /\ IsCopy(copy[g])
    BY <1>2 DEF SaveHashed
  <2>2. copy[g][l] \in Row
    BY <2>1 DEF IsCopy
  <2>3. [copy[g][l] EXCEPT !.status = "HASHED"] \in Row
    BY <2>2 DEF Row, Statuses
  <2>4. row' \in [Logs -> Row]
    BY <1>2, <2>3 DEF SaveHashed
  <2>5. IsCopy([k \in DOMAIN copy[g] \ {l} |-> copy[g][k]])
    BY <2>1 DEF IsCopy
  <2> QED BY <1>2, <2>4, <2>5 DEF SaveHashed, Saved
<1>3. ASSUME NEW l \in Logs, SaveFails(g, l) PROVE TypeOK'
  <2>1. IsCopy([k \in DOMAIN copy[g] \ {l} |-> copy[g][k]])
    BY DEF IsCopy
  <2>2. faults' \in 0..MaxFaults
    BY <1>3, SpendInBudget DEF SaveFails
  <2>3. copy' = [h \in Gateways |-> copy'[h]] /\ \A h \in Gateways : IsCopy(copy'[h])
    BY <1>3, <2>1 DEF SaveFails, Saved
  <2> QED BY <1>3, <2>2, <2>3 DEF SaveFails
<1>4. CASE FinishHashing(g)
  BY <1>4 DEF FinishHashing, Phases
<1>5. CASE ReadBatch(g, gate)
  <2>1. PICK b \in OldestOf(Aggregable \cap gate) : batch' = [batch EXCEPT ![g] = b]
    BY <1>5 DEF ReadBatch
  <2>2. Aggregable \cap gate \subseteq Logs /\ Aggregable \cap gate # {}
    BY <1>5 DEF ReadBatch, Aggregable, WithStatus
  <2>3. b \in Roots /\ Cardinality(b) <= BatchSize
    BY <2>2, BatchOfPool DEF Roots
  <2> QED BY <1>5, <2>1, <2>3 DEF ReadBatch, Phases
<1>6. CASE NothingToSeal(g, gate)
  BY <1>6 DEF NothingToSeal, Phases
<1>7. CASE SealBatch(g)
  <2>1. row' \in [Logs -> Row]
    <3>1. batch[g] \in Roots
      OBVIOUS
    <3>2. \A l \in Logs : [row[l] EXCEPT !.status = "AGGREGATED", !.root = batch[g]] \in Row
      BY <3>1 DEF Row, Statuses
    <3>3. row' = [l \in Logs |-> IF l \in batch[g]
                    THEN [row[l] EXCEPT !.status = "AGGREGATED", !.root = batch[g]]
                    ELSE row[l]]
      BY <1>7 DEF SealBatch
    <3> HIDE DEF TypeOK
    <3>4. row \in [Logs -> Row]
      BY DEF TypeOK
    <3> QED BY <3>2, <3>3, <3>4
  <2>2. meta' \subseteq Roots
    BY <1>7 DEF SealBatch
  <2> QED BY <1>7, <2>1, <2>2, NoBatchFits DEF SealBatch, LeaveSeal, Phases, Roots
<1>8. CASE RollBackBatch(g)
  BY <1>8, NoBatchFits, BoundsAssumption DEF RollBackBatch, LeaveSeal, Phases, Roots, Spend
<1>9. CASE ReadRoots(g)
  <2>1. PendingRoots \subseteq Roots
    BY DEF PendingRoots, WithStatus, Row
  <2> QED BY <1>9, <2>1 DEF ReadRoots, Phases
<1>10. ASSUME NEW r \in Roots, SubmitRoot(g, r) PROVE TypeOK'
  <2>1. ledger' \in Seq(Roots) /\ Len(ledger) \in Nat
    BY <1>10 DEF SubmitRoot
  <2>2. sent' \in [Gateways -> [root : Roots, id : Nat]]
    BY <1>10, <2>1 DEF SubmitRoot
  <2> QED BY <1>10, <2>1, <2>2 DEF SubmitRoot, Skip, Phases
<1>11. ASSUME NEW r \in Roots, SubmitFails(g, r) PROVE TypeOK'
  <2>1. ledger' \in Seq(Roots)
    <3>1. ledger' = ledger \/ \E s \in {r} \cap meta : ledger' = Append(ledger, s)
      BY <1>11 DEF SubmitFails
    <3>2. ledger \in Seq(Roots) /\ meta \subseteq Roots
      OBVIOUS
    <3> HIDE DEF TypeOK
    <3>3. \A s \in {r} \cap meta : Append(ledger, s) \in Seq(Roots)
      BY <3>2
    <3> QED BY <3>1, <3>2, <3>3
  <2>2. faults' \in 0..MaxFaults
    BY <1>11, SpendInBudget DEF SubmitFails
  <2> QED BY <1>11, <2>1, <2>2 DEF SubmitFails, Skip
<1>12. CASE MarkAnchored(g)
  <2>1. row' \in [Logs -> Row]
    <3>1. \A l \in Logs : Anchored(l, sent[g]) \in Row
      BY DEF Anchored, Row, Statuses
    <3>2. row' = [l \in Logs |-> IF row[l].root = sent[g].root THEN Anchored(l, sent[g])
                                                            ELSE row[l]]
      BY <1>12 DEF MarkAnchored
    <3>3. row \in [Logs -> Row]
      OBVIOUS
    <3> HIDE DEF TypeOK
    <3> QED BY <3>1, <3>2, <3>3
  <2> QED BY <1>12, <2>1 DEF MarkAnchored, LeaveMark, NoSubmission, NoRoot, Roots, Phases
<1>13. CASE MarkFails(g)
  BY <1>13, BoundsAssumption DEF MarkFails, LeaveMark, NoSubmission, NoRoot, Roots, Phases, Spend
<1>14. CASE FinishTick(g)
  BY <1>14 DEF FinishTick, Phases
<1>15. CASE QueryFails(g)
  <2>1. NextPhase[pc[g]] \in Phases
    BY <1>15 DEF QueryFails, NextPhase, Phases
  <2> QED BY <1>15, <2>1, BoundsAssumption DEF QueryFails, Spend
<1> QED
  BY <1>1, <1>2, <1>3, <1>4, <1>5, <1>6, <1>7, <1>8, <1>9, <1>10, <1>11, <1>12, <1>13,
     <1>14, <1>15
  DEF Tick, Hash, Aggregate, Anchor

(* What a goroutine does, whatever the gate lets through.                  *)
Reads(g) == \E gate \in SUBSET Logs : ReadBatch(g, gate)
ReadsNothing(g) == \E gate \in SUBSET Logs : NothingToSeal(g, gate)
Aggregates(g) == \E gate \in SUBSET Logs : Aggregate(g, gate)
Ticks(g) == Hash(g) \/ Aggregates(g) \/ Anchor(g) \/ QueryFails(g)

LEMMA AggregatesIs ==
  ASSUME NEW g
  PROVE  Aggregates(g) => Reads(g) \/ ReadsNothing(g) \/ SealBatch(g) \/ RollBackBatch(g)
BY DEF Aggregates, Aggregate, Reads, ReadsNothing

LEMMA GatedCases ==
  GatedNext => \/ \E l \in Logs : Ingest(l)
               \/ \E g \in Gateways : Ticks(g) \/ Crash(g)
<1> SUFFICES ASSUME NEW g \in Gateways, NEW gate \in SUBSET Logs, Tick(g, gate)
             PROVE  Ticks(g)
  BY DEF GatedNext
<1> QED BY DEF Tick, Ticks, Aggregates

(* Without the requirement the gate lets every row through.                *)
LEMMA SpecIsGated == Spec => Gated
<1>1. [Next]_vars => [GatedNext]_vars
  BY DEF Next, GatedNext
<1> QED BY <1>1, PTL DEF Spec, Gated

LEMMA TypeStep == TypeOK /\ [GatedNext]_vars => TypeOK'
<1> SUFFICES ASSUME TypeOK, [GatedNext]_vars PROVE TypeOK'
  OBVIOUS
<1>1. ASSUME NEW l \in Logs, Ingest(l) PROVE TypeOK'
  <2>1. row' \in [Logs -> Row]
    BY <1>1 DEF TypeOK, Ingest, Row, Statuses
  <2> QED BY <1>1, <2>1 DEF TypeOK, Ingest, local
<1>2. ASSUME NEW g \in Gateways, NEW gate \in SUBSET Logs, Tick(g, gate) PROVE TypeOK'
  BY <1>2, TypeTick
<1>3. ASSUME NEW g \in Gateways, Crash(g) PROVE TypeOK'
  <2>1. IsCopy(NoCopy)
    BY DEF IsCopy, NoCopy
  <2>2. faults' \in 0..MaxFaults
    BY <1>3, BoundsAssumption DEF Crash, Spend, TypeOK
  <2> QED BY <1>3, <2>1, <2>2, NoBatchFits
          DEF TypeOK, Crash, NoSubmission, NoRoot, Roots, Phases
<1>4. CASE UNCHANGED vars
  BY <1>4 DEF TypeOK, vars, local
<1> QED BY <1>1, <1>2, <1>3, <1>4 DEF GatedNext

(* Type correctness of the pipeline.                                       *)
THEOREM TypeCorrect == Spec \/ Gated => []TypeOK
BY TypeInit, TypeStep, SpecIsGated, PTL DEF Gated

-----------------------------------------------------------------------------
(* Evidence.  AnchoredHasEvidence is not inductive: a row gets its anchor  *)
(* ID long after Fabric has answered, so the invariant has to remember     *)
(* what a gateway was told, and that no goroutine can hold a root that     *)
(* does not commit to the rows that carry it.                              *)

(* A log that carries a root is among its leaves, in the table and in the  *)
(* copies of the hasher.                                                   *)
Carries(r, l) == r.root # NoRoot => l \in r.root

RootsCommit ==
  /\ \A l \in Logs : Carries(row[l], l)
  /\ \A g \in Gateways : \A l \in DOMAIN copy[g] : Carries(copy[g][l], l)

(* No batch is empty, neither the one to be sealed nor a sealed one.       *)
NoEmptyBatch ==
  /\ {} \notin meta
  /\ \A g \in Gateways : pc[g] = "seal" => batch[g] # {}

(* What a gateway is about to write to the rows is on the ledger.          *)
Stored(s) == s.id \in DOMAIN ledger /\ ledger[s.id] = s.root

SentIsStored ==
  \A g \in Gateways : pc[g] = "mark" => Stored(sent[g]) /\ sent[g].root # NoRoot

EvidenceInv ==
  TypeOK /\ RootsCommit /\ NoEmptyBatch /\ SentIsStored /\ AnchoredHasEvidence

LEMMA EvidenceInit == Init => EvidenceInv
<1> SUFFICES ASSUME Init PROVE EvidenceInv
  OBVIOUS
<1>1. TypeOK
  BY TypeInit
<1>2. RootsCommit
  BY DEF Init, RootsCommit, Carries, NoCopy
<1>3. NoEmptyBatch /\ SentIsStored
  BY DEF Init, NoEmptyBatch, SentIsStored
<1>4. AnchoredHasEvidence
  BY DEF Init, AnchoredHasEvidence, WithStatus
<1> QED BY <1>1, <1>2, <1>3, <1>4 DEF EvidenceInv

(* The ledger only grows: what is stored stays.                            *)
LEMMA LedgerKeeps ==
  ASSUME TypeOK, NEW r, ledger' = ledger \/ ledger' = Append(ledger, r)
  PROVE  /\ \A n \in DOMAIN ledger : n \in DOMAIN ledger' /\ ledger'[n] = ledger[n]
         /\ ledger' = Append(ledger, r) =>
              Len(ledger) + 1 \in DOMAIN ledger' /\ ledger'[Len(ledger) + 1] = r
<1>1. ledger \in Seq(Roots)
  BY DEF TypeOK
<1> QED BY <1>1

(* A step that leaves the rows alone, or only the rows that are and become *)
(* not ANCHORED, and takes nothing from the ledger, keeps the evidence.    *)
LEMMA EvidenceKept ==
  ASSUME AnchoredHasEvidence,
         \A n \in DOMAIN ledger : n \in DOMAIN ledger' /\ ledger'[n] = ledger[n],
         \A l \in Logs : row'[l].status = "ANCHORED" => row'[l] = row[l]
  PROVE  AnchoredHasEvidence'
BY DEF AnchoredHasEvidence, WithStatus

LEMMA EvidenceStep == EvidenceInv /\ [GatedNext]_vars => EvidenceInv'
<1> SUFFICES ASSUME EvidenceInv, [GatedNext]_vars PROVE EvidenceInv'
  OBVIOUS
<1>0. TypeOK /\ TypeOK'
  BY TypeStep DEF EvidenceInv
<1> USE <1>0 DEF EvidenceInv
<1>1. ASSUME NEW l \in Logs, Ingest(l) PROVE EvidenceInv'
  <2>1. AnchoredHasEvidence'
    BY <1>1, EvidenceKept DEF Ingest, TypeOK, Row
  <2>2. RootsCommit'
    BY <1>1 DEF Ingest, RootsCommit, Carries, TypeOK, Row, local
  <2> QED BY <1>1, <2>1, <2>2 DEF Ingest, local, NoEmptyBatch, SentIsStored, Stored
<1>2. ASSUME NEW g \in Gateways, LoadPending(g) PROVE EvidenceInv'
  <2>1. RootsCommit'
    BY <1>2 DEF LoadPending, RootsCommit, Pending, WithStatus, TypeOK
  <2>2. AnchoredHasEvidence' /\ NoEmptyBatch' /\ SentIsStored'
    BY <1>2 DEF LoadPending, AnchoredHasEvidence, WithStatus, NoEmptyBatch, SentIsStored,
                Stored, TypeOK
  <2> QED BY <2>1, <2>2
<1>3. ASSUME NEW g \in Gateways, NEW l \in Logs, SaveHashed(g, l) PROVE EvidenceInv'
  <2>1. l \in DOMAIN copy[g] /\ copy[g][l] \in Row
    BY <1>3 DEF SaveHashed, TypeOK, IsCopy
  <2>2. /\ row'[l].status = "HASHED" /\ row'[l].root = copy[g][l].root
        /\ \A k \in Logs \ {l} : row'[k] = row[k]
    BY <1>3, <2>1 DEF SaveHashed, TypeOK, Row
  <2>3. AnchoredHasEvidence'
    BY <1>3, <2>2, EvidenceKept DEF SaveHashed
  <2>4. RootsCommit'
    BY <1>3, <2>1, <2>2 DEF SaveHashed, Saved, RootsCommit, Carries, TypeOK
  <2> QED BY <1>3, <2>3, <2>4 DEF SaveHashed, NoEmptyBatch, SentIsStored, Stored
<1>4. ASSUME NEW g \in Gateways, NEW l \in Logs, SaveFails(g, l) PROVE EvidenceInv'
  <2>1. RootsCommit'
    BY <1>4 DEF SaveFails, Saved, RootsCommit, Carries, TypeOK
  <2>2. AnchoredHasEvidence' /\ NoEmptyBatch' /\ SentIsStored'
    BY <1>4 DEF SaveFails, AnchoredHasEvidence, WithStatus, NoEmptyBatch, SentIsStored, Stored
  <2> QED BY <2>1, <2>2
<1>5. ASSUME NEW g \in Gateways, Reads(g) PROVE EvidenceInv'
  <2>0. PICK gate \in SUBSET Logs : ReadBatch(g, gate)
    BY <1>5 DEF Reads
  <2>1. PICK b \in OldestOf(Aggregable \cap gate) : batch' = [batch EXCEPT ![g] = b]
    BY <2>0 DEF ReadBatch
  <2>2. b # {}
    BY <2>0, BatchOfPool DEF ReadBatch, Aggregable, WithStatus
  <2>3. NoEmptyBatch'
    BY <2>0, <2>1, <2>2 DEF ReadBatch, NoEmptyBatch, TypeOK
  <2>4. RootsCommit' /\ SentIsStored' /\ AnchoredHasEvidence'
    BY <2>0 DEF ReadBatch, RootsCommit, SentIsStored, Stored, AnchoredHasEvidence, WithStatus,
                TypeOK
  <2> QED BY <2>3, <2>4
<1>6. ASSUME NEW g \in Gateways, SealBatch(g) PROVE EvidenceInv'
  <2>1. \A l \in Logs : /\ row'[l].status = "ANCHORED" => row'[l] = row[l]
                        /\ row'[l].root = IF l \in batch[g] THEN batch[g] ELSE row[l].root
    BY <1>6 DEF SealBatch, TypeOK, Row
  <2>2. AnchoredHasEvidence'
    BY <1>6, <2>1, EvidenceKept DEF SealBatch
  <2>3. RootsCommit'
    BY <1>6, <2>1 DEF SealBatch, RootsCommit, Carries
  <2>4. NoEmptyBatch'
    BY <1>6 DEF SealBatch, LeaveSeal, NoEmptyBatch, TypeOK
  <2>5. SentIsStored'
    BY <1>6 DEF SealBatch, LeaveSeal, SentIsStored, Stored, TypeOK
  <2> QED BY <2>2, <2>3, <2>4, <2>5
<1>7. ASSUME NEW g \in Gateways, NEW r \in Roots, SubmitRoot(g, r) PROVE EvidenceInv'
  <2>1. ledger' = Append(ledger, r) /\ UNCHANGED <<row, meta, copy, batch>>
    BY <1>7 DEF SubmitRoot
  <2>2. AnchoredHasEvidence'
    BY <2>1, LedgerKeeps, EvidenceKept
  <2>3. r # NoRoot /\ Len(ledger) + 1 \in DOMAIN ledger' /\ ledger'[Len(ledger) + 1] = r
    BY <1>7, <2>1, LedgerKeeps DEF SubmitRoot, NoEmptyBatch, NoRoot
  <2>4. SentIsStored'
    BY <1>7, <2>1, <2>3, LedgerKeeps DEF SubmitRoot, SentIsStored, Stored, TypeOK
  <2>5. RootsCommit' /\ NoEmptyBatch'
    BY <1>7, <2>1 DEF SubmitRoot, RootsCommit, NoEmptyBatch, TypeOK
  <2> QED BY <2>2, <2>4, <2>5
<1>8. ASSUME NEW g \in Gateways, NEW r \in Roots, SubmitFails(g, r) PROVE EvidenceInv'
  <2>1. /\ ledger' = ledger \/ ledger' = Append(ledger, r)
        /\ UNCHANGED <<row, meta, pc, copy, batch, sent>>
    BY <1>8 DEF SubmitFails
  <2>2. AnchoredHasEvidence'
    BY <2>1, LedgerKeeps, EvidenceKept
  <2>3. SentIsStored'
    BY <2>1, LedgerKeeps DEF SentIsStored, Stored
  <2>4. RootsCommit' /\ NoEmptyBatch'
    BY <2>1 DEF RootsCommit, NoEmptyBatch
  <2> QED BY <2>2, <2>3, <2>4
<1>9. ASSUME NEW g \in Gateways, MarkAnchored(g) PROVE EvidenceInv'
  <2>1. UNCHANGED <<meta, ledger, copy, batch>>
    BY <1>9 DEF MarkAnchored
  <2>2. Stored(sent[g]) /\ sent[g].root # NoRoot
    BY <1>9 DEF MarkAnchored, SentIsStored
  <2>3. \A l \in Logs :
          IF row[l].root = sent[g].root
          THEN row'[l].tx = sent[g].id /\ row'[l].root = row[l].root
          ELSE row'[l] = row[l]
    <3>1. \A l \in Logs : /\ Anchored(l, sent[g]).tx = sent[g].id
                          /\ Anchored(l, sent[g]).root = row[l].root
      BY DEF Anchored, TypeOK, Row
    <3>2. \A l \in Logs :
            row'[l] = IF row[l].root = sent[g].root THEN Anchored(l, sent[g]) ELSE row[l]
      BY <1>9 DEF MarkAnchored
    <3> QED BY <3>1, <3>2
  <2>4. RootsCommit'
    BY <2>1, <2>3 DEF RootsCommit, Carries
  <2>5. AnchoredHasEvidence'
    <3> SUFFICES ASSUME NEW l \in Logs, row'[l].status = "ANCHORED"
                 PROVE  /\ row'[l].tx \in DOMAIN ledger
                        /\ ledger[row'[l].tx] = row'[l].root
                        /\ l \in row'[l].root
      BY <2>1 DEF AnchoredHasEvidence, WithStatus
    <3>1. CASE row[l].root = sent[g].root
      BY <2>2, <2>3, <3>1 DEF Stored, RootsCommit, Carries
    <3>2. CASE row[l].root # sent[g].root
      BY <2>3, <3>2 DEF AnchoredHasEvidence, WithStatus
    <3> QED BY <3>1, <3>2
  <2>6. NoEmptyBatch' /\ SentIsStored'
    BY <1>9, <2>1 DEF MarkAnchored, LeaveMark, NoEmptyBatch, SentIsStored, Stored, TypeOK
  <2> QED BY <2>4, <2>5, <2>6
<1>10. ASSUME NEW g \in Gateways,
              \/ FinishHashing(g) \/ ReadsNothing(g) \/ RollBackBatch(g)
              \/ ReadRoots(g) \/ MarkFails(g) \/ FinishTick(g) \/ QueryFails(g)
       PROVE EvidenceInv'
  <2>1. /\ UNCHANGED <<row, meta, ledger, copy>>
        /\ \A h \in Gateways : pc'[h] = "seal" => pc[h] = "seal" /\ batch'[h] = batch[h]
        /\ \A h \in Gateways : pc'[h] = "mark" => pc[h] = "mark" /\ sent'[h] = sent[h]
    BY <1>10 DEF FinishHashing, ReadsNothing, NothingToSeal, RollBackBatch, ReadRoots,
                 MarkFails, FinishTick, QueryFails, LeaveSeal, LeaveMark, NextPhase, TypeOK
  <2> QED BY <2>1 DEF RootsCommit, NoEmptyBatch, SentIsStored, Stored, AnchoredHasEvidence,
                      WithStatus
<1>11. ASSUME NEW g \in Gateways, Crash(g) PROVE EvidenceInv'
  <2>1. AnchoredHasEvidence' /\ NoEmptyBatch' /\ SentIsStored'
    BY <1>11 DEF Crash, NoEmptyBatch, SentIsStored, Stored, AnchoredHasEvidence, WithStatus,
                 TypeOK
  <2>2. RootsCommit'
    BY <1>11 DEF Crash, RootsCommit, NoCopy, TypeOK
  <2> QED BY <2>1, <2>2
<1>12. CASE UNCHANGED vars
  BY <1>12 DEF vars, local, RootsCommit, NoEmptyBatch, SentIsStored, Stored,
               AnchoredHasEvidence, WithStatus
<1> QED
  BY <1>1, <1>2, <1>3, <1>4, <1>5, <1>6, <1>7, <1>8, <1>9, <1>10, <1>11, <1>12,
     GatedCases, AggregatesIs
  DEF Ticks, Hash, Anchor

(* Whoever reads ANCHORED finds the root of the log on the ledger, under   *)
(* the anchor ID of the row, with any number of gateways and faults.       *)
THEOREM Evidence == Spec \/ Gated => []AnchoredHasEvidence
<1>1. EvidenceInv => AnchoredHasEvidence
  BY DEF EvidenceInv
<1> QED BY <1>1, EvidenceInit, EvidenceStep, SpecIsGated, PTL DEF Gated

-----------------------------------------------------------------------------
(* The promise of AnchorLedger.  It is kept when there is one gateway, or  *)
(* when all rows come from the consumer, as they do in every deployment    *)
(* without a legacy backlog.  With a RECEIVED backlog and a second gateway *)
(* the statements are false: the hasher writes back whole rows that it has *)
(* read before.  The invariant: rows and merkle_metadata tell the same     *)
(* story.                                                                  *)

(* There is one hasher, or it never has anything to do.                    *)
SingleGateway == \A g, h \in Gateways : g = h
NoStaleCopies == Backlog = {} \/ SingleGateway

(* Without a backlog nothing is RECEIVED; what a hasher has in hand is as  *)
(* it was read.                                                            *)
CopiesCurrent ==
  /\ Backlog = {} => \A l \in Logs : row[l].status # "RECEIVED"
  /\ \A g \in Gateways : \A l \in DOMAIN copy[g] :
       row[l].status = "RECEIVED" /\ copy[g][l] = row[l]

(* A row has a root exactly from its aggregation on, a root that is in     *)
(* merkle_metadata, and no anchor ID before it is ANCHORED.                *)
RowsConsistent ==
  \A l \in Logs :
    /\ row[l].root # NoRoot <=> row[l].status \in {"AGGREGATED", "ANCHORED"}
    /\ row[l].root # NoRoot => row[l].root \in meta
    /\ row[l].status # "ANCHORED" => row[l].tx = 0

(* The leaves of a root are the rows that carry it.                        *)
LeavesCarryRoot == \A r \in meta : \A l \in r : row[l].root = r

(* Only sealed roots are sent to the ledger.                               *)
LedgerKnown ==
  /\ \A n \in DOMAIN ledger : ledger[n] \in meta
  /\ \A g \in Gateways : pc[g] = "mark" => sent[g].root \in meta

SealInv ==
  /\ EvidenceInv
  /\ CopiesCurrent /\ RowsConsistent /\ LeavesCarryRoot /\ LedgerKnown
  /\ BatchAnchoredTogether

LEMMA SealInit == Init => SealInv
<1> SUFFICES ASSUME Init PROVE SealInv
  OBVIOUS
<1>1. EvidenceInv
  BY EvidenceInit
<1>2. CopiesCurrent /\ RowsConsistent
  BY DEF Init, CopiesCurrent, RowsConsistent, NoRoot, NoCopy
<1>3. LeavesCarryRoot /\ LedgerKnown /\ BatchAnchoredTogether
  BY DEF Init, LeavesCarryRoot, LedgerKnown, BatchAnchoredTogether
<1> QED BY <1>1, <1>2, <1>3 DEF SealInv

-----------------------------------------------------------------------------
(* The steps, by what they do to the tables.                               *)

(* Every step leaves the tables alone, or is one of four writes.           *)
Stores(l) ==
  /\ row[l].status \in {"ABSENT", "RECEIVED"}
  /\ row' = [row EXCEPT ![l].status = "HASHED"]
  /\ UNCHANGED <<meta, ledger>>

Seals(b) ==
  /\ b # {} /\ b \in Roots /\ \A l \in b : row[l].status = "HASHED"
  /\ meta' = meta \cup {b}
  /\ row' = [l \in Logs |-> IF l \in b
                            THEN [row[l] EXCEPT !.status = "AGGREGATED", !.root = b]
                            ELSE row[l]]
  /\ UNCHANGED ledger

Submits(r) == r \in meta /\ ledger' = Append(ledger, r) /\ UNCHANGED <<row, meta>>

Marks(s) ==
  /\ s.root # NoRoot /\ s.root \in meta /\ Stored(s)
  /\ row' = [l \in Logs |-> IF row[l].root = s.root THEN Anchored(l, s) ELSE row[l]]
  /\ UNCHANGED <<meta, ledger>>

TableStep ==
  \/ UNCHANGED <<row, meta, ledger>>
  \/ \E l \in Logs : Stores(l)
  \/ \E b \in Roots : Seals(b)
  \/ \E r \in Roots : Submits(r)
  \/ \E g \in Gateways : Marks(sent[g])

LEMMA TablesOfStep ==
  ASSUME SealInv, [GatedNext]_vars
  PROVE  TableStep
<1> USE DEF SealInv, EvidenceInv
<1>1. ASSUME NEW l \in Logs, Ingest(l) PROVE TableStep
  BY <1>1 DEF Ingest, TableStep, Stores
<1>2. ASSUME NEW g \in Gateways, NEW l \in Logs, SaveHashed(g, l) PROVE TableStep
  <2>1. row[l].status = "RECEIVED" /\ copy[g][l] = row[l]
    BY <1>2 DEF SaveHashed, CopiesCurrent
  <2>2. Stores(l)
    BY <1>2, <2>1 DEF SaveHashed, Stores, TypeOK, Row
  <2> QED BY <2>2 DEF TableStep
<1>3. ASSUME NEW g \in Gateways, SealBatch(g) PROVE TableStep
  <2>1. Seals(batch[g]) /\ batch[g] \in Roots
    BY <1>3 DEF SealBatch, Sealable, Seals, NoEmptyBatch, TypeOK
  <2> QED BY <2>1 DEF TableStep
<1>4. ASSUME NEW g \in Gateways, NEW r \in Roots, SubmitRoot(g, r) PROVE TableStep
  BY <1>4 DEF SubmitRoot, TableStep, Submits
<1>5. ASSUME NEW g \in Gateways, NEW r \in Roots, SubmitFails(g, r) PROVE TableStep
  BY <1>5 DEF SubmitFails, TableStep, Submits
<1>6. ASSUME NEW g \in Gateways, MarkAnchored(g) PROVE TableStep
  <2>1. Marks(sent[g])
    BY <1>6 DEF MarkAnchored, Marks, SentIsStored, LedgerKnown
  <2> QED BY <2>1 DEF TableStep
<1>7. ASSUME NEW g \in Gateways,
             \/ LoadPending(g) \/ (\E l \in Logs : SaveFails(g, l)) \/ FinishHashing(g)
             \/ Reads(g) \/ ReadsNothing(g) \/ RollBackBatch(g)
             \/ ReadRoots(g) \/ MarkFails(g) \/ FinishTick(g) \/ QueryFails(g) \/ Crash(g)
      PROVE  TableStep
  BY <1>7 DEF LoadPending, SaveFails, FinishHashing, Reads, ReadsNothing, ReadBatch,
              NothingToSeal, RollBackBatch, ReadRoots, MarkFails, FinishTick, QueryFails, Crash, TableStep
<1>8. CASE UNCHANGED vars
  BY <1>8 DEF vars, TableStep
<1> QED
  BY <1>1, <1>2, <1>3, <1>4, <1>5, <1>6, <1>7, <1>8, GatedCases, AggregatesIs
  DEF Ticks, Hash, Anchor

(* What each write makes of a row.                                         *)
LEMMA RowsStored ==
  ASSUME SealInv, NEW l \in Logs, Stores(l)
  PROVE  /\ row'[l].status = "HASHED" /\ row'[l].root = row[l].root
         /\ row'[l].tx = row[l].tx
         /\ \A k \in Logs \ {l} : row'[k] = row[k]
BY DEF Stores, SealInv, EvidenceInv, TypeOK, Row

LEMMA RowsSealed ==
  ASSUME SealInv, NEW b \in Roots, Seals(b)
  PROVE  \A l \in Logs :
           IF l \in b THEN /\ row'[l].status = "AGGREGATED"
                           /\ row'[l].root = b
                           /\ row'[l].tx = row[l].tx
                      ELSE row'[l] = row[l]
BY DEF Seals, SealInv, EvidenceInv, TypeOK, Row

LEMMA RowsMarked ==
  ASSUME SealInv, NEW s, Marks(s)
  PROVE  \A l \in Logs :
           IF row[l].root = s.root THEN /\ row'[l].status = "ANCHORED"
                                        /\ row'[l].root = row[l].root
                                        /\ row'[l].tx = s.id
                                   ELSE row'[l] = row[l]
<1>1. \A l \in Logs : /\ Anchored(l, s).status = "ANCHORED"
                      /\ Anchored(l, s).root = row[l].root
                      /\ Anchored(l, s).tx = s.id
  BY DEF Anchored, SealInv, EvidenceInv, TypeOK, Row
<1>2. \A l \in Logs : row'[l] = IF row[l].root = s.root THEN Anchored(l, s) ELSE row[l]
  BY DEF Marks
<1> QED BY <1>1, <1>2

(* A batch that is sealed shares no log with the batches before it.        *)
LEMMA FreshBatch ==
  ASSUME SealInv, NEW b \in Roots, Seals(b), NEW r \in meta
  PROVE  r \cap b = {}
<1> SUFFICES ASSUME NEW l \in r, l \in b PROVE FALSE
  OBVIOUS
<1>1. row[l].root = r
  BY DEF SealInv, LeavesCarryRoot
<1>2. l \in Logs /\ row[l].status = "HASHED"
  BY DEF Seals, Roots
<1>3. row[l].root = {}
  BY <1>2 DEF SealInv, RowsConsistent, NoRoot
<1> QED BY <1>1, <1>3

-----------------------------------------------------------------------------
(* The invariant is preserved.                                             *)

LEMMA CopiesStep ==
  ASSUME SealInv, NoStaleCopies, [GatedNext]_vars
  PROVE  CopiesCurrent'
<1> USE DEF SealInv, EvidenceInv
<1>0. TypeOK /\ CopiesCurrent /\ RowsConsistent
  OBVIOUS
<1>1. ASSUME Backlog = {} PROVE \A k \in Logs : row'[k].status # "RECEIVED"
  <2>0. \A k \in Logs : row[k].status # "RECEIVED"
    BY <1>0, <1>1 DEF CopiesCurrent
  <2>1. CASE row' = row
    BY <2>0, <2>1
  <2>2. ASSUME NEW l \in Logs, Stores(l) PROVE \A k \in Logs : row'[k].status # "RECEIVED"
    BY <2>0, <2>2, RowsStored
  <2>3. ASSUME NEW b \in Roots, Seals(b) PROVE \A k \in Logs : row'[k].status # "RECEIVED"
    BY <2>0, <2>3, RowsSealed
  <2>4. ASSUME NEW g \in Gateways, Marks(sent[g])
        PROVE  \A k \in Logs : row'[k].status # "RECEIVED"
    BY <2>0, <2>4, RowsMarked
  <2> QED BY <2>1, <2>2, <2>3, <2>4, TablesOfStep DEF TableStep, Submits
<1> DEFINE Current(g, l) == row'[l].status = "RECEIVED" /\ copy'[g][l] = row'[l]
<1>2. ASSUME NEW g \in Gateways, LoadPending(g) PROVE CopiesCurrent'
  <2>1. row' = row /\ copy' = [copy EXCEPT ![g] = [l \in Pending |-> row[l]]]
    BY <1>2 DEF LoadPending
  <2>2. \A l \in Pending : row[l].status = "RECEIVED"
    BY DEF Pending, WithStatus
  <2> QED BY <1>0, <2>1, <2>2 DEF CopiesCurrent, TypeOK
<1>3. ASSUME NEW g \in Gateways, NEW l \in Logs, SaveHashed(g, l) PROVE CopiesCurrent'
  <2>1. /\ l \in DOMAIN copy[g] /\ row[l].status = "RECEIVED" /\ copy[g][l] = row[l]
        /\ copy' = [copy EXCEPT ![g] = [k \in DOMAIN copy[g] \ {l} |-> copy[g][k]]]
        /\ \A k \in Logs \ {l} : row'[k] = row[k]
    BY <1>0, <1>3 DEF SaveHashed, Saved, CopiesCurrent, TypeOK
  <2>2. SingleGateway
    BY <1>0, <2>1 DEF NoStaleCopies, CopiesCurrent
  <2>3. ASSUME NEW h \in Gateways, NEW k \in DOMAIN copy'[h] PROVE Current(h, k)
    <3>1. h = g /\ k # l /\ k \in DOMAIN copy[g] /\ copy'[h][k] = copy[g][k]
      BY <1>0, <2>1, <2>2, <2>3 DEF SingleGateway, TypeOK
    <3>2. k \in Logs
      BY <1>0, <3>1 DEF TypeOK, IsCopy
    <3> QED BY <1>0, <2>1, <3>1, <3>2 DEF CopiesCurrent
  <2> QED BY <1>1, <2>3 DEF CopiesCurrent
<1>4. ASSUME NEW g \in Gateways, NEW l \in Logs, SaveFails(g, l) PROVE CopiesCurrent'
  <2>1. row' = row /\ copy' = [copy EXCEPT ![g] = [k \in DOMAIN copy[g] \ {l} |-> copy[g][k]]]
    BY <1>4 DEF SaveFails, Saved
  <2>2. ASSUME NEW h \in Gateways, NEW k \in DOMAIN copy'[h] PROVE Current(h, k)
    <3>1. k \in DOMAIN copy[h] /\ copy'[h][k] = copy[h][k]
      BY <1>0, <2>1, <2>2 DEF TypeOK
    <3> QED BY <1>0, <2>1, <3>1 DEF CopiesCurrent
  <2> QED BY <1>1, <2>2 DEF CopiesCurrent
<1>5. ASSUME NEW g \in Gateways, Crash(g) PROVE CopiesCurrent'
  <2>1. row' = row /\ copy' = [copy EXCEPT ![g] = NoCopy] /\ DOMAIN NoCopy = {}
    BY <1>5 DEF Crash, NoCopy
  <2> QED BY <1>0, <2>1 DEF CopiesCurrent, TypeOK
<1>6. ASSUME copy' = copy, \A k \in Logs : row[k].status = "RECEIVED" => row'[k] = row[k]
      PROVE  CopiesCurrent'
  <2>1. ASSUME NEW h \in Gateways, NEW k \in DOMAIN copy[h]
        PROVE  k \in Logs /\ row[k].status = "RECEIVED" /\ copy[h][k] = row[k]
    BY <1>0, <2>1 DEF CopiesCurrent, TypeOK, IsCopy
  <2> QED BY <1>1, <1>6, <2>1 DEF CopiesCurrent
<1>7. ASSUME NEW l \in Logs, Ingest(l) PROVE CopiesCurrent'
  BY <1>0, <1>6, <1>7 DEF Ingest, local, TypeOK
<1>8. ASSUME NEW g \in Gateways, SealBatch(g) PROVE CopiesCurrent'
  <2>1. copy' = copy /\ \A k \in Logs : row[k].status = "RECEIVED" => row'[k] = row[k]
    BY <1>8 DEF SealBatch, Sealable
  <2> QED BY <1>6, <2>1
<1>9. ASSUME NEW g \in Gateways, MarkAnchored(g) PROVE CopiesCurrent'
  <2>1. sent[g].root # NoRoot
    BY <1>9 DEF MarkAnchored, SentIsStored
  <2>2. \A k \in Logs : row[k].status = "RECEIVED" => row[k].root = NoRoot
    BY <1>0 DEF RowsConsistent
  <2>3. copy' = copy /\ \A k \in Logs : row[k].status = "RECEIVED" => row'[k] = row[k]
    BY <1>9, <2>1, <2>2 DEF MarkAnchored
  <2> QED BY <1>6, <2>3
<1>10. ASSUME NEW g \in Gateways,
              \/ FinishHashing(g) \/ Reads(g) \/ ReadsNothing(g)
              \/ RollBackBatch(g) \/ ReadRoots(g) \/ MarkFails(g) \/ FinishTick(g)
              \/ QueryFails(g) \/ (\E r \in Roots : SubmitRoot(g, r) \/ SubmitFails(g, r))
       PROVE  CopiesCurrent'
  <2>1. copy' = copy /\ row' = row
    BY <1>10 DEF FinishHashing, Reads, ReadsNothing, ReadBatch, NothingToSeal, RollBackBatch,
                 ReadRoots, MarkFails, FinishTick, QueryFails, SubmitRoot, SubmitFails
  <2> QED BY <1>6, <2>1
<1>11. CASE UNCHANGED vars
  BY <1>6, <1>11 DEF vars, local
<1> QED BY <1>2, <1>3, <1>4, <1>5, <1>7, <1>8, <1>9, <1>10, <1>11,
           GatedCases, AggregatesIs
        DEF Ticks, Hash, Anchor

LEMMA RowsConsistentStep ==
  ASSUME SealInv, TableStep
  PROVE  RowsConsistent'
<1>1. CASE UNCHANGED <<row, meta, ledger>>
  BY <1>1 DEF SealInv, RowsConsistent
<1>2. ASSUME NEW l \in Logs, Stores(l) PROVE RowsConsistent'
  BY <1>2, RowsStored DEF SealInv, RowsConsistent, Stores
<1>3. ASSUME NEW b \in Roots, Seals(b) PROVE RowsConsistent'
  <2>1. meta' = meta \cup {b} /\ b # NoRoot
    BY <1>3 DEF Seals, NoRoot
  <2>2. \A l \in b : row[l].tx = 0
    BY <1>3 DEF SealInv, RowsConsistent, Seals, Roots
  <2> QED BY <1>3, <2>1, <2>2, RowsSealed DEF SealInv, RowsConsistent
<1>4. ASSUME NEW r \in Roots, Submits(r) PROVE RowsConsistent'
  BY <1>4 DEF SealInv, RowsConsistent, Submits
<1>5. ASSUME NEW g \in Gateways, Marks(sent[g]) PROVE RowsConsistent'
  BY <1>5, RowsMarked DEF SealInv, RowsConsistent, Marks
<1> QED BY <1>1, <1>2, <1>3, <1>4, <1>5 DEF TableStep

LEMMA LeavesCarryRootStep ==
  ASSUME SealInv, TableStep
  PROVE  LeavesCarryRoot'
<1>0. \A r \in meta : r \subseteq Logs
  BY DEF SealInv, EvidenceInv, TypeOK, Roots
<1>1. CASE UNCHANGED <<row, meta, ledger>>
  BY <1>1 DEF SealInv, LeavesCarryRoot
<1>2. ASSUME NEW l \in Logs, Stores(l) PROVE LeavesCarryRoot'
  BY <1>0, <1>2, RowsStored DEF SealInv, LeavesCarryRoot, Stores
<1>3. ASSUME NEW b \in Roots, Seals(b) PROVE LeavesCarryRoot'
  <2>1. \A l \in b : row'[l].root = b
    BY <1>3, RowsSealed DEF Roots
  <2>2. \A r \in meta : \A l \in r : row'[l].root = r
    BY <1>0, <1>3, RowsSealed, FreshBatch DEF SealInv, LeavesCarryRoot
  <2> QED BY <1>3, <2>1, <2>2 DEF Seals, LeavesCarryRoot
<1>4. ASSUME NEW r \in Roots, Submits(r) PROVE LeavesCarryRoot'
  BY <1>4 DEF SealInv, LeavesCarryRoot, Submits
<1>5. ASSUME NEW g \in Gateways, Marks(sent[g]) PROVE LeavesCarryRoot'
  BY <1>0, <1>5, RowsMarked DEF SealInv, LeavesCarryRoot, Marks
<1> QED BY <1>1, <1>2, <1>3, <1>4, <1>5 DEF TableStep

(* One UPDATE marks all rows of a root, for they all carry it.             *)
LEMMA TogetherStep ==
  ASSUME SealInv, TableStep
  PROVE  BatchAnchoredTogether'
<1>0. \A r \in meta : r \subseteq Logs
  BY DEF SealInv, EvidenceInv, TypeOK, Roots
<1>1. CASE UNCHANGED <<row, meta, ledger>>
  BY <1>1 DEF SealInv, BatchAnchoredTogether
<1>2. ASSUME NEW l \in Logs, Stores(l) PROVE BatchAnchoredTogether'
  <2>1. \A r \in meta : l \notin r
    BY <1>2 DEF SealInv, LeavesCarryRoot, RowsConsistent, Stores, NoRoot
  <2> QED BY <1>0, <1>2, <2>1, RowsStored DEF SealInv, BatchAnchoredTogether, Stores
<1>3. ASSUME NEW b \in Roots, Seals(b) PROVE BatchAnchoredTogether'
  <2>1. \A l, k \in b : row'[l].status = row'[k].status /\ row'[l].tx = row'[k].tx
    <3>1. \A l \in b : l \in Logs /\ row[l].tx = 0
      BY <1>3 DEF SealInv, RowsConsistent, Seals, Roots
    <3> QED BY <1>3, <3>1, RowsSealed
  <2>2. \A r \in meta : \A l \in r : row'[l] = row[l]
    BY <1>0, <1>3, RowsSealed, FreshBatch
  <2>3. meta' = meta \cup {b}
    BY <1>3 DEF Seals
  <2>4. \A r \in meta : \A l, k \in r : row'[l].status = row'[k].status /\ row'[l].tx = row'[k].tx
    BY <2>2 DEF SealInv, BatchAnchoredTogether
  <2> QED BY <2>1, <2>3, <2>4 DEF BatchAnchoredTogether
<1>4. ASSUME NEW r \in Roots, Submits(r) PROVE BatchAnchoredTogether'
  BY <1>4 DEF SealInv, BatchAnchoredTogether, Submits
<1>5. ASSUME NEW g \in Gateways, Marks(sent[g]) PROVE BatchAnchoredTogether'
  <2>1. \A r \in meta : \A l \in r : row[l].root = r
    BY DEF SealInv, LeavesCarryRoot
  <2> QED BY <1>0, <1>5, <2>1, RowsMarked DEF SealInv, BatchAnchoredTogether, Marks
<1> QED BY <1>1, <1>2, <1>3, <1>4, <1>5 DEF TableStep

LEMMA LedgerKnownStep ==
  ASSUME SealInv, [GatedNext]_vars
  PROVE  LedgerKnown'
<1> USE DEF SealInv, EvidenceInv
<1>1. \A r \in meta : r \in meta'
  BY TablesOfStep DEF TableStep, Stores, Seals, Submits, Marks
<1>2. \A n \in DOMAIN ledger' : ledger'[n] \in meta'
  <2>1. CASE ledger' = ledger
    BY <1>1, <2>1 DEF LedgerKnown
  <2>2. ASSUME NEW r \in Roots, Submits(r) PROVE \A n \in DOMAIN ledger' : ledger'[n] \in meta'
    <3>1. ledger \in Seq(Roots) /\ ledger' = Append(ledger, r) /\ r \in meta
      BY <2>2 DEF Submits, TypeOK
    <3>2. \A n \in DOMAIN ledger' : ledger'[n] = r \/ (n \in DOMAIN ledger /\ ledger'[n] = ledger[n])
      BY <3>1
    <3> QED BY <1>1, <3>1, <3>2 DEF LedgerKnown
  <2> QED BY <2>1, <2>2, TablesOfStep DEF TableStep, Stores, Seals, Marks
<1>3. \A g \in Gateways : pc'[g] = "mark" => sent'[g].root \in meta'
  <2>1. ASSUME NEW g \in Gateways, NEW r \in Roots, SubmitRoot(g, r)
        PROVE  \A h \in Gateways : pc'[h] = "mark" => sent'[h].root \in meta
    BY <2>1 DEF SubmitRoot, LedgerKnown, TypeOK
  <2>2. ASSUME NEW g \in Gateways, MarkAnchored(g) \/ MarkFails(g)
        PROVE  \A h \in Gateways : pc'[h] = "mark" => sent'[h].root \in meta
    BY <2>2 DEF MarkAnchored, MarkFails, LeaveMark, LedgerKnown, TypeOK
  <2>3. ASSUME NEW g \in Gateways, Crash(g)
        PROVE  \A h \in Gateways : pc'[h] = "mark" => sent'[h].root \in meta
    BY <2>3 DEF Crash, LedgerKnown, TypeOK
  <2>4. ASSUME NEW g \in Gateways,
               \/ Hash(g) \/ Aggregates(g) \/ QueryFails(g) \/ ReadRoots(g) \/ FinishTick(g)
               \/ (\E r \in Roots : SubmitFails(g, r))
        PROVE  \A h \in Gateways : pc'[h] = "mark" => sent'[h].root \in meta
    <3>1. CASE Hash(g)
      BY <2>4, <3>1 DEF Hash, LoadPending, SaveHashed, SaveFails, FinishHashing, LedgerKnown, TypeOK
    <3>2. CASE Aggregates(g)
      BY <3>2 DEF Aggregates, Aggregate, ReadBatch, NothingToSeal, SealBatch,
                     RollBackBatch, LeaveSeal,
                  LedgerKnown, TypeOK
    <3>3. CASE QueryFails(g)
      BY <3>3 DEF QueryFails, NextPhase, LedgerKnown, TypeOK
    <3>4. CASE ReadRoots(g) \/ FinishTick(g) \/ \E r \in Roots : SubmitFails(g, r)
      BY <3>4 DEF ReadRoots, FinishTick, SubmitFails, LedgerKnown, TypeOK
    <3> QED BY <2>4, <3>1, <3>2, <3>3, <3>4
  <2>5. ASSUME (\E l \in Logs : Ingest(l)) \/ UNCHANGED vars
        PROVE  \A h \in Gateways : pc'[h] = "mark" => sent'[h].root \in meta
    BY <2>5 DEF Ingest, vars, local, LedgerKnown
  <2> QED BY <1>1, <2>1, <2>2, <2>3, <2>4, <2>5, GatedCases DEF Ticks, Anchor
<1> QED BY <1>2, <1>3 DEF LedgerKnown

LEMMA SealStep ==
  ASSUME NoStaleCopies
  PROVE  SealInv /\ [GatedNext]_vars => SealInv'
<1> SUFFICES ASSUME SealInv, [GatedNext]_vars PROVE SealInv'
  OBVIOUS
<1>1. TableStep
  BY TablesOfStep
<1>2. EvidenceInv'
  BY EvidenceStep DEF SealInv
<1> QED BY <1>1, <1>2, CopiesStep, RowsConsistentStep, LeavesCarryRootStep,
           TogetherStep, LedgerKnownStep DEF SealInv

-----------------------------------------------------------------------------
(* The results.                                                            *)

(* No log is ever committed to two roots, and its row names the one it is  *)
(* in, however many gateways seal batches at the same time.                *)
THEOREM OneBatch ==
  ASSUME NoStaleCopies
  PROVE  Spec \/ Gated => []OneBatchPerLog
<1>1. SealInv => OneBatchPerLog
  BY DEF SealInv, LeavesCarryRoot, OneBatchPerLog
<1> QED BY <1>1, SealInit, SealStep, SpecIsGated, PTL DEF Gated

(* The rows of a root always have the same status and the same anchor ID.  *)
THEOREM Together ==
  ASSUME NoStaleCopies
  PROVE  Spec \/ Gated => []BatchAnchoredTogether
<1>1. SealInv => BatchAnchoredTogether
  BY DEF SealInv
<1> QED BY <1>1, SealInit, SealStep, SpecIsGated, PTL DEF Gated

(* No row moves back in the pipeline and no root is taken from a row.      *)
THEOREM Forward ==
  ASSUME NoStaleCopies
  PROVE  Spec \/ Gated => StatusNeverRegresses
<1>1. SealInv /\ [GatedNext]_vars => [\A l \in Logs : NeverRegresses(l)]_vars
  <2> SUFFICES ASSUME SealInv, [GatedNext]_vars PROVE \A l \in Logs : NeverRegresses(l)
    OBVIOUS
  <2>0. \A l \in Logs : row[l] \in Row
    BY DEF SealInv, EvidenceInv, TypeOK
  <2>1. CASE UNCHANGED <<row, meta, ledger>>
    BY <2>0, <2>1 DEF NeverRegresses, Rank, Row, Statuses
  <2>2. ASSUME NEW l \in Logs, Stores(l) PROVE \A k \in Logs : NeverRegresses(k)
    BY <2>0, <2>2, RowsStored DEF NeverRegresses, Rank, Stores, Row, Statuses
  <2>3. ASSUME NEW b \in Roots, Seals(b) PROVE \A k \in Logs : NeverRegresses(k)
    <3> SUFFICES ASSUME NEW k \in Logs PROVE NeverRegresses(k)
      OBVIOUS
    <3>1. CASE k \in b
      <4>1. row[k].status = "HASHED" /\ row[k].root = NoRoot
        BY <2>3, <3>1 DEF Seals, SealInv, RowsConsistent
      <4>2. row'[k].status = "AGGREGATED"
        BY <2>3, <3>1, RowsSealed
      <4> QED BY <4>1, <4>2 DEF NeverRegresses, Rank
    <3>2. CASE k \notin b
      <4>1. row'[k] = row[k]
        BY <2>3, <3>2, RowsSealed
      <4> QED BY <2>0, <4>1 DEF NeverRegresses, Rank, Row, Statuses
    <3> QED BY <3>1, <3>2
  <2>4. ASSUME NEW r \in Roots, Submits(r) PROVE \A k \in Logs : NeverRegresses(k)
    BY <2>0, <2>4 DEF NeverRegresses, Rank, Submits, Row, Statuses
  <2>5. ASSUME NEW g \in Gateways, Marks(sent[g]) PROVE \A k \in Logs : NeverRegresses(k)
    <3> SUFFICES ASSUME NEW k \in Logs PROVE NeverRegresses(k)
      OBVIOUS
    <3>1. CASE row[k].root = sent[g].root
      <4>1. row'[k].status = "ANCHORED" /\ row'[k].root = row[k].root
        BY <2>5, <3>1, RowsMarked
      <4> QED BY <2>0, <4>1 DEF NeverRegresses, Rank, Row, Statuses
    <3>2. CASE row[k].root # sent[g].root
      <4>1. row'[k] = row[k]
        BY <2>5, <3>2, RowsMarked
      <4> QED BY <2>0, <4>1 DEF NeverRegresses, Rank, Row, Statuses
    <3> QED BY <3>1, <3>2
  <2> QED BY <2>1, <2>2, <2>3, <2>4, <2>5, TablesOfStep DEF TableStep
<1> QED BY <1>1, SealInit, SealStep, SpecIsGated, PTL DEF Gated, StatusNeverRegresses

(* The pipeline implements the safety part of AnchorLedger.                *)
THEOREM KeepsPromise ==
  ASSUME NoStaleCopies
  PROVE  Spec \/ Gated => Promise!Safety
<1>1. Init => Promise!Init
  BY DEF Init, Promise!Init, RootsOnLedger, RootsShown
<1>2. SealInv /\ [GatedNext]_vars => [Promise!Next]_Promise!ledgerVars
  <2> SUFFICES ASSUME SealInv, [GatedNext]_vars PROVE [Promise!Next]_Promise!ledgerVars
    OBVIOUS
  <2>0. \A r \in meta : r \subseteq Logs /\ r # {}
    BY DEF SealInv, EvidenceInv, NoEmptyBatch, TypeOK, Roots
  <2>1. CASE UNCHANGED <<row, meta, ledger>>
    BY <2>1 DEF Promise!ledgerVars, RootsOnLedger, RootsShown, WithStatus
  <2>2. ASSUME NEW l \in Logs, Stores(l) PROVE UNCHANGED Promise!ledgerVars
    <3>1. row[l].status # "ANCHORED" /\ row'[l].status # "ANCHORED"
      BY <2>2, RowsStored DEF Stores
    <3>2. WithStatus("ANCHORED")' = WithStatus("ANCHORED")
      BY <2>2, <3>1, RowsStored DEF WithStatus
    <3> QED BY <2>2, <3>2 DEF Stores, Promise!ledgerVars, RootsOnLedger, RootsShown
  <2>3. ASSUME NEW b \in Roots, Seals(b) PROVE Promise!Seal(b) /\ b \in Promise!Batches
    <3>1. \A r \in meta : r \cap b = {}
      BY <2>3, FreshBatch
    <3>2. WithStatus("ANCHORED")' = WithStatus("ANCHORED")
      BY <2>3, RowsSealed DEF Seals, WithStatus
    <3>3. ~(b \subseteq WithStatus("ANCHORED"))
      BY <2>3 DEF Seals, WithStatus
    <3>4. RootsShown' = RootsShown
      BY <2>3, <3>2, <3>3 DEF Seals, RootsShown
    <3>5. RootsOnLedger' = RootsOnLedger /\ meta' = meta \cup {b}
      BY <2>3 DEF Seals, RootsOnLedger
    <3>6. Promise!Seal(b)
      BY <3>1, <3>4, <3>5 DEF Promise!Seal
    <3>7. b \in Promise!Batches
      BY <2>3 DEF Seals, Promise!Batches, Roots
    <3> QED BY <3>6, <3>7
  <2>4. ASSUME NEW r \in Roots, Submits(r) PROVE Promise!Witness(r) /\ r \in Promise!Batches
    <3>1. ledger \in Seq(Roots) /\ ledger' = Append(ledger, r)
      BY <2>4 DEF Submits, SealInv, EvidenceInv, TypeOK
    <3>2. RootsOnLedger' = RootsOnLedger \cup {r}
      BY <3>1 DEF RootsOnLedger
    <3>3. RootsShown' = RootsShown
      BY <2>4 DEF Submits, RootsShown, WithStatus
    <3>4. r \in meta /\ meta' = meta
      BY <2>4 DEF Submits
    <3>5. Promise!Witness(r)
      BY <3>2, <3>3, <3>4 DEF Promise!Witness
    <3>6. r \in Promise!Batches
      BY <2>0, <3>4 DEF Promise!Batches
    <3> QED BY <3>5, <3>6
  <2>5. ASSUME NEW g \in Gateways, Marks(sent[g])
        PROVE  Promise!Attest(sent[g].root) /\ sent[g].root \in Promise!Batches
    <3> DEFINE b == sent[g].root
    <3>1. b \in meta /\ b \in RootsOnLedger
      BY <2>5 DEF Marks, Stored, RootsOnLedger
    <3>2. \A r \in meta : \A l \in r : row[l].root = r
      BY DEF SealInv, LeavesCarryRoot
    <3>3. b \subseteq WithStatus("ANCHORED")'
      BY <2>0, <2>5, <3>1, <3>2, RowsMarked DEF WithStatus
    <3>4. \A r \in meta \ {b} : r \subseteq WithStatus("ANCHORED")' <=> r \subseteq WithStatus("ANCHORED")
      BY <2>0, <2>5, <3>2, RowsMarked DEF WithStatus
    <3>5. RootsShown' = RootsShown \cup {b}
      BY <2>5, <3>1, <3>3, <3>4 DEF RootsShown, Marks
    <3>6. RootsOnLedger' = RootsOnLedger /\ meta' = meta
      BY <2>5 DEF Marks, RootsOnLedger
    <3>7. Promise!Attest(b)
      BY <3>1, <3>5, <3>6 DEF Promise!Attest
    <3>8. b \in Promise!Batches
      BY <2>0, <3>1 DEF Promise!Batches
    <3> QED BY <3>7, <3>8
  <2> QED BY <2>1, <2>2, <2>3, <2>4, <2>5, TablesOfStep DEF TableStep, Promise!Next
<1> QED BY <1>1, <1>2, SealInit, SealStep, SpecIsGated, PTL DEF Gated, Promise!Safety

-----------------------------------------------------------------------------
(* One gateway: nothing is anchored twice but by a retry.                  *)

Unanchored(r) == \A l \in r : row[l].status = "AGGREGATED"

(* What the gateway is about to submit or to mark is not anchored yet.     *)
Fresh ==
  \A g \in Gateways :
    /\ todo[g] # {} => pc[g] \in {"submit", "mark"}
    /\ pc[g] = "mark" => sent[g].root \in meta /\ Unanchored(sent[g].root)
    /\ \A r \in todo[g] : /\ r \in meta /\ Unanchored(r)
                          /\ pc[g] = "mark" => r # sent[g].root

(* Batches that will be submitted without any fault.                       *)
InFlight == {sent[g].root : g \in {h \in Gateways : pc[h] = "mark"}}
Waiting == {r \in meta : Unanchored(r) /\ r \notin InFlight}
Budget == Len(ledger) + Cardinality(Waiting) <= Cardinality(meta) + faults

SingleInv == SealInv /\ Fresh /\ Budget

LEMMA MetaFinite ==
  ASSUME TypeOK
  PROVE  /\ IsFiniteSet(meta) /\ IsFiniteSet(Waiting) /\ Len(ledger) \in Nat /\ faults \in Nat
         /\ Cardinality(meta) \in Nat /\ Cardinality(Waiting) \in Nat
<1>1. IsFiniteSet(SUBSET Logs)
  BY LogsAssumption, FS_SUBSET
<1>2. meta \in SUBSET (SUBSET Logs) /\ Waiting \in SUBSET meta
  BY DEF TypeOK, Roots, Waiting
<1>3. IsFiniteSet(meta) /\ IsFiniteSet(Waiting)
  BY <1>1, <1>2, FS_Subset
<1> QED BY <1>3, FS_CardinalityType, BoundsAssumption DEF TypeOK

(* The rows of a root that is pending all wait for its anchor.             *)
LEMMA PendingFresh ==
  ASSUME SealInv
  PROVE  \A r \in PendingRoots : r \in meta /\ Unanchored(r)
<1> SUFFICES ASSUME NEW l \in Logs, row[l].status = "AGGREGATED"
             PROVE  row[l].root \in meta /\ Unanchored(row[l].root)
  BY DEF PendingRoots, WithStatus
<1>1. row[l].root \in meta /\ l \in row[l].root
  BY DEF SealInv, RowsConsistent, EvidenceInv, RootsCommit, Carries
<1> QED BY <1>1 DEF SealInv, BatchAnchoredTogether, Unanchored

(* A step that writes no rows and no metadata, and submits nothing.        *)
LEMMA FreshFrame ==
  ASSUME SealInv, Fresh, UNCHANGED <<row, meta>>,
         \A g \in Gateways :
           /\ todo'[g] \subseteq todo[g] \cup (IF pc'[g] = "mark" THEN {} ELSE PendingRoots)
           /\ todo'[g] # {} => pc'[g] \in {"submit", "mark"}
           /\ pc'[g] = "mark" => pc[g] = "mark" /\ sent'[g] = sent[g]
  PROVE  Fresh'
<1>1. \A r : Unanchored(r)' = Unanchored(r)
  BY DEF Unanchored
<1> SUFFICES ASSUME NEW g \in Gateways
             PROVE  /\ todo'[g] # {} => pc'[g] \in {"submit", "mark"}
                    /\ pc'[g] = "mark" => sent'[g].root \in meta /\ Unanchored(sent'[g].root)
                    /\ \A r \in todo'[g] : /\ r \in meta /\ Unanchored(r)
                                           /\ pc'[g] = "mark" => r # sent'[g].root
  BY <1>1 DEF Fresh, Unanchored
<1>2. pc'[g] = "mark" => sent'[g].root \in meta /\ Unanchored(sent'[g].root)
  BY DEF Fresh
<1>3. ASSUME NEW r \in todo'[g]
      PROVE  /\ r \in meta /\ Unanchored(r)
             /\ pc'[g] = "mark" => r # sent'[g].root
  <2>1. CASE r \in todo[g]
    BY <2>1 DEF Fresh
  <2>2. CASE r \notin todo[g]
    BY <2>2, PendingFresh
  <2> QED BY <2>1, <2>2
<1> QED BY <1>2, <1>3

LEMMA BudgetKept ==
  ASSUME TypeOK, TypeOK', Budget, meta' = meta, Waiting' \subseteq Waiting,
         \/ ledger' = ledger /\ faults' >= faults
         \/ Len(ledger') = Len(ledger) + 1 /\ faults' = faults + 1
  PROVE  Budget'
<1>1. Waiting' \in SUBSET Waiting
  OBVIOUS
<1>2. /\ IsFiniteSet(Waiting) /\ Len(ledger) \in Nat /\ faults \in Nat /\ faults' \in Nat
      /\ Cardinality(meta) \in Nat /\ Cardinality(Waiting) \in Nat /\ Len(ledger') \in Nat
  BY MetaFinite, BoundsAssumption DEF TypeOK
<1>3. Cardinality(Waiting') \in Nat /\ Cardinality(Waiting') <= Cardinality(Waiting)
  BY <1>1, <1>2, FS_Subset, FS_CardinalityType
<1> QED BY <1>2, <1>3 DEF Budget

(* A batch that was sealed, or whose submission was not recorded, waits.   *)
LEMMA OneMoreWaits ==
  ASSUME TypeOK, TypeOK', NEW b, Waiting' \subseteq Waiting \cup {b}
  PROVE  Cardinality(Waiting') <= Cardinality(Waiting) + 1 /\ Cardinality(Waiting') \in Nat
<1>1. Waiting' \in SUBSET (Waiting \cup {b}) /\ IsFiniteSet(Waiting)
  BY MetaFinite
<1>2. /\ IsFiniteSet(Waiting \cup {b}) /\ Cardinality(Waiting) \in Nat
      /\ Cardinality(Waiting \cup {b}) \in {Cardinality(Waiting), Cardinality(Waiting) + 1}
  BY <1>1, FS_AddElement, FS_CardinalityType
<1>3. Cardinality(Waiting') \in Nat /\ Cardinality(Waiting') <= Cardinality(Waiting \cup {b})
  BY <1>1, <1>2, FS_Subset, FS_CardinalityType
<1> QED BY <1>2, <1>3

Quiet(g) ==
  \/ LoadPending(g) \/ (\E l \in Logs : SaveFails(g, l)) \/ FinishHashing(g)
  \/ Reads(g) \/ ReadsNothing(g) \/ RollBackBatch(g)
  \/ ReadRoots(g) \/ FinishTick(g) \/ QueryFails(g)

LEMMA QuietSteps ==
  ASSUME SingleInv, TypeOK', SingleGateway, NEW g \in Gateways, Quiet(g)
  PROVE  Fresh' /\ Budget'
<1>1. TypeOK /\ SealInv /\ Fresh /\ Budget
  BY DEF SingleInv, SealInv, EvidenceInv
<1>2. /\ UNCHANGED <<row, meta, ledger, sent>> /\ pc[g] # "mark" /\ pc'[g] # "mark"
      /\ faults' = faults \/ faults' = faults + 1
      /\ \/ todo' = todo /\ (pc[g] \in {"submit", "mark"} => pc'[g] = pc[g] \/ todo[g] = {})
         \/ todo' = [todo EXCEPT ![g] = PendingRoots] /\ pc'[g] = "submit"
  <2>1. CASE Reads(g) \/ ReadsNothing(g)
    BY <1>1, <2>1 DEF Reads, ReadsNothing, ReadBatch, NothingToSeal, TypeOK
  <2>2. CASE QueryFails(g)
    BY <1>1, <2>2 DEF QueryFails, NextPhase, Spend, TypeOK
  <2>3. CASE \/ LoadPending(g) \/ (\E l \in Logs : SaveFails(g, l)) \/ FinishHashing(g)
             \/ RollBackBatch(g) \/ ReadRoots(g) \/ FinishTick(g)
    BY <1>1, <2>3 DEF LoadPending, SaveFails, FinishHashing, RollBackBatch, LeaveSeal, ReadRoots,
                      FinishTick, Spend, TypeOK
  <2> QED BY <2>1, <2>2, <2>3 DEF Quiet
<1>3. Fresh'
  <2>1. /\ todo'[g] \subseteq todo[g] \cup PendingRoots
        /\ todo'[g] # {} => pc'[g] \in {"submit", "mark"}
    BY <1>1, <1>2 DEF Fresh, TypeOK
  <2>2. \A h \in Gateways : h = g
    BY DEF SingleGateway
  <2>3. \A h \in Gateways :
          /\ todo'[h] \subseteq todo[h] \cup (IF pc'[h] = "mark" THEN {} ELSE PendingRoots)
          /\ todo'[h] # {} => pc'[h] \in {"submit", "mark"}
          /\ pc'[h] = "mark" => pc[h] = "mark" /\ sent'[h] = sent[h]
    BY <1>2, <2>1, <2>2
  <2> QED BY <1>1, <1>2, <2>3, FreshFrame
<1>4. Waiting' = Waiting
  <2>1. InFlight = {} /\ InFlight' = {}
    BY <1>2 DEF InFlight, SingleGateway
  <2> QED BY <1>2, <2>1 DEF Waiting, Unanchored
<1>5. faults' >= faults
  BY <1>1, <1>2, MetaFinite
<1> QED BY <1>1, <1>2, <1>3, <1>4, <1>5, BudgetKept

(* A row that is stored or hashed is in no batch.                          *)
LEMMA StoreSteps ==
  ASSUME SingleInv, TypeOK', NEW l \in Logs, Stores(l), UNCHANGED <<pc, todo, sent, faults>>
  PROVE  Fresh' /\ Budget'
<1>1. TypeOK /\ SealInv /\ Fresh /\ Budget
  BY DEF SingleInv, SealInv, EvidenceInv
<1>2. \A r \in meta : l \notin r /\ r \subseteq Logs
  <2>1. row[l].root = {} /\ \A r \in meta : r \subseteq Logs
    BY <1>1 DEF SealInv, RowsConsistent, Stores, NoRoot, TypeOK, Roots
  <2>2. \A r \in meta : \A k \in r : row[k].root = r
    BY <1>1 DEF SealInv, LeavesCarryRoot
  <2> QED BY <2>1, <2>2
<1>3. \A r \in meta : Unanchored(r)' <=> Unanchored(r)
  BY <1>1, <1>2, RowsStored DEF Unanchored
<1>4. meta' = meta /\ ledger' = ledger
  BY DEF Stores
<1>5. Fresh'
  BY <1>1, <1>3, <1>4 DEF Fresh
<1>6. Waiting' = Waiting
  BY <1>3, <1>4 DEF Waiting, InFlight
<1> QED BY <1>1, <1>4, <1>5, <1>6, MetaFinite, BudgetKept

LEMMA SealSteps ==
  ASSUME SingleInv, TypeOK', SingleGateway, NEW g \in Gateways, SealBatch(g)
  PROVE  Fresh' /\ Budget'
<1>1. TypeOK /\ SealInv /\ Fresh /\ Budget
  BY DEF SingleInv, SealInv, EvidenceInv
<1>2. PICK b \in Roots : b = batch[g]
  BY <1>1 DEF TypeOK
<1>3. /\ pc[g] = "seal" /\ pc'[g] = "anchor" /\ UNCHANGED <<ledger, todo, sent, faults>>
      /\ b \notin meta /\ meta' = meta \cup {b} /\ Seals(b)
  BY <1>1, <1>2 DEF SealBatch, Sealable, LeaveSeal, TypeOK, Seals, SealInv, EvidenceInv, NoEmptyBatch
<1>4. Fresh'
  BY <1>1, <1>3 DEF Fresh, SingleGateway
<1>5. Waiting' \subseteq Waiting \cup {b}
  <2>1. \A r \in meta : Unanchored(r)' => Unanchored(r)
    <3>1. \A r \in meta : \A l \in r : row'[l] = row[l]
      <4>1. \A r \in meta : r \subseteq Logs
        BY <1>1 DEF TypeOK, Roots
      <4> QED BY <1>1, <1>3, <4>1, RowsSealed, FreshBatch
    <3> QED BY <3>1 DEF Unanchored
  <2>2. InFlight = {}
    BY <1>3 DEF InFlight, SingleGateway
  <2> QED BY <1>3, <2>1, <2>2 DEF Waiting
<1>6. Cardinality(Waiting') <= Cardinality(Waiting) + 1 /\ Cardinality(Waiting') \in Nat
  BY <1>1, <1>5, OneMoreWaits
<1>7. Cardinality(meta') = Cardinality(meta) + 1
  BY <1>1, <1>3, MetaFinite, FS_AddElement
<1>8. Budget'
  BY <1>1, <1>3, <1>6, <1>7, MetaFinite DEF Budget
<1> QED BY <1>4, <1>8

LEMMA SubmitSteps ==
  ASSUME SingleInv, TypeOK', SingleGateway, NEW g \in Gateways, NEW r \in Roots,
         SubmitRoot(g, r) \/ SubmitFails(g, r)
  PROVE  Fresh' /\ Budget'
<1>1. TypeOK /\ SealInv /\ Fresh /\ Budget
  BY DEF SingleInv, SealInv, EvidenceInv
<1>2. /\ pc[g] = "submit" /\ r \in todo[g] /\ r \in meta /\ Unanchored(r)
      /\ UNCHANGED <<row, meta>> /\ todo' = [todo EXCEPT ![g] = @ \ {r}]
  BY <1>1 DEF SubmitRoot, SubmitFails, Skip, Fresh
<1>3. \A s \in meta : Unanchored(s)' <=> Unanchored(s)
  BY <1>2 DEF Unanchored
<1>4. InFlight = {} /\ todo'[g] = todo[g] \ {r}
  BY <1>1, <1>2 DEF InFlight, SingleGateway, TypeOK
<1>5. CASE SubmitRoot(g, r)
  <2>1. /\ pc'[g] = "mark" /\ sent'[g].root = r /\ faults' = faults
        /\ ledger' = Append(ledger, r)
    BY <1>1, <1>5 DEF SubmitRoot, TypeOK
  <2>2. Fresh'
    BY <1>1, <1>2, <1>3, <1>4, <2>1 DEF Fresh, SingleGateway
  <2>3. Len(ledger') = Len(ledger) + 1
    BY <1>1, <2>1 DEF TypeOK
  <2>4. r \in Waiting
    BY <1>2, <1>4 DEF Waiting
  <2>5. r \in InFlight'
    BY <2>1 DEF InFlight
  <2>6. Waiting' \in SUBSET (Waiting \ {r})
    BY <1>2, <1>3, <1>4, <2>5 DEF Waiting
  <2>7. IsFiniteSet(Waiting \ {r}) /\ Cardinality(Waiting \ {r}) = Cardinality(Waiting) - 1
    BY <1>1, <2>4, MetaFinite, FS_RemoveElement
  <2>8. Cardinality(Waiting') \in Nat /\ Cardinality(Waiting') <= Cardinality(Waiting) - 1
    BY <2>6, <2>7, FS_Subset, FS_CardinalityType
  <2>9. Budget'
    BY <1>1, <1>2, <2>1, <2>3, <2>8, MetaFinite DEF Budget
  <2> QED BY <2>2, <2>9
<1>6. CASE SubmitFails(g, r)
  <2>1. /\ UNCHANGED <<pc, sent>> /\ faults' = faults + 1
        /\ ledger' = ledger \/ ledger' = Append(ledger, r)
    BY <1>2, <1>6 DEF SubmitFails, Spend
  <2>2. Fresh'
    BY <1>1, <1>2, <1>3, <1>4, <2>1 DEF Fresh, SingleGateway
  <2>3. Waiting' = Waiting
    BY <1>2, <1>3, <2>1 DEF Waiting, InFlight
  <2>4. ledger' = ledger \/ Len(ledger') = Len(ledger) + 1
    BY <1>1, <2>1 DEF TypeOK
  <2> QED BY <1>1, <1>2, <2>1, <2>2, <2>3, <2>4, MetaFinite, BudgetKept
<1> QED BY <1>5, <1>6

LEMMA MarkSteps ==
  ASSUME SingleInv, TypeOK', SingleGateway, NEW g \in Gateways,
         MarkAnchored(g) \/ MarkFails(g) \/ Crash(g)
  PROVE  Fresh' /\ Budget'
<1>1. TypeOK /\ SealInv /\ Fresh /\ Budget
  BY DEF SingleInv, SealInv, EvidenceInv
<1>2. /\ UNCHANGED <<meta, ledger>> /\ pc'[g] # "mark" /\ todo'[g] \in {todo[g], {}}
      /\ todo'[g] # {} => pc'[g] = "submit"
  BY <1>1 DEF MarkAnchored, MarkFails, Crash, LeaveMark, TypeOK
<1>3. PICK r : r = sent[g].root
  OBVIOUS
<1>4. InFlight' = {} /\ InFlight \subseteq {r} /\ (pc[g] = "mark" => InFlight = {r})
  BY <1>2, <1>3 DEF InFlight, SingleGateway
<1>5. CASE MarkAnchored(g)
  <2>1. Marks(sent[g]) /\ faults' = faults /\ pc[g] = "mark" /\ todo' = todo
    BY <1>1, <1>5 DEF MarkAnchored, Marks, SealInv, EvidenceInv, SentIsStored, LedgerKnown
  <2>2. \A s \in meta : s \subseteq Logs /\ s # {} /\ \A l \in s : row[l].root = s
    BY <1>1 DEF SealInv, EvidenceInv, NoEmptyBatch, LeavesCarryRoot, TypeOK, Roots
  <2>3. \A s \in meta : IF s = r THEN ~Unanchored(s)' ELSE Unanchored(s)' <=> Unanchored(s)
    BY <1>1, <1>3, <2>1, <2>2, RowsMarked DEF Unanchored
  <2>4. Fresh'
    BY <1>1, <1>2, <1>3, <2>1, <2>3 DEF Fresh, SingleGateway
  <2>5. Waiting' \subseteq Waiting
    BY <1>2, <1>4, <2>3 DEF Waiting
  <2> QED BY <1>1, <1>2, <2>1, <2>4, <2>5, MetaFinite, BudgetKept
<1>6. CASE MarkFails(g) \/ Crash(g)
  <2>1. row' = row /\ faults' = faults + 1
    BY <1>6 DEF MarkFails, Crash, Spend
  <2>2. \A s \in meta : Unanchored(s)' <=> Unanchored(s)
    BY <2>1 DEF Unanchored
  <2>3. Fresh'
    BY <1>1, <1>2, <2>2 DEF Fresh, SingleGateway
  <2>4. Waiting' \subseteq Waiting \cup {r}
    BY <1>2, <1>4, <2>2 DEF Waiting
  <2>5. Cardinality(Waiting') <= Cardinality(Waiting) + 1 /\ Cardinality(Waiting') \in Nat
    BY <1>1, <2>4, OneMoreWaits
  <2>6. Budget'
    BY <1>1, <1>2, <2>1, <2>5, MetaFinite DEF Budget
  <2> QED BY <2>3, <2>6
<1> QED BY <1>5, <1>6

LEMMA SingleSteps ==
  GatedNext =>
    \/ \E l \in Logs : Ingest(l)
    \/ \E g \in Gateways :
         \/ \E l \in Logs : SaveHashed(g, l)
         \/ Quiet(g)
         \/ SealBatch(g)
         \/ \E r \in Roots : SubmitRoot(g, r) \/ SubmitFails(g, r)
         \/ MarkAnchored(g) \/ MarkFails(g) \/ Crash(g)
BY GatedCases, AggregatesIs DEF Ticks, Hash, Anchor, Quiet

LEMMA SingleStep ==
  ASSUME SingleGateway
  PROVE  SingleInv /\ [GatedNext]_vars => SingleInv'
<1> SUFFICES ASSUME SingleInv, [GatedNext]_vars PROVE SingleInv'
  OBVIOUS
<1>1. SealInv' /\ TypeOK' /\ TypeOK /\ SealInv
  BY SealStep DEF SingleInv, SealInv, EvidenceInv, NoStaleCopies
<1>2. ASSUME NEW l \in Logs, Ingest(l) PROVE Fresh' /\ Budget'
  BY <1>1, <1>2, StoreSteps DEF Ingest, Stores, local
<1>3. ASSUME NEW g \in Gateways, NEW l \in Logs, SaveHashed(g, l) PROVE Fresh' /\ Budget'
  <2>1. row[l].status = "RECEIVED" /\ copy[g][l] = row[l]
    BY <1>1, <1>3 DEF SaveHashed, SealInv, CopiesCurrent
  <2>2. Stores(l)
    BY <1>1, <1>3, <2>1 DEF SaveHashed, Stores, TypeOK, Row
  <2> QED BY <1>1, <1>3, <2>2, StoreSteps DEF SaveHashed
<1>4. ASSUME NEW g \in Gateways, Quiet(g) PROVE Fresh' /\ Budget'
  BY <1>1, <1>4, QuietSteps
<1>5. ASSUME NEW g \in Gateways, SealBatch(g) PROVE Fresh' /\ Budget'
  BY <1>1, <1>5, SealSteps
<1>6. ASSUME NEW g \in Gateways, NEW r \in Roots, SubmitRoot(g, r) \/ SubmitFails(g, r)
      PROVE  Fresh' /\ Budget'
  BY <1>1, <1>6, SubmitSteps
<1>7. ASSUME NEW g \in Gateways, MarkAnchored(g) \/ MarkFails(g) \/ Crash(g)
      PROVE  Fresh' /\ Budget'
  BY <1>1, <1>7, MarkSteps
<1>8. ASSUME UNCHANGED vars PROVE Fresh' /\ Budget'
  <2>1. UNCHANGED <<row, meta, ledger, pc, copy, batch, todo, sent, faults>>
    BY <1>8 DEF vars, local
  <2>2. Fresh'
    BY <2>1 DEF SingleInv, Fresh, Unanchored
  <2>3. Waiting' = Waiting
    BY <2>1 DEF Waiting, InFlight, Unanchored
  <2>4. Budget'
    BY <2>1, <2>3 DEF SingleInv, Budget
  <2> QED BY <2>2, <2>4
<1>9. Fresh' /\ Budget'
  BY <1>2, <1>3, <1>4, <1>5, <1>6, <1>7, <1>8, SingleSteps
<1> QED BY <1>1, <1>9 DEF SingleInv

LEMMA SingleInit == Init => SingleInv
<1> SUFFICES ASSUME Init PROVE SingleInv
  OBVIOUS
<1>1. SealInv /\ TypeOK
  BY SealInit DEF SealInv, EvidenceInv
<1>2. Fresh
  BY DEF Init, Fresh
<1>3. Budget
  <2>1. meta = {} /\ Waiting = {} /\ Len(ledger) = 0 /\ faults = 0
    BY DEF Init, Waiting
  <2>2. Cardinality({}) = 0
    BY FS_EmptySet
  <2> QED BY <2>1, <2>2 DEF Budget
<1> QED BY <1>1, <1>2, <1>3 DEF SingleInv

(* With one gateway a root is on the ledger twice only for a fault: a      *)
(* retry of AnchorPendingRoots is the only source of duplicates.           *)
THEOREM DuplicatesCostFaults ==
  ASSUME SingleGateway
  PROVE  Spec \/ Gated => []DuplicatesAreRetries
<1>1. SingleInv => DuplicatesAreRetries
  <2> SUFFICES ASSUME SingleInv PROVE Len(ledger) <= Cardinality(meta) + faults
    BY DEF DuplicatesAreRetries
  <2>1. TypeOK /\ Budget
    BY DEF SingleInv, SealInv, EvidenceInv
  <2> QED BY <2>1, MetaFinite DEF Budget
<1> QED BY <1>1, SingleInit, SingleStep, SpecIsGated, PTL DEF Gated

(* With one gateway the anchor that a reader was shown is never replaced.  *)
THEOREM AnchorsStay ==
  ASSUME SingleGateway
  PROVE  Spec \/ Gated => AnchorIsFinal
<1>1. SingleInv /\ [GatedNext]_vars =>
        [\A l \in Logs : row[l].status = "ANCHORED" => row'[l] = row[l]]_vars
  <2> SUFFICES ASSUME SingleInv, [GatedNext]_vars, NEW l \in Logs, row[l].status = "ANCHORED"
               PROVE  row'[l] = row[l]
    OBVIOUS
  <2>0. SealInv /\ TypeOK /\ Fresh
    BY DEF SingleInv, SealInv, EvidenceInv
  <2>1. CASE row' = row
    BY <2>1
  <2>2. ASSUME NEW k \in Logs, Ingest(k) PROVE row'[l] = row[l]
    BY <2>0, <2>2 DEF Ingest, TypeOK
  <2>3. ASSUME NEW g \in Gateways, NEW k \in Logs, SaveHashed(g, k) PROVE row'[l] = row[l]
    <3>1. row[k].status = "RECEIVED"
      BY <2>0, <2>3 DEF SaveHashed, SealInv, CopiesCurrent
    <3> QED BY <2>0, <2>3, <3>1 DEF SaveHashed, TypeOK
  <2>4. ASSUME NEW g \in Gateways, SealBatch(g) PROVE row'[l] = row[l]
    BY <2>4 DEF SealBatch, Sealable
  <2>5. ASSUME NEW g \in Gateways, MarkAnchored(g) PROVE row'[l] = row[l]
    <3>1. Unanchored(sent[g].root) /\ sent[g].root \in meta /\ sent[g].root # NoRoot
      BY <2>0, <2>5 DEF MarkAnchored, Fresh, SealInv, EvidenceInv, SentIsStored
    <3>2. row[l].root # sent[g].root
      <4>1. row[l].root # NoRoot => l \in row[l].root
        BY <2>0 DEF SealInv, EvidenceInv, RootsCommit, Carries
      <4> QED BY <3>1, <4>1 DEF Unanchored
    <3> QED BY <2>5, <3>2 DEF MarkAnchored
  <2>6. ASSUME NEW g \in Gateways,
               \/ Quiet(g) \/ MarkFails(g) \/ Crash(g)
               \/ \E r \in Roots : SubmitRoot(g, r) \/ SubmitFails(g, r)
        PROVE  row' = row
    BY <2>6 DEF Quiet, LoadPending, SaveFails, FinishHashing, Reads, ReadsNothing, ReadBatch,
                NothingToSeal, RollBackBatch, ReadRoots, FinishTick, QueryFails, MarkFails, Crash, SubmitRoot,
                SubmitFails
  <2>7. CASE UNCHANGED vars
    BY <2>7 DEF vars
  <2> QED BY <2>1, <2>2, <2>3, <2>4, <2>5, <2>6, <2>7, GatedCases, AggregatesIs
          DEF Ticks, Hash, Anchor, Quiet
<1> QED BY <1>1, SingleInit, SingleStep, SpecIsGated, PTL DEF Gated, AnchorIsFinal
=============================================================================
