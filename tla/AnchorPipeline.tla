--------------------------- MODULE AnchorPipeline ---------------------------
(***************************************************************************)
(* The audit pipeline ticker of main.go: every ten seconds one goroutine   *)
(* of a gateway hashes what is RECEIVED, seals up to BatchSize HASHED logs *)
(* under one Merkle root in PostgreSQL, and submits every root that has    *)
(* AGGREGATED logs to Fabric before it marks those logs ANCHORED.          *)
(*                                                                         *)
(* A Merkle root is modelled by the set of logs it commits to: the root    *)
(* is a collision-free digest of its leaves, and {} is the empty string of *)
(* a log that has no root.  An anchor ID is the position of its record on  *)
(* the ledger, for a new one is drawn for every submission.                *)
(*                                                                         *)
(* A faulty outcome (PostgreSQL or Fabric error, lost reply, crash) spends *)
(* one unit of the budget MaxFaults.                                       *)
(***************************************************************************)
EXTENDS Integers, Sequences, FiniteSets

CONSTANTS
  Logs,        \* identities of audit_logs rows
  Backlog,     \* rows that are RECEIVED before the gateway starts
  Internal,    \* rows of Backlog whose action is RECOVERY
  OldRows,     \* rows of Backlog that predate RECOVERY_CUTOFF_AT
  Timestamp,   \* Timestamp[l]: audit_logs.timestamp of row l
  Gateways,    \* gateway processes, each with one pipeline goroutine
  BatchSize,   \* argument of ProcessBatch (10 in main.go)
  MaxFaults    \* bound on faulty outcomes

ASSUME LogsAssumption ==
  /\ IsFiniteSet(Logs)
  /\ Timestamp \in [Logs -> Int]
  /\ Backlog \subseteq Logs /\ Internal \subseteq Backlog /\ OldRows \subseteq Backlog

ASSUME BoundsAssumption == BatchSize \in Nat \ {0} /\ MaxFaults \in Nat

VARIABLES
  row,      \* audit_logs: status, merkle_root and blockchain_tx_id of every log
  meta,     \* merkle_metadata (with the merkle_proofs of the same transaction)
  ledger,   \* Fabric: the root stored under each anchor ID
  pc,       \* where the pipeline goroutine of each gateway stands
  copy,     \* rows ProcessPendingLogs has read and not written back yet
  batch,    \* logs ProcessBatch has read
  todo,     \* distinct roots AnchorPendingRoots has still to handle
  sent,     \* submission that Fabric has acknowledged: its root and anchor ID
  faults    \* faulty outcomes so far

local == <<pc, copy, batch, todo, sent>>
vars == <<row, meta, ledger, local, faults>>

-----------------------------------------------------------------------------

NoRoot == {}
Roots == SUBSET Logs
NoCopy == [l \in {} |-> {}]
NoSubmission == [root |-> NoRoot, id |-> 0]

Statuses == {"ABSENT", "RECEIVED", "HASHED", "AGGREGATED", "ANCHORED"}
Row == [status : Statuses, root : Roots, tx : Nat]
IsCopy(c) == DOMAIN c \subseteq Logs /\ c \in [DOMAIN c -> Row]
Phases == {"hash", "save", "aggregate", "seal", "anchor", "submit", "mark"}

WithStatus(s) == {l \in Logs : row[l].status = s}

Spend == faults < MaxFaults /\ faults' = faults + 1

Init ==
  /\ row = [l \in Logs |-> [status |-> IF l \in Backlog THEN "RECEIVED" ELSE "ABSENT",
                            root |-> NoRoot, tx |-> 0]]
  /\ meta = {}
  /\ ledger = <<>>
  /\ pc = [g \in Gateways |-> "hash"]
  /\ copy = [g \in Gateways |-> NoCopy]
  /\ batch = [g \in Gateways |-> {}]
  /\ todo = [g \in Gateways |-> {}]
  /\ sent = [g \in Gateways |-> NoSubmission]
  /\ faults = 0

-----------------------------------------------------------------------------
(* The Kafka consumer commits a new row, already HASHED.                   *)

Ingest(l) ==
  /\ row[l].status = "ABSENT"
  /\ row' = [row EXCEPT ![l].status = "HASHED"]
  /\ UNCHANGED <<meta, ledger, local, faults>>

-----------------------------------------------------------------------------
(* hasher.ProcessPendingLogs: read every RECEIVED client row, then write   *)
(* each one back whole (Save), as it was read but HASHED.                  *)

Pending == WithStatus("RECEIVED") \ Internal

LoadPending(g) ==
  /\ pc[g] = "hash"
  /\ copy' = [copy EXCEPT ![g] = [l \in Pending |-> row[l]]]
  /\ pc' = [pc EXCEPT ![g] = "save"]
  /\ UNCHANGED <<row, meta, ledger, batch, todo, sent, faults>>

Saved(g, l) == copy' = [copy EXCEPT ![g] = [k \in DOMAIN copy[g] \ {l} |-> copy[g][k]]]

SaveHashed(g, l) ==
  /\ pc[g] = "save"
  /\ l \in DOMAIN copy[g]
  /\ row' = [row EXCEPT ![l] = [copy[g][l] EXCEPT !.status = "HASHED"]]
  /\ Saved(g, l)
  /\ UNCHANGED <<meta, ledger, pc, batch, todo, sent, faults>>

SaveFails(g, l) ==
  /\ pc[g] = "save"
  /\ l \in DOMAIN copy[g]
  /\ Spend
  /\ Saved(g, l)
  /\ UNCHANGED <<row, meta, ledger, pc, batch, todo, sent>>

FinishHashing(g) ==
  /\ pc[g] = "save"
  /\ DOMAIN copy[g] = {}
  /\ pc' = [pc EXCEPT ![g] = "aggregate"]
  /\ UNCHANGED <<row, meta, ledger, copy, batch, todo, sent, faults>>

-----------------------------------------------------------------------------
(* aggregator.ProcessBatch: read the oldest HASHED rows that pass the      *)
(* snapshot gate (every log, when no snapshot is required), build the      *)
(* tree, and in one transaction store the metadata and move the rows,      *)
(* provided that each of them is HASHED still and the root is new.         *)

Aggregable == WithStatus("HASHED") \ (Internal \cup OldRows)

(* ORDER BY timestamp ASC LIMIT BatchSize; ties are broken arbitrarily.    *)
OldestFullBatch(pool) ==   \* a bug: wait until BatchSize logs are there
  {b \in SUBSET pool : Cardinality(b) = BatchSize}

OldestOfAll(pool) == {pool}   \* a bug: no LIMIT

OldestOf(pool) ==
  {b \in SUBSET pool :
     /\ \/ Cardinality(b) = BatchSize
        \/ b = pool /\ Cardinality(pool) < BatchSize
     /\ \A l \in b, k \in pool \ b : Timestamp[l] <= Timestamp[k]}

ReadBatch(g, gate) ==
  /\ pc[g] = "aggregate"
  /\ Aggregable \cap gate # {}
  /\ \E b \in OldestOf(Aggregable \cap gate) : batch' = [batch EXCEPT ![g] = b]
  /\ pc' = [pc EXCEPT ![g] = "seal"]
  /\ UNCHANGED <<row, meta, ledger, copy, todo, sent, faults>>

NothingToSeal(g, gate) ==
  /\ pc[g] = "aggregate"
  /\ Aggregable \cap gate = {}
  /\ pc' = [pc EXCEPT ![g] = "anchor"]
  /\ UNCHANGED <<row, meta, ledger, copy, batch, todo, sent, faults>>

SealableAnyStatus(b) == b \notin meta   \* a bug: no check of the rows' status

SealableUnlessAnchored(b) ==   \* a bug: an AGGREGATED row may be sealed again
  /\ b \notin meta
  /\ \A l \in b : row[l].status # "ANCHORED"

Sealable(b) ==
  /\ b \notin meta
  /\ \A l \in b : row[l].status = "HASHED"

LeaveSeal(g) ==
  /\ batch' = [batch EXCEPT ![g] = {}]
  /\ pc' = [pc EXCEPT ![g] = "anchor"]

SealTheRest(g) ==   \* a bug: rows that are not HASHED any more are only skipped
  /\ pc[g] = "seal"
  /\ batch[g] \notin meta
  /\ meta' = meta \cup {batch[g]}
  /\ row' = [l \in Logs |-> IF l \in batch[g] /\ row[l].status = "HASHED"
                            THEN [row[l] EXCEPT !.status = "AGGREGATED", !.root = batch[g]]
                            ELSE row[l]]
  /\ LeaveSeal(g)
  /\ UNCHANGED <<ledger, copy, todo, sent, faults>>

SealBatch(g) ==
  /\ pc[g] = "seal"
  /\ Sealable(batch[g])
  /\ meta' = meta \cup {batch[g]}
  /\ row' = [l \in Logs |-> IF l \in batch[g]
                            THEN [row[l] EXCEPT !.status = "AGGREGATED", !.root = batch[g]]
                            ELSE row[l]]
  /\ LeaveSeal(g)
  /\ UNCHANGED <<ledger, copy, todo, sent, faults>>

RollBackBatch(g) ==
  /\ pc[g] = "seal"
  /\ \/ ~Sealable(batch[g]) /\ UNCHANGED faults
     \/ Spend
  /\ LeaveSeal(g)
  /\ UNCHANGED <<row, meta, ledger, copy, todo, sent>>

-----------------------------------------------------------------------------
(* FabricService.AnchorPendingRoots: for each distinct root of AGGREGATED  *)
(* client rows, submit it under a new anchor ID; on success update every   *)
(* row that carries the root, whatever its status.  Any error only skips   *)
(* the root until the next tick, also when Fabric has stored it already.   *)

RootsOfAnyStatus ==   \* a bug: no filter on the status
  {row[l].root : l \in Logs \ Internal}

PendingRoots == {row[l].root : l \in WithStatus("AGGREGATED") \ Internal}

ReadRoots(g) ==
  /\ pc[g] = "anchor"
  /\ todo' = [todo EXCEPT ![g] = PendingRoots]
  /\ pc' = [pc EXCEPT ![g] = "submit"]
  /\ UNCHANGED <<row, meta, ledger, copy, batch, sent, faults>>

Skip(g, r) == todo' = [todo EXCEPT ![g] = @ \ {r}]

SubmitIgnoringError(g, r) ==   \* a bug: the error of the submission is dropped
  /\ pc[g] = "submit"
  /\ r \in todo[g] \cap meta
  /\ ledger' \in {ledger, Append(ledger, r)}
  /\ sent' = [sent EXCEPT ![g] = [root |-> r, id |-> Len(ledger) + 1]]
  /\ Skip(g, r)
  /\ pc' = [pc EXCEPT ![g] = "mark"]
  /\ UNCHANGED <<row, meta, copy, batch, faults>>

SubmitRoot(g, r) ==
  /\ pc[g] = "submit"
  /\ r \in todo[g] \cap meta
  /\ ledger' = Append(ledger, r)
  /\ sent' = [sent EXCEPT ![g] = [root |-> r, id |-> Len(ledger) + 1]]
  /\ Skip(g, r)
  /\ pc' = [pc EXCEPT ![g] = "mark"]
  /\ UNCHANGED <<row, meta, copy, batch, faults>>

(* The metadata is missing or unreadable, Fabric refuses the transaction,  *)
(* or its reply is lost although the root is on the ledger.                *)
SubmitFails(g, r) ==
  /\ pc[g] = "submit"
  /\ r \in todo[g]
  /\ \/ r \notin meta /\ UNCHANGED <<ledger, faults>>
     \/ Spend /\ ledger' \in {ledger} \cup {Append(ledger, s) : s \in {r} \cap meta}
  /\ Skip(g, r)
  /\ UNCHANGED <<row, meta, pc, copy, batch, sent>>

LeaveMark(g) ==
  /\ sent' = [sent EXCEPT ![g] = NoSubmission]
  /\ pc' = [pc EXCEPT ![g] = "submit"]

KeepsStatus(l, s) ==   \* a bug: the UPDATE leaves the status out
  [row[l] EXCEPT !.tx = s.id]

Anchored(l, s) == [row[l] EXCEPT !.status = "ANCHORED", !.tx = s.id]

MarkAnchored(g) ==
  /\ pc[g] = "mark"
  /\ row' = [l \in Logs |-> IF row[l].root = sent[g].root THEN Anchored(l, sent[g]) ELSE row[l]]
  /\ LeaveMark(g)
  /\ UNCHANGED <<meta, ledger, copy, batch, todo, faults>>

(* The UPDATE fails: the root is on the ledger and its rows do not know.   *)
MarkFails(g) ==
  /\ pc[g] = "mark"
  /\ Spend
  /\ LeaveMark(g)
  /\ UNCHANGED <<row, meta, ledger, copy, batch, todo>>

FinishTick(g) ==
  /\ pc[g] = "submit"
  /\ todo[g] = {}
  /\ pc' = [pc EXCEPT ![g] = "hash"]
  /\ UNCHANGED <<row, meta, ledger, copy, batch, todo, sent, faults>>

-----------------------------------------------------------------------------
(* The query that opens a phase fails: the phase is over for this tick.    *)

NextPhase == [hash |-> "aggregate", aggregate |-> "anchor", anchor |-> "hash"]

QueryFails(g) ==
  /\ pc[g] \in DOMAIN NextPhase
  /\ Spend
  /\ pc' = [pc EXCEPT ![g] = NextPhase[@]]
  /\ UNCHANGED <<row, meta, ledger, copy, batch, todo, sent>>

(* The process dies and is started again: its variables are gone.          *)
Crash(g) ==
  /\ pc[g] # "hash"
  /\ Spend
  /\ pc' = [pc EXCEPT ![g] = "hash"]
  /\ copy' = [copy EXCEPT ![g] = NoCopy]
  /\ batch' = [batch EXCEPT ![g] = {}]
  /\ todo' = [todo EXCEPT ![g] = {}]
  /\ sent' = [sent EXCEPT ![g] = NoSubmission]
  /\ UNCHANGED <<row, meta, ledger>>

-----------------------------------------------------------------------------

Hash(g) ==
  \/ LoadPending(g)
  \/ \E l \in Logs : SaveHashed(g, l) \/ SaveFails(g, l)
  \/ FinishHashing(g)

Aggregate(g, gate) ==
  ReadBatch(g, gate) \/ NothingToSeal(g, gate) \/ SealBatch(g) \/ RollBackBatch(g)

Anchor(g) ==
  \/ ReadRoots(g)
  \/ \E r \in Roots : SubmitRoot(g, r) \/ SubmitFails(g, r)
  \/ MarkAnchored(g) \/ MarkFails(g)
  \/ FinishTick(g)

(* One step of the pipeline goroutine of gateway g.                        *)
Tick(g, gate) == Hash(g) \/ Aggregate(g, gate) \/ Anchor(g) \/ QueryFails(g)

Next ==
  \/ \E l \in Logs : Ingest(l)
  \/ \E g \in Gateways : Tick(g, Logs) \/ Crash(g)

(* The ticker fires for ever.  Endorsement has a timeout; that a submission*)
(* waits for its commit only so long is assumed of Fabric.  No log needs   *)
(* to be ingested, nothing needs to fail.                                  *)
Fairness == \A g \in Gateways : WF_vars(Tick(g, Logs))

Spec == Init /\ [][Next]_vars /\ Fairness

(* With SNAPSHOT_REQUIRED_FOR_ANCHOR each query of ProcessBatch sees only  *)
(* the rows that the gate lets through by then, whichever these are.       *)
GatedNext ==
  \/ \E l \in Logs : Ingest(l)
  \/ \E g \in Gateways : (\E gate \in SUBSET Logs : Tick(g, gate)) \/ Crash(g)

Gated == Init /\ [][GatedNext]_vars
-----------------------------------------------------------------------------
(* Properties.                                                             *)

(* Every variable has its type, and no batch is larger than the LIMIT.     *)
TypeOK ==
  /\ row \in [Logs -> Row]
  /\ meta \subseteq Roots
  /\ ledger \in Seq(Roots)
  /\ pc \in [Gateways -> Phases]
  /\ copy = [g \in Gateways |-> copy[g]]
  /\ \A g \in Gateways : IsCopy(copy[g])
  /\ batch \in [Gateways -> Roots]
  /\ \A g \in Gateways : Cardinality(batch[g]) <= BatchSize
  /\ todo \in [Gateways -> SUBSET Roots]
  /\ sent \in [Gateways -> [root : Roots, id : Nat]]
  /\ faults \in 0..MaxFaults

(* Whoever reads ANCHORED finds on the ledger, under the anchor ID of the  *)
(* row, the root that commits to this very log: AnchorPendingRoots never   *)
(* marks what Fabric has not stored, whatever fails between the two.       *)
AnchoredHasEvidence ==
  \A l \in WithStatus("ANCHORED") :
    /\ row[l].tx \in DOMAIN ledger
    /\ ledger[row[l].tx] = row[l].root
    /\ l \in row[l].root

(* ProcessBatch never commits a log to two roots, also when two gateways   *)
(* have read overlapping batches, and the row names the root it is in.     *)
OneBatchPerLog ==
  \A r \in meta : \A l \in r :
    /\ row[l].root = r
    /\ \A s \in meta : l \in s => s = r

(* The logs of one root are anchored by one UPDATE: nobody sees part of a  *)
(* batch ANCHORED, or two anchor IDs within a batch.                       *)
BatchAnchoredTogether ==
  \A r \in meta : \A l, k \in r :
    row[l].status = row[k].status /\ row[l].tx = row[k].tx

(* A log never moves back in the pipeline, and a root once given to it     *)
(* stays: a stale batch of ProcessBatch or a late UPDATE of                *)
(* AnchorPendingRoots takes nothing back.                                  *)
Rank == [ABSENT |-> 0, RECEIVED |-> 1, HASHED |-> 2, AGGREGATED |-> 3, ANCHORED |-> 4]

NeverRegresses(l) ==
  /\ Rank[row[l].status] <= Rank[row'[l].status]
  /\ row[l].root # NoRoot => row'[l].root = row[l].root

StatusNeverRegresses == [][\A l \in Logs : NeverRegresses(l)]_vars

(* With one gateway, what a reader was told of an ANCHORED log never       *)
(* changes: no later tick anchors it again under another anchor ID.        *)
AnchorIsFinal ==
  [][\A l \in Logs : row[l].status = "ANCHORED" => row'[l] = row[l]]_vars

(* With one gateway, the ledger holds a root more than once only because   *)
(* of an error or a crash: the retry of the next tick is the only source   *)
(* of duplicates, and each of them costs a fault.                          *)
DuplicatesAreRetries == Len(ledger) <= Cardinality(meta) + faults

(* Every client log that the consumer or the hasher has HASHED is sooner   *)
(* or later ANCHORED, provided that errors stop: skipped roots, rolled     *)
(* back batches and lost processes are made up for by later ticks.         *)
EventuallyAnchored ==
  \A l \in Logs \ (Internal \cup OldRows) :
    row[l].status \in {"RECEIVED", "HASHED"} ~> row[l].status = "ANCHORED"

(* The pipeline implements the promise of AnchorLedger.                    *)
RootsOnLedger == {ledger[n] : n \in DOMAIN ledger}
RootsShown == {r \in meta : r \subseteq WithStatus("ANCHORED")}

Promise == INSTANCE AnchorLedger WITH
  sealed <- meta, witnessed <- RootsOnLedger, attested <- RootsShown

ImplementsAnchorLedger == Promise!Spec

=============================================================================
