---------------------------- MODULE SnapshotGate ----------------------------
(***************************************************************************)
(* The pipeline with SNAPSHOT_REQUIRED_FOR_ANCHOR (recovery mode           *)
(* snapshot_legacy): the snapshot workers and the pipeline goroutines run  *)
(* side by side on the same audit_logs rows.  ProcessBatch adds            *)
(* snapshot_status = VERIFIED to its query; the transaction that seals the *)
(* batch looks at the status of the rows only.                             *)
(***************************************************************************)
EXTENDS SnapshotWorker, Sequences

CONSTANTS Gateways, BatchSize, MaxPipelineFaults

ASSUME GateAssumption ==
  IsFiniteSet(Logs) /\ BatchSize \in Nat \ {0} /\ MaxPipelineFaults \in Nat

VARIABLES row, meta, ledger, pc, copy, batch, todo, sent, pipelineFaults

(* audit_logs.timestamp follows created_at of the job: both are set when   *)
(* the change event is consumed, in the order of the partition.            *)
Pipe == INSTANCE AnchorPipeline WITH
  Backlog <- {}, Internal <- {}, OldRows <- {}, Timestamp <- Age,
  MaxFaults <- MaxPipelineFaults, faults <- pipelineFaults

pipelineVars == <<row, meta, ledger, pc, copy, batch, todo, sent, pipelineFaults>>
gateVars == <<snapshotVars, pipelineVars>>

GateInit == Init /\ Pipe!Init

(* The snapshot gate: the rows that satisfy snapshot_status = VERIFIED.    *)
NotFailed == {l \in Logs : record[l].status # "FAILED"}   \* a bug: only FAILED is refused

Verified == {l \in Logs : record[l].status = "VERIFIED"}

Store(l) == Enqueue(l) /\ Pipe!Ingest(l)

Snapshots ==
  /\ \/ \E l \in Logs : TimePasses(l)
     \/ \E w \in Workers : ProcessOne(w) \/ Crash(w)
  /\ UNCHANGED pipelineVars

Pipeline ==
  /\ \E g \in Gateways : Pipe!Tick(g, Verified) \/ Pipe!Crash(g)
  /\ UNCHANGED snapshotVars

GateNext == (\E l \in Logs : Store(l)) \/ Snapshots \/ Pipeline

(* The tickers of the pipeline and of the workers; time passes.            *)
GateFairness ==
  /\ \A g \in Gateways : WF_gateVars(Pipe!Tick(g, Verified) /\ UNCHANGED snapshotVars)
  /\ \A w \in Workers : WF_gateVars(ProcessOne(w) /\ UNCHANGED pipelineVars)
  /\ \A l \in Logs : WF_gateVars(TimePasses(l) /\ UNCHANGED pipelineVars)

GateSpec == GateInit /\ [][GateNext]_gateVars /\ GateFairness

-----------------------------------------------------------------------------
(* Properties.                                                             *)

Sealed == {l \in Logs : row[l].status \in {"AGGREGATED", "ANCHORED"}}

(* A log under a Merkle root can be recovered: its row names a snapshot    *)
(* version that is in the bucket, whatever late reports say of the status. *)
SealedHasSnapshot ==
  \A l \in Sealed : record[l].version \in 1..objects[l]

(* Workers and pipeline together: no log stays behind.  When errors stop,  *)
(* its job ends, also after its worker died with the claim or overran its  *)
(* lease, and unless it ended in DEAD_LETTER, whose log the gate holds     *)
(* back for good, the log is anchored.                                     *)
EventuallyThrough ==
  \A l \in Logs :
    job[l].status = "PENDING" ~>
      [](Settled(l) /\ (job[l].status = "COMPLETED" => row[l].status = "ANCHORED"))
=============================================================================
