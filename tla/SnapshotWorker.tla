--------------------------- MODULE SnapshotWorker ---------------------------
(***************************************************************************)
(* The snapshot outbox: for every audit log the consumer commits a job in  *)
(* the same transaction; workers claim jobs under a lease, upload the      *)
(* encrypted snapshot to MinIO under a key determined by the job, read it  *)
(* back and record the outcome in the job and in the audit log.            *)
(*                                                                         *)
(* A worker does not renew its lease and writes its outcome by job ID      *)
(* alone, so it may act on a job that another worker has taken over.  No   *)
(* MinIO call has a timeout of its own; a lease that ends while its holder *)
(* still works spends one unit of MaxSlow, any other faulty outcome one    *)
(* unit of MaxFaults.  Recovery-event jobs take the same path.             *)
(***************************************************************************)
EXTENDS Integers, FiniteSets

CONSTANTS
  Logs,         \* audit logs, each with at most one job (log_id is unique)
  Age,          \* Age[l]: created_at of the job of l
  Workers,      \* claim loops, each taken to be a process of its own
  MaxAttempts,  \* attempts before a job is dead-lettered
  MaxFaults,    \* bound on errors and crashes
  MaxSlow       \* bound on leases that a living worker overruns

ASSUME WorkerAssumption ==
  /\ Age \in [Logs -> Int] /\ IsFiniteSet(Workers)
  /\ MaxAttempts \in Nat \ {0} /\ MaxFaults \in Nat /\ MaxSlow \in Nat

VARIABLES
  job,      \* snapshot_outboxes
  record,   \* snapshot_status and snapshot_version_id of the audit log
  objects,  \* objects[l]: versions of the object of l in the bucket
  work,     \* what each worker is doing
  faults, slow

stored == <<job, record, objects>>
snapshotVars == <<stored, work, faults, slow>>

-----------------------------------------------------------------------------

JobStatuses == {"ABSENT", "PENDING", "PROCESSING", "RETRY", "COMPLETED", "DEAD_LETTER"}
RecordStatuses == {"ABSENT", "PENDING", "RETRY", "VERIFIED", "FAILED"}

(* over: the lease of a PROCESSING job has expired, next_attempt_at of a   *)
(* RETRY job has come.                                                     *)
Job == [status : JobStatuses, attempts : Nat, over : BOOLEAN]
Record == [status : RecordStatuses, version : Nat]
Work == [pc : {"idle", "stat", "put", "read", "verified", "failed"}, claim : SUBSET Logs,
         attempts : 0..(MaxAttempts - 1), version : Nat]
Idle == [pc |-> "idle", claim |-> {}, attempts |-> 0, version |-> 0]

Spend == faults < MaxFaults /\ faults' = faults + 1 /\ UNCHANGED slow
NoFault == UNCHANGED <<faults, slow>>

Goto(w, pc) == work' = [work EXCEPT ![w].pc = pc]
HasVersion(w, n) == work' = [work EXCEPT ![w].pc = "read", ![w].version = n]
Release(w) == work' = [work EXCEPT ![w] = Idle]

Init ==
  /\ job = [l \in Logs |-> [status |-> "ABSENT", attempts |-> 0, over |-> FALSE]]
  /\ record = [l \in Logs |-> [status |-> "ABSENT", version |-> 0]]
  /\ objects = [l \in Logs |-> 0]
  /\ work = [w \in Workers |-> Idle]
  /\ faults = 0
  /\ slow = 0

-----------------------------------------------------------------------------
(* The transaction of consumer.processMessage commits the log with its job.*)

Enqueue(l) ==
  /\ job[l].status = "ABSENT"
  /\ job' = [job EXCEPT ![l].status = "PENDING"]
  /\ record' = [record EXCEPT ![l].status = "PENDING"]
  /\ UNCHANGED <<objects, work>> /\ NoFault

(* Time passes: a lease of LeaseTimeout or a back-off of retryDelay ends.  *)
Holders(l) == {w \in Workers : l \in work[w].claim}

BackoffEnds(l) ==
  /\ job[l].status = "RETRY" /\ ~job[l].over
  /\ job' = [job EXCEPT ![l].over = TRUE]
  /\ UNCHANGED <<record, objects, work>> /\ NoFault

LeaseExpires(l) ==
  /\ job[l].status = "PROCESSING" /\ ~job[l].over
  /\ IF Holders(l) = {} THEN NoFault
     ELSE slow < MaxSlow /\ slow' = slow + 1 /\ UNCHANGED faults
  /\ job' = [job EXCEPT ![l].over = TRUE]
  /\ UNCHANGED <<record, objects, work>>

-----------------------------------------------------------------------------
(* claimNext: one transaction moves expired claims back to RETRY and takes *)
(* the oldest job that is due.                                             *)

WithoutRequeue(l) == job[l]   \* a bug: expired claims are left alone

Requeued(l) ==
  IF job[l].status = "PROCESSING" /\ job[l].over
  THEN [job[l] EXCEPT !.status = "RETRY"] ELSE job[l]

Due(l) ==
  \/ Requeued(l).status = "PENDING"
  \/ Requeued(l).status = "RETRY" /\ Requeued(l).over

Claim(w, l) ==
  /\ work[w].pc = "idle"
  /\ Due(l)
  /\ \A k \in Logs : Due(k) => Age[l] <= Age[k]
  /\ job' = [k \in Logs |->
               IF k = l THEN [Requeued(k) EXCEPT !.status = "PROCESSING", !.over = FALSE]
                        ELSE Requeued(k)]
  /\ work' = [work EXCEPT ![w] = [pc |-> "stat", claim |-> {l},
                                  attempts |-> job[l].attempts, version |-> 0]]
  /\ UNCHANGED <<record, objects>> /\ NoFault

(* putIdempotent: an object that is there already is verified and used,    *)
(* otherwise Put makes a version.                                          *)
StatNothing(w, l) ==   \* a bug: the look before the upload is skipped
  work[w].pc = "stat" /\ l \in work[w].claim
  /\ Goto(w, "put") /\ UNCHANGED stored /\ NoFault

Stat(w, l) ==
  /\ work[w].pc = "stat" /\ l \in work[w].claim
  /\ IF objects[l] = 0 THEN Goto(w, "put") ELSE HasVersion(w, objects[l])
  /\ UNCHANGED stored /\ NoFault

Put(w, l) ==
  /\ work[w].pc = "put" /\ l \in work[w].claim
  /\ objects' = [objects EXCEPT ![l] = @ + 1]
  /\ HasVersion(w, objects[l] + 1)
  /\ UNCHANGED <<job, record>> /\ NoFault

(* The reply of a Put may be lost although the version exists.             *)
PutFails(w, l) ==
  /\ work[w].pc = "put" /\ l \in work[w].claim
  /\ Spend
  /\ \E n \in {0, 1} : objects' = [objects EXCEPT ![l] = @ + n]
  /\ Goto(w, "failed")
  /\ UNCHANGED <<job, record>>

(* The version is read back and its checksum compared.                     *)
ReadBack(w, l) ==
  /\ work[w].pc = "read" /\ l \in work[w].claim
  /\ Goto(w, "verified")
  /\ UNCHANGED stored /\ NoFault

StoreFails(w, l) ==
  /\ work[w].pc \in {"stat", "read"} /\ l \in work[w].claim
  /\ Spend
  /\ Goto(w, "failed")
  /\ UNCHANGED stored

-----------------------------------------------------------------------------
(* markSuccess and markFailure: one transaction writes the record and the  *)
(* job, whatever they have become since the claim.                         *)

MarkSuccess(w, l) ==
  /\ work[w].pc = "verified" /\ l \in work[w].claim
  /\ record' = [record EXCEPT ![l] = [status |-> "VERIFIED", version |-> work[w].version]]
  /\ job' = [job EXCEPT ![l].status = "COMPLETED", ![l].over = FALSE]
  /\ Release(w)
  /\ UNCHANGED objects /\ NoFault

FailedStatuses(attempts) ==
  IF attempts < MaxAttempts THEN [job |-> "RETRY", record |-> "RETRY"]
  ELSE [job |-> "DEAD_LETTER", record |-> "FAILED"]

MarkFailureOfJob(w, l) ==   \* a bug: the record is forgotten
  /\ work[w].pc = "failed" /\ l \in work[w].claim
  /\ LET attempts == work[w].attempts + 1
     IN job' = [job EXCEPT ![l] = [status |-> FailedStatuses(attempts).job,
                                   attempts |-> attempts, over |-> FALSE]]
  /\ Release(w)
  /\ UNCHANGED <<record, objects>> /\ NoFault

MarkFailure(w, l) ==
  /\ work[w].pc = "failed" /\ l \in work[w].claim
  /\ LET attempts == work[w].attempts + 1
     IN /\ job' = [job EXCEPT ![l] = [status |-> FailedStatuses(attempts).job,
                                      attempts |-> attempts, over |-> FALSE]]
        /\ record' = [record EXCEPT ![l].status = FailedStatuses(attempts).record]
  /\ Release(w)
  /\ UNCHANGED objects /\ NoFault

(* The transaction that records the outcome fails: the job stays claimed.  *)
MarkFails(w) ==
  /\ work[w].pc \in {"verified", "failed"}
  /\ Spend
  /\ Release(w)
  /\ UNCHANGED stored

Crash(w) ==
  /\ work[w].pc # "idle"
  /\ Spend
  /\ Release(w)
  /\ UNCHANGED stored

-----------------------------------------------------------------------------

Process(w, l) ==
  \/ Claim(w, l)
  \/ Stat(w, l) \/ Put(w, l) \/ PutFails(w, l) \/ ReadBack(w, l) \/ StoreFails(w, l)
  \/ MarkSuccess(w, l) \/ MarkFailure(w, l)

(* Run: a worker that starts requeues expired claims, as claimNext does    *)
(* before every claim; the step is left to the claim that follows.         *)
ProcessOne(w) == (\E l \in Logs : Process(w, l)) \/ MarkFails(w)

TimePasses(l) == BackoffEnds(l) \/ LeaseExpires(l)

Next ==
  \/ \E l \in Logs : Enqueue(l) \/ TimePasses(l)
  \/ \E w \in Workers : ProcessOne(w) \/ Crash(w)

Fairness ==
  /\ \A w \in Workers : WF_snapshotVars(ProcessOne(w))
  /\ \A l \in Logs : WF_snapshotVars(TimePasses(l))

Spec == Init /\ [][Next]_snapshotVars /\ Fairness

-----------------------------------------------------------------------------
(* Properties.                                                             *)

(* Every variable has its type, and only a busy worker holds a claim, on  *)
(* one job.                                                                *)
TypeOK ==
  /\ job \in [Logs -> Job]
  /\ record \in [Logs -> Record]
  /\ objects \in [Logs -> Nat]
  /\ work \in [Workers -> Work]
  /\ \A w \in Workers :
       /\ work[w].pc = "idle" <=> work[w].claim = {}
       /\ \A l \in work[w].claim : work[w].claim = {l}
  /\ faults \in 0..MaxFaults /\ slow \in 0..MaxSlow

(* Job and log agree: the gate of the aggregator, which reads the log, and *)
(* the worker, which reads the job, never hold different opinions, also    *)
(* when two workers report on the same job.                                *)
JobMatchesRecord ==
  \A l \in Logs :
    /\ job[l].status = "COMPLETED" <=> record[l].status = "VERIFIED"
    /\ job[l].status = "DEAD_LETTER" <=> record[l].status = "FAILED"

(* Retries and restarts reuse the object: a second version of a snapshot   *)
(* appears only when a worker overran its lease.                           *)
OneVersionUnlessSlow == \A l \in Logs : objects[l] <= 1 + slow

(* Where a job may rest.                                                   *)
Settled(l) == job[l].status \in {"COMPLETED", "DEAD_LETTER"}
=============================================================================
