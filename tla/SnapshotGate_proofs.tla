------------------------ MODULE SnapshotGate_proofs ------------------------
(***************************************************************************)
(* Proofs about SnapshotWorker and SnapshotGate, for any number of logs,   *)
(* workers, gateways, attempts, overrun leases and faults.                 *)
(***************************************************************************)
EXTENDS SnapshotGate, FiniteSetTheorems, TLAPS

-----------------------------------------------------------------------------
(* The invariant of the outbox.                                            *)

(* A job that is not settled has an attempt left.                          *)
AttemptsLeft ==
  \A l \in Logs :
    job[l].status \notin {"COMPLETED", "DEAD_LETTER"} => job[l].attempts < MaxAttempts

(* The version a row names is in the bucket.                               *)
HasSnapshot(l) == record[l].version \in 1..objects[l]

HeldVersions ==
  \A w \in Workers : \A l \in work[w].claim :
    work[w].pc \in {"read", "verified"} => work[w].version \in 1..objects[l]

VerifiedHasSnapshot == \A l \in Logs : record[l].status = "VERIFIED" => HasSnapshot(l)

(* A job has one holder under a lease that runs; every other holder has    *)
(* overrun one of his own.  Each holder uploads once, and only if it has   *)
(* found nothing.                                                          *)
Running(l) == job[l].status = "PROCESSING" /\ ~job[l].over
Leases(l) == IF Running(l) THEN slow + 1 ELSE slow
Uploaders(l) == {w \in Holders(l) : work[w].pc = "put"}

HoldersBounded == \A l \in Logs : Cardinality(Holders(l)) <= Leases(l)
VersionsBounded == \A l \in Logs : objects[l] + Cardinality(Uploaders(l)) <= 1 + slow

OutboxInv ==
  /\ TypeOK /\ AttemptsLeft /\ JobMatchesRecord
  /\ HeldVersions /\ VerifiedHasSnapshot
  /\ HoldersBounded /\ VersionsBounded

LEMMA NoHolders == Cardinality({}) = 0
BY FS_EmptySet

LEMMA OutboxInit == Init => OutboxInv
<1> SUFFICES ASSUME Init PROVE OutboxInv
  OBVIOUS
<1>1. TypeOK
  BY WorkerAssumption DEF Init, TypeOK, Idle, Work, Job, Record, JobStatuses, RecordStatuses
<1>2. AttemptsLeft /\ JobMatchesRecord
  BY WorkerAssumption DEF Init, AttemptsLeft, JobMatchesRecord
<1>3. HeldVersions /\ VerifiedHasSnapshot
  BY DEF Init, HeldVersions, VerifiedHasSnapshot, Idle
<1>4. \A l \in Logs : Holders(l) = {} /\ Uploaders(l) = {}
  BY DEF Init, Holders, Uploaders, Idle
<1>5. HoldersBounded /\ VersionsBounded
  <2>1. ASSUME NEW l \in Logs
        PROVE  Cardinality(Holders(l)) = 0 /\ Cardinality(Uploaders(l)) = 0
    BY <1>4, NoHolders
  <2>2. slow = 0 /\ \A l \in Logs : Leases(l) = 0 /\ objects[l] = 0
    BY DEF Init, Leases, Running
  <2> QED BY <2>1, <2>2 DEF HoldersBounded, VersionsBounded
<1> QED BY <1>1, <1>2, <1>3, <1>5 DEF OutboxInv

-----------------------------------------------------------------------------
(* What the steps do.                                                      *)

(* The steps of a worker that holds the claim on l.                        *)
Works(w, l) ==
  \/ Stat(w, l) \/ Put(w, l) \/ PutFails(w, l) \/ ReadBack(w, l) \/ StoreFails(w, l)
Reports(w, l) == MarkSuccess(w, l) \/ MarkFailure(w, l)
Drops(w) == MarkFails(w) \/ Crash(w)

(* The cases of a step.                                                    *)
LEMMA StepCases ==
  ASSUME [Next]_snapshotVars
  PROVE  \/ \E l \in Logs : Enqueue(l) \/ TimePasses(l)
         \/ \E w \in Workers, l \in Logs : Claim(w, l) \/ Works(w, l) \/ Reports(w, l)
         \/ \E w \in Workers : Drops(w)
         \/ UNCHANGED snapshotVars
<1>1. ASSUME NEW w \in Workers, ProcessOne(w) \/ Crash(w)
      PROVE  (\E l \in Logs : Claim(w, l) \/ Works(w, l) \/ Reports(w, l)) \/ Drops(w)
  BY <1>1 DEF ProcessOne, Process, Works, Reports, Drops
<1> QED BY <1>1 DEF Next

LEMMA OutboxTypes ==
  ASSUME TypeOK, AttemptsLeft, [Next]_snapshotVars
  PROVE  TypeOK' /\ AttemptsLeft'
<1> USE WorkerAssumption
<1>1. ASSUME NEW l \in Logs, Enqueue(l) PROVE TypeOK' /\ AttemptsLeft'
  BY <1>1 DEF Enqueue, TypeOK, AttemptsLeft, NoFault, Job, Record, JobStatuses, RecordStatuses
<1>2. ASSUME NEW l \in Logs, TimePasses(l) PROVE TypeOK' /\ AttemptsLeft'
  <2>1. /\ job' = [job EXCEPT ![l].over = TRUE]
        /\ UNCHANGED <<record, objects, work, faults>>
        /\ slow' = slow \/ (slow < MaxSlow /\ slow' = slow + 1)
    BY <1>2 DEF TimePasses, BackoffEnds, LeaseExpires, NoFault
  <2>2. job' \in [Logs -> Job] /\ AttemptsLeft'
    BY <2>1 DEF TypeOK, AttemptsLeft, Job
  <2>3. slow' \in 0..MaxSlow
    BY <2>1 DEF TypeOK
  <2> QED BY <2>1, <2>2, <2>3 DEF TypeOK
<1>3. ASSUME NEW w \in Workers, NEW l \in Logs, Claim(w, l) PROVE TypeOK' /\ AttemptsLeft'
  <2>1. \A k \in Logs : /\ Requeued(k) \in Job
                        /\ [Requeued(k) EXCEPT !.status = "PROCESSING", !.over = FALSE] \in Job
                        /\ Requeued(k).attempts = job[k].attempts
                        /\ Requeued(k).status \in {job[k].status, "RETRY"}
                        /\ Requeued(k).status # job[k].status => job[k].status = "PROCESSING"
    BY DEF TypeOK, Requeued, Job, JobStatuses
  <2>2. job[l].attempts \in 0..(MaxAttempts - 1)
    <3>1. job[l].status \notin {"COMPLETED", "DEAD_LETTER"}
      BY <1>3, <2>1 DEF Claim, Due
    <3>2. job[l].attempts \in Nat
      BY DEF TypeOK, Job
    <3> QED BY <3>1, <3>2 DEF AttemptsLeft
  <2>3. [pc |-> "stat", claim |-> {l}, attempts |-> job[l].attempts, version |-> 0] \in Work
    BY <2>2 DEF Work
  <2>4. /\ \A k \in Logs : job'[k] \in Job /\ job'[k].attempts = job[k].attempts
        /\ \A k \in Logs \ {l} : job'[k].status \in {"COMPLETED", "DEAD_LETTER"}
                                   <=> job[k].status \in {"COMPLETED", "DEAD_LETTER"}
        /\ DOMAIN job' = Logs /\ job' = [k \in Logs |-> job'[k]]
    BY <1>3, <2>1 DEF Claim, Job
  <2>5. job' \in [Logs -> Job]
    BY <2>4
  <2>6. AttemptsLeft'
    BY <2>2, <2>4 DEF AttemptsLeft
  <2>7. /\ work' \in [Workers -> Work]
        /\ \A v \in Workers : /\ work'[v].pc = "idle" <=> work'[v].claim = {}
                              /\ \A k \in work'[v].claim : work'[v].claim = {k}
    BY <1>3, <2>3 DEF Claim, TypeOK
  <2> QED BY <1>3, <2>5, <2>6, <2>7 DEF Claim, TypeOK, NoFault
<1>4. ASSUME NEW w \in Workers, NEW l \in Logs, Works(w, l) PROVE TypeOK' /\ AttemptsLeft'
  <2>1. UNCHANGED <<job, record>> /\ work[w].pc # "idle"
    BY <1>4 DEF Works, Stat, Put, PutFails, ReadBack, StoreFails, stored
  <2>2. faults' \in 0..MaxFaults /\ slow' \in 0..MaxSlow
    BY <1>4 DEF Works, Stat, Put, PutFails, ReadBack, StoreFails, TypeOK, Spend, NoFault
  <2>3. objects' \in [Logs -> Nat]
    BY <1>4 DEF Works, Stat, Put, PutFails, ReadBack, StoreFails, TypeOK, stored
  <2>4. \E r \in Work : /\ work' = [work EXCEPT ![w] = r]
                         /\ r.pc # "idle" /\ r.claim = work[w].claim
    <3>0. work[w] \in Work /\ objects[l] \in Nat /\ objects[l] + 1 \in Nat
      BY DEF TypeOK
    <3>1. ASSUME NEW p \in {"put", "verified", "failed"}, Goto(w, p)
          PROVE  \E r \in Work : /\ work' = [work EXCEPT ![w] = r]
                                 /\ r.pc # "idle" /\ r.claim = work[w].claim
      <4> DEFINE r == [work[w] EXCEPT !.pc = p]
      <4>1. r \in Work /\ r.pc # "idle" /\ r.claim = work[w].claim
        BY <3>0 DEF Work
      <4>2. work' = [work EXCEPT ![w] = r]
        BY <3>1 DEF Goto
      <4> QED BY <4>1, <4>2
    <3>2. ASSUME NEW n \in Nat, HasVersion(w, n)
          PROVE  \E r \in Work : /\ work' = [work EXCEPT ![w] = r]
                                 /\ r.pc # "idle" /\ r.claim = work[w].claim
      <4> DEFINE r == [work[w] EXCEPT !.pc = "read", !.version = n]
      <4>1. r \in Work /\ r.pc # "idle" /\ r.claim = work[w].claim
        BY <3>0 DEF Work
      <4>2. work' = [work EXCEPT ![w] = r]
        BY <3>2 DEF HasVersion
      <4> QED BY <4>1, <4>2
    <3>3. \/ Goto(w, "put") \/ Goto(w, "verified") \/ Goto(w, "failed")
          \/ HasVersion(w, objects[l]) \/ HasVersion(w, objects[l] + 1)
      BY <1>4 DEF Works, Stat, Put, PutFails, ReadBack, StoreFails
    <3> QED BY <3>0, <3>1, <3>2, <3>3
  <2>5. /\ work' \in [Workers -> Work]
        /\ \A v \in Workers : /\ work'[v].pc = "idle" <=> work'[v].claim = {}
                              /\ \A k \in work'[v].claim : work'[v].claim = {k}
    BY <2>1, <2>4 DEF TypeOK
  <2> QED BY <2>1, <2>2, <2>3, <2>5 DEF TypeOK, AttemptsLeft
<1>5. ASSUME NEW w \in Workers, Release(w)
      PROVE  /\ work' \in [Workers -> Work]
             /\ \A v \in Workers : /\ work'[v].pc = "idle" <=> work'[v].claim = {}
                                   /\ \A k \in work'[v].claim : work'[v].claim = {k}
  BY <1>5 DEF Release, TypeOK, Idle, Work
<1>6. ASSUME NEW w \in Workers, NEW l \in Logs, Reports(w, l) PROVE TypeOK' /\ AttemptsLeft'
  <2>1. Release(w) /\ UNCHANGED <<objects, faults, slow>>
    BY <1>6 DEF Reports, MarkSuccess, MarkFailure, NoFault
  <2>2. CASE MarkSuccess(w, l)
    <3>1. job' \in [Logs -> Job]
      <4>1. job[l] \in Job
        BY DEF TypeOK
      <4>2. [job[l] EXCEPT !.status = "COMPLETED", !.over = FALSE] \in Job
        BY <4>1 DEF Job, JobStatuses
      <4>3. job' = [job EXCEPT ![l] = [job[l] EXCEPT !.status = "COMPLETED", !.over = FALSE]]
        BY <2>2 DEF MarkSuccess
      <4> HIDE DEF Job
      <4> QED BY <4>2, <4>3 DEF TypeOK
    <3>3. [status |-> "VERIFIED", version |-> work[w].version] \in Record
      BY DEF TypeOK, Work, Record, RecordStatuses
    <3>4. record' \in [Logs -> Record]
      BY <2>2, <3>3 DEF MarkSuccess, TypeOK
    <3>2. AttemptsLeft'
      BY <2>2 DEF MarkSuccess, TypeOK, AttemptsLeft, Job
    <3> QED BY <1>5, <2>1, <3>1, <3>2, <3>4 DEF TypeOK
  <2>3. CASE MarkFailure(w, l)
    <3> DEFINE n == work[w].attempts + 1
               j == [status |-> FailedStatuses(n).job, attempts |-> n, over |-> FALSE]
    <3>1. n \in Nat /\ j \in Job /\ FailedStatuses(n).record \in RecordStatuses
      BY DEF TypeOK, Work, FailedStatuses, Job, JobStatuses, RecordStatuses
    <3>2. j.status # "DEAD_LETTER" => j.attempts < MaxAttempts
      BY <3>1 DEF FailedStatuses
    <3>3. /\ job' = [job EXCEPT ![l] = j]
          /\ record' = [record EXCEPT ![l].status = FailedStatuses(n).record]
      BY <2>3 DEF MarkFailure
    <3>4. record' \in [Logs -> Record]
      BY <3>1, <3>3 DEF TypeOK, Record
    <3> HIDE DEF j
    <3>5. job' \in [Logs -> Job] /\ AttemptsLeft'
      BY <3>1, <3>2, <3>3 DEF TypeOK, AttemptsLeft
    <3> QED BY <1>5, <2>1, <3>4, <3>5 DEF TypeOK
  <2> QED BY <1>6, <2>2, <2>3 DEF Reports
<1>7. ASSUME NEW w \in Workers, Drops(w) PROVE TypeOK' /\ AttemptsLeft'
  <2>1. Release(w) /\ UNCHANGED stored /\ Spend
    BY <1>7 DEF Drops, MarkFails, Crash
  <2>2. faults' \in 0..MaxFaults /\ slow' \in 0..MaxSlow
    BY <2>1 DEF Spend, TypeOK
  <2> QED BY <1>5, <2>1, <2>2 DEF TypeOK, AttemptsLeft, stored
<1>8. CASE UNCHANGED snapshotVars
  BY <1>8 DEF snapshotVars, stored, TypeOK, AttemptsLeft
<1> QED BY <1>1, <1>2, <1>3, <1>4, <1>6, <1>7, <1>8, StepCases
(* What a step does to the claims: nothing, but a worker may take a claim  *)
(* or end one.                                                             *)
LEMMA ClaimsKept ==
  ASSUME TypeOK, NEW w \in Workers, NEW l \in Logs, Works(w, l)
  PROVE  /\ UNCHANGED <<job, record, slow>>
         /\ w \in Holders(l) /\ work[w].claim = {l}
         /\ \A v \in Workers : work'[v].claim = work[v].claim
         /\ \A v \in Workers \ {w} : work'[v] = work[v]
<1>1. l \in work[w].claim /\ UNCHANGED <<job, record, slow>>
  BY DEF Works, Stat, Put, PutFails, ReadBack, StoreFails, stored, NoFault, Spend
<1>2. \E p, n : Goto(w, p) \/ HasVersion(w, n)
  BY DEF Works, Stat, Put, PutFails, ReadBack, StoreFails
<1>3. /\ \A v \in Workers : work'[v].claim = work[v].claim
      /\ \A v \in Workers \ {w} : work'[v] = work[v]
  BY <1>2 DEF Goto, HasVersion, TypeOK, Work
<1> QED BY <1>1, <1>3 DEF Holders, TypeOK

LEMMA ClaimsReleased ==
  ASSUME TypeOK, NEW w \in Workers, Release(w)
  PROVE  /\ work'[w] = Idle
         /\ \A v \in Workers \ {w} : work'[v] = work[v]
         /\ \A k \in Logs : Holders(k)' = Holders(k) \ {w}
         /\ \A k \in Logs : Uploaders(k)' = Uploaders(k) \ {w}
<1>1. work'[w] = Idle /\ \A v \in Workers \ {w} : work'[v] = work[v]
  BY DEF Release, TypeOK
<1> QED BY <1>1 DEF Holders, Uploaders, Idle

LEMMA ClaimTaken ==
  ASSUME TypeOK, NEW w \in Workers, NEW l \in Logs, Claim(w, l)
  PROVE  /\ work[w].claim = {} /\ work'[w].claim = {l} /\ work'[w].pc = "stat"
         /\ \A v \in Workers \ {w} : work'[v] = work[v]
         /\ UNCHANGED <<record, objects, faults, slow>>
         /\ job[l].status \in {"PENDING", "RETRY", "PROCESSING"}
         /\ job[l].status = "PROCESSING" => job[l].over
         /\ job'[l].status = "PROCESSING" /\ ~job'[l].over
         /\ \A k \in Logs \ {l} :
              \/ job'[k] = job[k]
              \/ /\ job[k].status = "PROCESSING" /\ job[k].over
                 /\ job'[k].status = "RETRY"
<1>1. \A k \in Logs : \/ Requeued(k) = job[k]
                       \/ /\ job[k].status = "PROCESSING" /\ job[k].over
                          /\ Requeued(k) = [job[k] EXCEPT !.status = "RETRY"]
  BY DEF Requeued
<1>2. \A k \in Logs : job[k] \in Job
  BY DEF TypeOK
<1>3. \A k \in Logs \ {l} : job'[k] = Requeued(k)
  BY DEF Claim
<1>4. job'[l] = [Requeued(l) EXCEPT !.status = "PROCESSING", !.over = FALSE]
  BY DEF Claim
<1>5. job'[l].status = "PROCESSING" /\ ~job'[l].over
  BY <1>1, <1>2, <1>4 DEF Job
<1>6. /\ job[l].status \in {"PENDING", "RETRY", "PROCESSING"}
      /\ job[l].status = "PROCESSING" => job[l].over
  BY <1>1, <1>2 DEF Claim, Due, Job
<1>7. /\ work[w].claim = {} /\ work'[w].claim = {l} /\ work'[w].pc = "stat"
      /\ \A v \in Workers \ {w} : work'[v] = work[v]
      /\ UNCHANGED <<record, objects, faults, slow>>
  BY DEF Claim, TypeOK, NoFault
<1>8. \A k \in Logs \ {l} :
         \/ job'[k] = job[k]
         \/ job[k].status = "PROCESSING" /\ job[k].over /\ job'[k].status = "RETRY"
  BY <1>1, <1>2, <1>3 DEF Job
<1> QED BY <1>5, <1>6, <1>7, <1>8

(* What the two reports write.                                             *)
LEMMA Reported ==
  ASSUME TypeOK, NEW w \in Workers, NEW l \in Logs, Reports(w, l)
  PROVE  /\ UNCHANGED <<objects, faults, slow>> /\ Release(w)
         /\ l \in work[w].claim
         /\ \A k \in Logs \ {l} : job'[k] = job[k] /\ record'[k] = record[k]
         /\ \/ /\ work[w].pc = "verified" /\ job'[l].status = "COMPLETED"
               /\ record'[l].status = "VERIFIED" /\ record'[l].version = work[w].version
            \/ /\ work[w].pc = "failed"
               /\ \/ job'[l].status = "RETRY" /\ record'[l].status = "RETRY"
                  \/ job'[l].status = "DEAD_LETTER" /\ record'[l].status = "FAILED"
               /\ record'[l].version = record[l].version
<1>1. CASE MarkSuccess(w, l)
  BY <1>1 DEF MarkSuccess, TypeOK, Job, Record, NoFault
<1>2. CASE MarkFailure(w, l)
  BY <1>2 DEF MarkFailure, TypeOK, Job, Record, NoFault, FailedStatuses
<1> QED BY <1>1, <1>2 DEF Reports

(* Job and record are written together, by whoever reports.                *)
LEMMA OutboxAgrees ==
  ASSUME TypeOK, JobMatchesRecord, [Next]_snapshotVars
  PROVE  JobMatchesRecord'
<1>1. ASSUME NEW l \in Logs, Enqueue(l) PROVE JobMatchesRecord'
  BY <1>1 DEF Enqueue, TypeOK, Job, Record, JobMatchesRecord
<1>2. ASSUME NEW l \in Logs, TimePasses(l) PROVE JobMatchesRecord'
  <2>1. job' = [job EXCEPT ![l].over = TRUE] /\ UNCHANGED record
    BY <1>2 DEF TimePasses, BackoffEnds, LeaseExpires
  <2> QED BY <2>1 DEF TypeOK, Job, JobMatchesRecord
<1>3. ASSUME NEW w \in Workers, NEW l \in Logs, Claim(w, l) PROVE JobMatchesRecord'
  BY <1>3, ClaimTaken DEF JobMatchesRecord
<1>4. ASSUME NEW w \in Workers, NEW l \in Logs, Works(w, l) PROVE JobMatchesRecord'
  BY <1>4, ClaimsKept DEF JobMatchesRecord
<1>5. ASSUME NEW w \in Workers, NEW l \in Logs, Reports(w, l) PROVE JobMatchesRecord'
  <2>1. \A k \in Logs \ {l} : job'[k] = job[k] /\ record'[k] = record[k]
    BY <1>5, Reported
  <2>2. \/ job'[l].status = "COMPLETED" /\ record'[l].status = "VERIFIED"
        \/ job'[l].status = "RETRY" /\ record'[l].status = "RETRY"
        \/ job'[l].status = "DEAD_LETTER" /\ record'[l].status = "FAILED"
    BY <1>5, Reported
  <2> QED BY <2>1, <2>2 DEF JobMatchesRecord
<1>6. ASSUME NEW w \in Workers, Drops(w) PROVE JobMatchesRecord'
  BY <1>6 DEF Drops, MarkFails, Crash, stored, JobMatchesRecord
<1>7. CASE UNCHANGED snapshotVars
  BY <1>7 DEF snapshotVars, stored, JobMatchesRecord
<1> QED BY <1>1, <1>2, <1>3, <1>4, <1>5, <1>6, <1>7, StepCases

(* Objects are never deleted, and only a verified version is recorded.     *)
LEMMA SnapshotStays ==
  ASSUME TypeOK, HeldVersions, [Next]_snapshotVars, NEW k \in Logs, HasSnapshot(k)
  PROVE  HasSnapshot(k)'
<1>0. objects[k] \in Nat /\ record[k] \in Record
  BY DEF TypeOK
<1>1. ASSUME NEW l \in Logs, Enqueue(l) \/ TimePasses(l) PROVE HasSnapshot(k)'
  <2>1. UNCHANGED objects /\ (UNCHANGED record \/ record' = [record EXCEPT ![l].status = "PENDING"])
    BY <1>1 DEF Enqueue, TimePasses, BackoffEnds, LeaseExpires
  <2>2. record'[k].version = record[k].version
    BY <2>1 DEF TypeOK, Record
  <2> QED BY <2>1, <2>2 DEF HasSnapshot
<1>2. ASSUME NEW w \in Workers, NEW l \in Logs, Claim(w, l) PROVE HasSnapshot(k)'
  BY <1>2 DEF Claim, HasSnapshot
<1>3. ASSUME NEW w \in Workers, NEW l \in Logs, Works(w, l) PROVE HasSnapshot(k)'
  <2>1. objects'[k] \in {objects[k], objects[k] + 1}
    BY <1>3 DEF Works, Stat, Put, PutFails, ReadBack, StoreFails, stored, TypeOK
  <2> QED BY <1>0, <1>3, <2>1, ClaimsKept DEF HasSnapshot, Record
<1>4. ASSUME NEW w \in Workers, NEW l \in Logs, Reports(w, l) PROVE HasSnapshot(k)'
  <2>1. /\ l \in work[w].claim /\ UNCHANGED objects
        /\ k # l => record'[k] = record[k]
        /\ work[w].pc = "verified" => work[w].version \in 1..objects[l]
        /\ \/ /\ work[w].pc = "verified"
              /\ record'[l].version = work[w].version
           \/ record'[l].version = record[l].version
    BY <1>4, Reported DEF HeldVersions
  <2> QED BY <2>1 DEF HasSnapshot
<1>5. ASSUME NEW w \in Workers, Drops(w) PROVE HasSnapshot(k)'
  BY <1>5 DEF Drops, MarkFails, Crash, stored, HasSnapshot
<1>6. CASE UNCHANGED snapshotVars
  BY <1>6 DEF snapshotVars, stored, HasSnapshot
<1> QED BY <1>1, <1>2, <1>3, <1>4, <1>5, <1>6, StepCases
LEMMA OutboxVersions ==
  ASSUME TypeOK, HeldVersions, VerifiedHasSnapshot, [Next]_snapshotVars
  PROVE  HeldVersions' /\ VerifiedHasSnapshot'
<1>0. \A k \in Logs : HasSnapshot(k) => HasSnapshot(k)'
  BY SnapshotStays
<1>1. ASSUME NEW l \in Logs, Enqueue(l) \/ TimePasses(l)
      PROVE  HeldVersions' /\ VerifiedHasSnapshot'
  <2>1. /\ UNCHANGED <<objects, work>>
        /\ UNCHANGED record \/ record' = [record EXCEPT ![l].status = "PENDING"]
    BY <1>1 DEF Enqueue, TimePasses, BackoffEnds, LeaseExpires
  <2>2. \A k \in Logs : record'[k].status = "VERIFIED" => record[k].status = "VERIFIED"
    BY <2>1 DEF TypeOK, Record
  <2> QED BY <1>0, <2>1, <2>2 DEF HeldVersions, VerifiedHasSnapshot
<1>2. ASSUME NEW w \in Workers, NEW l \in Logs, Claim(w, l)
      PROVE  HeldVersions' /\ VerifiedHasSnapshot'
  BY <1>0, <1>2, ClaimTaken DEF HeldVersions, VerifiedHasSnapshot
<1>3. ASSUME NEW w \in Workers, NEW l \in Logs, Works(w, l)
      PROVE  HeldVersions' /\ VerifiedHasSnapshot'
  <2>1. \A k \in Logs : objects[k] \in Nat /\ objects'[k] \in Nat /\ objects[k] <= objects'[k]
    BY <1>3 DEF Works, Stat, Put, PutFails, ReadBack, StoreFails, stored, TypeOK
  <2>2. work'[w].pc \in {"read", "verified"} => work'[w].version \in 1..objects'[l]
    <3>1. CASE Stat(w, l) /\ objects[l] # 0
      <4>1. work'[w].version = objects[l] /\ objects'[l] = objects[l]
        BY <3>1 DEF Stat, HasVersion, stored, TypeOK, Work
      <4> QED BY <2>1, <3>1, <4>1
    <3>2. CASE Stat(w, l) /\ objects[l] = 0
      BY <3>2 DEF Stat, Goto, TypeOK, Work
    <3>3. CASE Put(w, l)
      <4>1. work'[w].version = objects[l] + 1 /\ objects'[l] = objects[l] + 1
        BY <3>3 DEF Put, HasVersion, TypeOK, Work
      <4> QED BY <2>1, <4>1
    <3>4. CASE PutFails(w, l) \/ StoreFails(w, l)
      BY <3>4 DEF PutFails, StoreFails, Goto, TypeOK, Work
    <3>5. CASE ReadBack(w, l)
      <4>1. work[w].pc = "read" /\ work'[w].version = work[w].version /\ l \in work[w].claim
        BY <3>5 DEF ReadBack, Goto, TypeOK, Work
      <4> QED BY <3>5, <4>1 DEF HeldVersions, ReadBack, stored
    <3> QED BY <1>3, <3>1, <3>2, <3>3, <3>4, <3>5 DEF Works
  <2>3. /\ UNCHANGED record /\ work'[w].claim = {l}
        /\ \A v \in Workers \ {w} : work'[v] = work[v]
    BY <1>3, ClaimsKept
  <2>4. HeldVersions'
    <3> SUFFICES ASSUME NEW v \in Workers, NEW k \in work'[v].claim,
                        work'[v].pc \in {"read", "verified"}
                 PROVE  work'[v].version \in 1..objects'[k]
      BY DEF HeldVersions
    <3>1. CASE v = w
      BY <2>2, <2>3, <3>1
    <3>2. CASE v # w
      <4>1. work'[v] = work[v] /\ k \in Logs
        BY <2>3, <3>2 DEF TypeOK, Work
      <4>2. work[v].version \in 1..objects[k]
        BY <4>1 DEF HeldVersions
      <4> QED BY <2>1, <4>1, <4>2
    <3> QED BY <3>1, <3>2
  <2> QED BY <1>0, <2>3, <2>4 DEF VerifiedHasSnapshot
<1>4. ASSUME NEW w \in Workers, NEW l \in Logs, Reports(w, l)
      PROVE  HeldVersions' /\ VerifiedHasSnapshot'
  <2>1. /\ UNCHANGED objects /\ l \in work[w].claim
        /\ \A k \in Logs \ {l} : record'[k] = record[k]
    BY <1>4, Reported
  <2>2. record'[l].status = "VERIFIED" => record'[l].version \in 1..objects[l]
    <3>1. work[w].pc = "verified" => work[w].version \in 1..objects[l]
      BY <2>1 DEF HeldVersions
    <3> QED BY <1>4, <3>1, Reported
  <2>3. VerifiedHasSnapshot'
    BY <2>1, <2>2 DEF VerifiedHasSnapshot, HasSnapshot
  <2>4. work'[w] = Idle /\ \A v \in Workers \ {w} : work'[v] = work[v]
    BY <1>4, Reported, ClaimsReleased
  <2>5. HeldVersions'
    BY <2>1, <2>4 DEF HeldVersions, Idle
  <2> QED BY <2>3, <2>5
<1>5. ASSUME NEW w \in Workers, Drops(w) PROVE HeldVersions' /\ VerifiedHasSnapshot'
  <2>1. UNCHANGED <<record, objects>> /\ Release(w)
    BY <1>5 DEF Drops, MarkFails, Crash, stored
  <2> QED BY <2>1, ClaimsReleased DEF HeldVersions, VerifiedHasSnapshot, HasSnapshot, Idle
<1>6. CASE UNCHANGED snapshotVars
  BY <1>6 DEF snapshotVars, stored, HeldVersions, VerifiedHasSnapshot, HasSnapshot
<1> QED BY <1>1, <1>2, <1>3, <1>4, <1>5, <1>6, StepCases

(* Holders and leases.                                                     *)
LEMMA FewHolders ==
  ASSUME TypeOK, NEW l \in Logs
  PROVE  /\ IsFiniteSet(Holders(l)) /\ Cardinality(Holders(l)) \in Nat
         /\ IsFiniteSet(Uploaders(l)) /\ Cardinality(Uploaders(l)) \in Nat
         /\ Cardinality(Uploaders(l)) <= Cardinality(Holders(l))
<1>1. Holders(l) \subseteq Workers /\ Uploaders(l) \subseteq Holders(l)
  BY DEF Holders, Uploaders
<1>2. IsFiniteSet(Holders(l)) /\ IsFiniteSet(Uploaders(l))
  BY <1>1, FS_Subset, WorkerAssumption
<1>3. Cardinality(Uploaders(l)) <= Cardinality(Holders(l))
  BY <1>1, <1>2, FS_Subset
<1> QED BY <1>2, <1>3, FS_CardinalityType

LEMMA OutboxBounds ==
  ASSUME TypeOK, HoldersBounded, VersionsBounded, [Next]_snapshotVars
  PROVE  HoldersBounded' /\ VersionsBounded'
<1>0. /\ slow \in Nat /\ \A l \in Logs : objects[l] \in Nat
      /\ \A l \in Logs : Cardinality(Holders(l)) \in Nat /\ Cardinality(Uploaders(l)) \in Nat
  BY FewHolders DEF TypeOK
<1>1. ASSUME NEW l \in Logs, Enqueue(l) PROVE HoldersBounded' /\ VersionsBounded'
  <2>1. UNCHANGED <<objects, work, slow>> /\ job' = [job EXCEPT ![l].status = "PENDING"]
        /\ job[l].status = "ABSENT"
    BY <1>1 DEF Enqueue, NoFault
  <2>2. \A k \in Logs : Leases(k)' = Leases(k)
    BY <2>1 DEF Leases, Running, TypeOK, Job
  <2>3. \A k \in Logs : Holders(k)' = Holders(k) /\ Uploaders(k)' = Uploaders(k)
    BY <2>1 DEF Holders, Uploaders
  <2> QED BY <2>1, <2>2, <2>3 DEF HoldersBounded, VersionsBounded
<1>2. ASSUME NEW l \in Logs, TimePasses(l) PROVE HoldersBounded' /\ VersionsBounded'
  <2>1. UNCHANGED <<objects, work>> /\ job' = [job EXCEPT ![l].over = TRUE]
    BY <1>2 DEF TimePasses, BackoffEnds, LeaseExpires
  <2>2. \A k \in Logs : Holders(k)' = Holders(k) /\ Uploaders(k)' = Uploaders(k)
    BY <2>1 DEF Holders, Uploaders
  <2>3. slow' = slow \/ slow' = slow + 1
    BY <1>2 DEF TimePasses, BackoffEnds, LeaseExpires, NoFault
  <2>4. \A k \in Logs : Cardinality(Holders(k)) <= Leases(k)'
    <3>1. \A k \in Logs \ {l} : job'[k] = job[k]
      BY <2>1 DEF TypeOK
    <3>2. \A k \in Logs \ {l} : Leases(k) <= Leases(k)'
      BY <1>0, <2>3, <3>1 DEF Leases, Running
    <3>3. \A k \in Logs \ {l} : Cardinality(Holders(k)) <= Leases(k)'
      BY <1>0, <2>3, <3>1 DEF HoldersBounded, Leases, Running
    <3>4. CASE Holders(l) = {}
      <4>1. Cardinality(Holders(l)) = 0
        BY <3>4, NoHolders
      <4>2. Leases(l)' >= 0
        BY <1>0, <2>3 DEF Leases
      <4> QED BY <3>3, <4>1, <4>2
    <3>5. CASE Holders(l) # {}
      <4>1. Cardinality(Holders(l)) <= Leases(l)
        BY DEF HoldersBounded
      <4>2. ~Running(l)'
        BY <2>1 DEF Running, TypeOK, Job
      <4>3. Leases(l)' = slow'
        BY <4>2 DEF Leases
      <4>4. slow' = slow + 1 \/ (slow' = slow /\ ~Running(l))
        BY <1>2, <3>5 DEF TimePasses, BackoffEnds, LeaseExpires, NoFault, Running
      <4> QED BY <1>0, <3>3, <4>1, <4>3, <4>4 DEF Leases
    <3> QED BY <3>4, <3>5
  <2>5. HoldersBounded'
    BY <2>2, <2>4 DEF HoldersBounded
  <2>6. VersionsBounded'
    BY <1>0, <2>1, <2>2, <2>3 DEF VersionsBounded
  <2> QED BY <2>5, <2>6
<1>3. ASSUME NEW w \in Workers, NEW l \in Logs, Claim(w, l)
      PROVE  HoldersBounded' /\ VersionsBounded'
  <2>1. /\ Holders(l)' = Holders(l) \cup {w}
        /\ \A k \in Logs \ {l} : Holders(k)' = Holders(k)
        /\ \A k \in Logs : Uploaders(k)' = Uploaders(k)
    BY <1>3, ClaimTaken DEF Holders, Uploaders
  <2>2. UNCHANGED <<objects, slow>>
    BY <1>3, ClaimTaken
  <2>3. Cardinality(Holders(l)') <= Cardinality(Holders(l)) + 1
    <3>1. Cardinality(Holders(l) \cup {w}) <= Cardinality(Holders(l)) + 1
      <4>1. IsFiniteSet(Holders(l))
        BY FewHolders
      <4>2. Cardinality(Holders(l) \cup {w}) = IF w \in Holders(l) THEN Cardinality(Holders(l))
                                              ELSE Cardinality(Holders(l)) + 1
        BY <4>1, FS_AddElement
      <4> QED BY <1>0, <4>2
    <3> QED BY <2>1, <3>1
  <2>4. Leases(l) = slow /\ Leases(l)' = slow + 1
    BY <1>3, <2>2, ClaimTaken DEF Leases, Running
  <2>5. \A k \in Logs \ {l} : Leases(k)' = Leases(k)
    BY <1>3, <2>2, ClaimTaken DEF Leases, Running
  <2>6. Cardinality(Holders(l)') <= Leases(l)'
    <3>1. Cardinality(Holders(l)) <= slow
      BY <2>4 DEF HoldersBounded
    <3>2. Cardinality(Holders(l)') \in Nat
      BY <2>1, FewHolders, FS_AddElement, FS_CardinalityType
    <3> QED BY <1>0, <2>3, <2>4, <3>1, <3>2
  <2>7. \A k \in Logs \ {l} : Cardinality(Holders(k)') <= Leases(k)'
    BY <2>1, <2>5 DEF HoldersBounded
  <2>8. HoldersBounded'
    BY <2>6, <2>7 DEF HoldersBounded
  <2> QED BY <2>1, <2>2, <2>8 DEF VersionsBounded
<1>4. ASSUME NEW w \in Workers, NEW l \in Logs, Works(w, l)
      PROVE  HoldersBounded' /\ VersionsBounded'
  <2>1. /\ UNCHANGED <<job, slow>> /\ w \in Holders(l) /\ work[w].claim = {l}
        /\ \A v \in Workers : work'[v].claim = work[v].claim
        /\ \A v \in Workers \ {w} : work'[v] = work[v]
    BY <1>4, ClaimsKept
  <2>2. \A k \in Logs : Holders(k)' = Holders(k) /\ Leases(k)' = Leases(k)
    BY <2>1 DEF Holders, Leases, Running
  <2>3. HoldersBounded'
    BY <2>2 DEF HoldersBounded
  <2>4. \A k \in Logs \ {l} : Uploaders(k)' = Uploaders(k) /\ objects'[k] = objects[k]
    <3>1. \A k \in Logs \ {l} : objects'[k] = objects[k]
      BY <1>4 DEF Works, Stat, Put, PutFails, ReadBack, StoreFails, stored, TypeOK
    <3>2. \A k \in Logs \ {l} : w \notin Holders(k)
      BY <2>1 DEF Holders
    <3> QED BY <2>1, <2>2, <3>1, <3>2 DEF Uploaders, Holders
  <2>5. objects'[l] + Cardinality(Uploaders(l)') <= 1 + slow
    <3>1. CASE work[w].pc = "put"
      <4>1. w \in Uploaders(l) /\ Uploaders(l)' = Uploaders(l) \ {w}
        <5>1. work'[w].pc # "put"
          BY <1>4, <3>1 DEF Works, Stat, Put, PutFails, ReadBack, StoreFails, Goto, HasVersion,
                            TypeOK, Work
        <5> QED BY <2>1, <2>2, <3>1, <5>1 DEF Uploaders, Holders
      <4>2. objects'[l] \in {objects[l], objects[l] + 1}
        BY <1>4 DEF Works, Stat, Put, PutFails, ReadBack, StoreFails, stored, TypeOK
      <4>3. Cardinality(Uploaders(l)') = Cardinality(Uploaders(l)) - 1
        BY <4>1, FewHolders, FS_RemoveElement
      <4> QED BY <1>0, <4>2, <4>3 DEF VersionsBounded
    <3>2. CASE work[w].pc = "stat" /\ objects[l] = 0
      <4>1. objects'[l] = 0
        BY <1>4, <3>2 DEF Works, Stat, Put, PutFails, ReadBack, StoreFails, stored
      <4>2. Uploaders(l)' \subseteq Holders(l)
        BY <2>2 DEF Uploaders
      <4>3. /\ Cardinality(Uploaders(l)') <= Cardinality(Holders(l))
            /\ Cardinality(Uploaders(l)') \in Nat
        BY <4>2, FewHolders, FS_Subset, FS_CardinalityType
      <4>4. Cardinality(Holders(l)) <= 1 + slow
        BY <1>0 DEF HoldersBounded, Leases
      <4> QED BY <1>0, <4>1, <4>3, <4>4
    <3>3. CASE work[w].pc # "put" /\ ~(work[w].pc = "stat" /\ objects[l] = 0)
      <4>1. objects'[l] = objects[l] /\ work'[w].pc # "put"
        BY <1>4, <3>3 DEF Works, Stat, Put, PutFails, ReadBack, StoreFails, stored, Goto,
                          HasVersion, TypeOK, Work
      <4>2. Uploaders(l)' = Uploaders(l)
        BY <2>1, <2>2, <3>3, <4>1 DEF Uploaders, Holders
      <4> QED BY <4>1, <4>2 DEF VersionsBounded
    <3> QED BY <3>1, <3>2, <3>3
  <2> QED BY <2>1, <2>3, <2>4, <2>5 DEF VersionsBounded
<1>5. ASSUME NEW w \in Workers, Release(w), UNCHANGED slow, UNCHANGED objects,
             \E l \in Logs : /\ w \in Holders(l) /\ \A k \in Logs \ {l} : job'[k] = job[k]
      PROVE  HoldersBounded' /\ VersionsBounded'
  <2>1. \A k \in Logs : Holders(k)' = Holders(k) \ {w} /\ Uploaders(k)' = Uploaders(k) \ {w}
    BY <1>5, ClaimsReleased
  <2>2. ASSUME NEW k \in Logs
        PROVE  /\ Cardinality(Uploaders(k)') \in Nat
               /\ Cardinality(Uploaders(k)') <= Cardinality(Uploaders(k))
    <3>1. /\ Cardinality(Uploaders(k) \ {w}) \in Nat
          /\ Cardinality(Uploaders(k) \ {w}) <= Cardinality(Uploaders(k))
      <4>1. IsFiniteSet(Uploaders(k))
        BY FewHolders
      <4>2. /\ IsFiniteSet(Uploaders(k) \ {w})
            /\ Cardinality(Uploaders(k) \ {w}) = IF w \in Uploaders(k)
                                                 THEN Cardinality(Uploaders(k)) - 1
                                                 ELSE Cardinality(Uploaders(k))
        BY <4>1, FS_RemoveElement
      <4>3. Cardinality(Uploaders(k) \ {w}) \in Nat
        BY <4>2, FS_CardinalityType
      <4> QED BY <1>0, <4>2, <4>3
    <3> QED BY <2>1, <3>1
  <2>3. ASSUME NEW k \in Logs
        PROVE  Cardinality(Holders(k)') <= Leases(k)'
    <3>1. Cardinality(Holders(k)) <= Leases(k)
      BY DEF HoldersBounded
    <3>2. Cardinality(Holders(k)') = IF w \in Holders(k) THEN Cardinality(Holders(k)) - 1
                                                         ELSE Cardinality(Holders(k))
      BY <2>1, FewHolders, FS_RemoveElement
    <3>3. w \in Holders(k) \/ job'[k] = job[k]
      BY <1>5
    <3>4. CASE w \in Holders(k)
      BY <1>0, <1>5, <3>1, <3>2, <3>4 DEF Leases
    <3>5. CASE job'[k] = job[k]
      <4>1. Leases(k)' = Leases(k) /\ Leases(k) \in Nat
        BY <1>0, <1>5, <3>5 DEF Leases, Running
      <4> QED BY <1>0, <3>1, <3>2, <4>1
    <3> QED BY <3>3, <3>4, <3>5
  <2>4. HoldersBounded'
    BY <2>3 DEF HoldersBounded
  <2>5. VersionsBounded'
    BY <1>0, <1>5, <2>2 DEF VersionsBounded
  <2> QED BY <2>4, <2>5
<1>6. ASSUME NEW w \in Workers, NEW l \in Logs, Reports(w, l)
      PROVE  HoldersBounded' /\ VersionsBounded'
  BY <1>5, <1>6, Reported DEF Holders
<1>7. ASSUME NEW w \in Workers, Drops(w) PROVE HoldersBounded' /\ VersionsBounded'
  <2>1. /\ Release(w) /\ UNCHANGED <<job, objects, slow>> /\ work[w].pc # "idle"
    BY <1>7 DEF Drops, MarkFails, Crash, stored, Spend
  <2>2. PICK l \in Logs : w \in Holders(l)
    BY <2>1 DEF TypeOK, Work, Holders
  <2> QED BY <1>5, <2>1, <2>2
<1>8. CASE UNCHANGED snapshotVars
  BY <1>8 DEF snapshotVars, stored, HoldersBounded, VersionsBounded, Holders, Uploaders, Leases,
              Running
<1> QED BY <1>1, <1>2, <1>3, <1>4, <1>6, <1>7, <1>8, StepCases

LEMMA OutboxStep == OutboxInv /\ [Next]_snapshotVars => OutboxInv'
BY OutboxTypes, OutboxAgrees, OutboxVersions, OutboxBounds DEF OutboxInv
-----------------------------------------------------------------------------
(* The pipeline behind the gate.                                           *)

PipelineTypes ==
  /\ row \in [Logs -> Pipe!Row]
  /\ meta \subseteq SUBSET Logs /\ ledger \in Seq(SUBSET Logs)
  /\ pc \in [Gateways -> Pipe!Phases]
  /\ DOMAIN copy = Gateways /\ copy = [g \in Gateways |-> copy[g]]
  /\ batch \in [Gateways -> SUBSET Logs]
  /\ todo \in [Gateways -> SUBSET SUBSET Logs]
  /\ sent \in [Gateways -> [root : SUBSET Logs, id : Nat]]

(* There is no backlog, so the hasher has nothing in hand.                 *)
NothingReceived ==
  /\ \A l \in Logs : row[l].status # "RECEIVED"
  /\ \A g \in Gateways : DOMAIN copy[g] = {}

(* What is sealed and what is sent is never the empty root, which every    *)
(* row that waits carries.                                                 *)
NoEmptyRoot ==
  /\ {} \notin meta
  /\ \A g \in Gateways : /\ pc[g] = "seal" => batch[g] # {}
                         /\ pc[g] = "mark" => sent[g].root # {}

(* Whatever ProcessBatch holds has passed the gate, and a row gets its     *)
(* root only from there.                                                   *)
BatchHasSnapshots == \A g \in Gateways : \A l \in batch[g] : HasSnapshot(l)
RootHasSnapshot ==
  \A l \in Logs : row[l].root # {} \/ l \in Sealed => HasSnapshot(l)

GateInv ==
  /\ OutboxInv /\ PipelineTypes /\ NothingReceived /\ NoEmptyRoot
  /\ BatchHasSnapshots /\ RootHasSnapshot

LEMMA GateStarts == GateInit => GateInv
<1> SUFFICES ASSUME GateInit PROVE GateInv
  OBVIOUS
<1> USE DEF Pipe!Init, GateInit
<1>1. OutboxInv
  BY OutboxInit
<1>2. PipelineTypes
  <2>1. row \in [Logs -> Pipe!Row] /\ pc \in [Gateways -> Pipe!Phases]
    BY DEF Pipe!Row, Pipe!Statuses, Pipe!Roots, Pipe!NoRoot, Pipe!Phases
  <2>2. sent \in [Gateways -> [root : SUBSET Logs, id : Nat]]
    BY DEF Pipe!NoSubmission, Pipe!NoRoot
  <2> QED BY <2>1, <2>2 DEF PipelineTypes
<1>3. NothingReceived /\ NoEmptyRoot
  BY DEF NothingReceived, NoEmptyRoot, Pipe!NoCopy
<1>4. BatchHasSnapshots /\ RootHasSnapshot
  BY DEF BatchHasSnapshots, RootHasSnapshot, Sealed, Pipe!NoRoot
<1> QED BY <1>1, <1>2, <1>3, <1>4 DEF GateInv

(* A batch is a nonempty part of its pool.                                 *)
LEMMA BatchOfPool ==
  ASSUME NEW pool, pool # {}, NEW b \in Pipe!OldestOf(pool)
  PROVE  b \subseteq pool /\ b # {}
<1>1. b \subseteq pool
  BY DEF Pipe!OldestOf
<1>2. Cardinality(b) = BatchSize \/ b = pool
  <2>1. Pipe!Cardinality(b) = Cardinality(b)
    BY DEF Pipe!Cardinality, Cardinality, Pipe!IsFiniteSet, IsFiniteSet
  <2> QED BY <2>1 DEF Pipe!OldestOf
<1> QED BY <1>1, <1>2, NoHolders, GateAssumption

(* The steps of the pipeline, by what they do to rows and roots.           *)
LEMMA PipelineTypesKept ==
  ASSUME PipelineTypes, NothingReceived, NEW g \in Gateways,
         Pipe!Tick(g, Verified) \/ Pipe!Crash(g)
  PROVE  PipelineTypes' /\ NothingReceived'
<1> USE DEF PipelineTypes, NothingReceived
<1>1. CASE Pipe!LoadPending(g)
  <2>1. Pipe!Pending = {}
    BY DEF Pipe!Pending, Pipe!WithStatus
  <2> QED BY <1>1, <2>1 DEF Pipe!LoadPending, Pipe!Phases
<1>2. ASSUME NEW l \in Logs, Pipe!SaveHashed(g, l) \/ Pipe!SaveFails(g, l) PROVE FALSE
  BY <1>2 DEF Pipe!SaveHashed, Pipe!SaveFails
<1>3. CASE Pipe!FinishHashing(g) \/ Pipe!NothingToSeal(g, Verified) \/ Pipe!FinishTick(g)
  <2>1. /\ \E p \in Pipe!Phases : pc' = [pc EXCEPT ![g] = p]
        /\ UNCHANGED <<row, meta, ledger, copy, batch, todo, sent>>
    BY <1>3 DEF Pipe!FinishHashing, Pipe!NothingToSeal, Pipe!FinishTick, Pipe!Phases
  <2> QED BY <2>1
<1>4. CASE Pipe!ReadBatch(g, Verified)
  <2>1. PICK b \in Pipe!OldestOf(Pipe!Aggregable \cap Verified) : batch' = [batch EXCEPT ![g] = b]
    BY <1>4 DEF Pipe!ReadBatch
  <2>2. b \subseteq Logs
    BY DEF Pipe!OldestOf, Verified
  <2> QED BY <1>4, <2>1, <2>2 DEF Pipe!ReadBatch, Pipe!Phases
<1>5. CASE Pipe!SealBatch(g)
  <2>1. row' = [l \in Logs |-> IF l \in batch[g]
                  THEN [row[l] EXCEPT !.status = "AGGREGATED", !.root = batch[g]]
                  ELSE row[l]]
    BY <1>5 DEF Pipe!SealBatch
  <2>2. \A l \in Logs :
          LET r == [row[l] EXCEPT !.status = "AGGREGATED", !.root = batch[g]]
          IN  r \in Pipe!Row /\ r.status # "RECEIVED"
    <3>1. batch[g] \in SUBSET Logs /\ \A l \in Logs : row[l] \in Pipe!Row
      OBVIOUS
    <3> HIDE DEF PipelineTypes, NothingReceived
    <3> QED BY <3>1 DEF Pipe!Row, Pipe!Statuses, Pipe!Roots
  <2>3. row' \in [Logs -> Pipe!Row] /\ \A l \in Logs : row'[l].status # "RECEIVED"
    <3>1. row \in [Logs -> Pipe!Row] /\ \A l \in Logs : row[l].status # "RECEIVED"
      OBVIOUS
    <3> HIDE DEF PipelineTypes, NothingReceived
    <3> QED BY <2>1, <2>2, <3>1
  <2>4. meta' \subseteq SUBSET Logs
    <3>1. batch[g] \in SUBSET Logs /\ meta' = meta \cup {batch[g]} /\ meta \subseteq SUBSET Logs
      BY <1>5 DEF Pipe!SealBatch
    <3> HIDE DEF PipelineTypes, NothingReceived
    <3> QED BY <3>1
  <2> QED BY <1>5, <2>3, <2>4 DEF Pipe!SealBatch, Pipe!LeaveSeal, Pipe!Phases
<1>6. CASE Pipe!RollBackBatch(g)
  BY <1>6 DEF Pipe!RollBackBatch, Pipe!LeaveSeal, Pipe!Phases
<1>7. CASE Pipe!ReadRoots(g)
  <2>1. Pipe!PendingRoots \subseteq SUBSET Logs
    BY DEF Pipe!PendingRoots, Pipe!WithStatus, Pipe!Row, Pipe!Roots
  <2> QED BY <1>7, <2>1 DEF Pipe!ReadRoots, Pipe!Phases
<1>8. ASSUME NEW r \in SUBSET Logs, Pipe!SubmitRoot(g, r)
      PROVE  PipelineTypes' /\ NothingReceived'
  <2>1. ledger' \in Seq(SUBSET Logs) /\ Len(ledger) + 1 \in Nat
    BY <1>8 DEF Pipe!SubmitRoot
  <2>2. sent' \in [Gateways -> [root : SUBSET Logs, id : Nat]]
    BY <1>8, <2>1 DEF Pipe!SubmitRoot
  <2> QED BY <1>8, <2>1, <2>2 DEF Pipe!SubmitRoot, Pipe!Skip, Pipe!Phases
<1>9. ASSUME NEW r \in SUBSET Logs, Pipe!SubmitFails(g, r)
      PROVE  PipelineTypes' /\ NothingReceived'
  <2>1. ledger' = ledger \/ ledger' = Append(ledger, r)
    BY <1>9 DEF Pipe!SubmitFails
  <2>2. ledger' \in Seq(SUBSET Logs)
    <3>1. ledger \in Seq(SUBSET Logs)
      OBVIOUS
    <3> HIDE DEF PipelineTypes, NothingReceived
    <3>2. Append(ledger, r) \in Seq(SUBSET Logs)
      BY <3>1
    <3> QED BY <2>1, <3>1, <3>2
  <2> QED BY <1>9, <2>2 DEF Pipe!SubmitFails, Pipe!Skip
<1>10. CASE Pipe!MarkAnchored(g)
  <2>1. row' = [l \in Logs |-> IF row[l].root = sent[g].root THEN Pipe!Anchored(l, sent[g])
                                                          ELSE row[l]]
    BY <1>10 DEF Pipe!MarkAnchored
  <2>2. \A l \in Logs : /\ Pipe!Anchored(l, sent[g]) \in Pipe!Row
                        /\ Pipe!Anchored(l, sent[g]).status # "RECEIVED"
    <3>1. sent[g].id \in Nat /\ \A l \in Logs : row[l] \in Pipe!Row
      OBVIOUS
    <3> HIDE DEF PipelineTypes, NothingReceived
    <3> QED BY <3>1 DEF Pipe!Anchored, Pipe!Row, Pipe!Statuses
  <2>3. row' \in [Logs -> Pipe!Row] /\ \A l \in Logs : row'[l].status # "RECEIVED"
    <3>1. row \in [Logs -> Pipe!Row] /\ \A l \in Logs : row[l].status # "RECEIVED"
      OBVIOUS
    <3> HIDE DEF PipelineTypes, NothingReceived
    <3> QED BY <2>1, <2>2, <3>1
  <2> QED BY <1>10, <2>3 DEF Pipe!MarkAnchored, Pipe!LeaveMark, Pipe!NoSubmission, Pipe!NoRoot,
                             Pipe!Phases
<1>11. CASE Pipe!MarkFails(g)
  BY <1>11 DEF Pipe!MarkFails, Pipe!LeaveMark, Pipe!NoSubmission, Pipe!NoRoot, Pipe!Phases
<1>12. CASE Pipe!QueryFails(g)
  <2>1. Pipe!NextPhase[pc[g]] \in Pipe!Phases
    BY <1>12 DEF Pipe!QueryFails, Pipe!NextPhase, Pipe!Phases
  <2> QED BY <1>12, <2>1 DEF Pipe!QueryFails
<1>13. CASE Pipe!Crash(g)
  BY <1>13 DEF Pipe!Crash, Pipe!NoCopy, Pipe!NoSubmission, Pipe!NoRoot, Pipe!Phases
<1> QED
  BY <1>1, <1>2, <1>3, <1>4, <1>5, <1>6, <1>7, <1>8, <1>9, <1>10, <1>11, <1>12, <1>13
  DEF Pipe!Tick, Pipe!Hash, Pipe!Aggregate, Pipe!Anchor, Pipe!Roots
(* What a goroutine may come to hold or to write.                          *)
Seals(g) ==
  /\ pc[g] = "seal" /\ meta' = meta \cup {batch[g]}
  /\ row' = [l \in Logs |-> IF l \in batch[g]
                            THEN [row[l] EXCEPT !.status = "AGGREGATED", !.root = batch[g]]
                            ELSE row[l]]
Marks(g) ==
  /\ pc[g] = "mark" /\ UNCHANGED meta
  /\ row' = [l \in Logs |-> IF row[l].root = sent[g].root THEN Pipe!Anchored(l, sent[g])
                                                          ELSE row[l]]

LEMMA PipelineWrites ==
  ASSUME PipelineTypes, NothingReceived, NEW g \in Gateways,
         Pipe!Tick(g, Verified) \/ Pipe!Crash(g)
  PROVE  /\ UNCHANGED <<row, meta>> \/ Seals(g) \/ Marks(g)
         /\ \A h \in Gateways :
              \/ batch'[h] \in {batch[h], {}}
              \/ batch'[h] \subseteq Verified /\ batch'[h] # {}
         /\ \A h \in Gateways :
              pc'[h] = "seal" => batch'[h] # {} \/ (pc[h] = "seal" /\ batch'[h] = batch[h])
         /\ \A h \in Gateways :
              pc'[h] = "mark" => sent'[h].root \in meta \/ (pc[h] = "mark" /\ sent'[h] = sent[h])
<1> USE DEF PipelineTypes
<1>1. CASE Pipe!LoadPending(g)
  BY <1>1 DEF Pipe!LoadPending
<1>2. ASSUME NEW l \in Logs, Pipe!SaveHashed(g, l) \/ Pipe!SaveFails(g, l) PROVE FALSE
  BY <1>2 DEF Pipe!SaveHashed, Pipe!SaveFails, NothingReceived
<1>3. CASE \/ Pipe!FinishHashing(g) \/ Pipe!NothingToSeal(g, Verified) \/ Pipe!ReadRoots(g)
           \/ Pipe!FinishTick(g)
  BY <1>3 DEF Pipe!FinishHashing, Pipe!NothingToSeal, Pipe!ReadRoots, Pipe!FinishTick
<1>4. CASE Pipe!ReadBatch(g, Verified)
  <2>1. PICK b \in Pipe!OldestOf(Pipe!Aggregable \cap Verified) : batch' = [batch EXCEPT ![g] = b]
    BY <1>4 DEF Pipe!ReadBatch
  <2>2. b \subseteq Verified /\ b # {}
    <3>1. Pipe!Aggregable \cap Verified # {}
      BY <1>4 DEF Pipe!ReadBatch
    <3> HIDE DEF PipelineTypes
    <3>2. \A pool : pool # {} => \A c \in Pipe!OldestOf(pool) : c \subseteq pool /\ c # {}
      BY BatchOfPool
    <3>3. b \subseteq Pipe!Aggregable \cap Verified /\ b # {}
      BY <2>1, <3>1, <3>2
    <3> QED BY <3>3
  <2>3. /\ UNCHANGED <<row, meta, sent>>
        /\ \A h \in Gateways \ {g} : pc'[h] = pc[h] /\ batch'[h] = batch[h]
        /\ pc'[g] = "seal" /\ batch'[g] = b
    BY <1>4, <2>1 DEF Pipe!ReadBatch
  <2> HIDE DEF PipelineTypes
  <2> QED BY <2>2, <2>3
<1>5. CASE Pipe!SealBatch(g)
  BY <1>5 DEF Pipe!SealBatch, Pipe!LeaveSeal, Seals
<1>6. CASE Pipe!RollBackBatch(g)
  BY <1>6 DEF Pipe!RollBackBatch, Pipe!LeaveSeal
<1>7. ASSUME NEW r \in SUBSET Logs, Pipe!SubmitRoot(g, r)
      PROVE  /\ UNCHANGED <<row, meta, batch>> /\ pc'[g] = "mark" /\ sent'[g].root \in meta
             /\ \A h \in Gateways \ {g} : pc'[h] = pc[h] /\ sent'[h] = sent[h]
  BY <1>7 DEF Pipe!SubmitRoot
<1>8. ASSUME NEW r \in SUBSET Logs, Pipe!SubmitFails(g, r)
      PROVE  UNCHANGED <<row, meta, pc, batch, sent>>
  BY <1>8 DEF Pipe!SubmitFails
<1>9. CASE Pipe!MarkAnchored(g)
  BY <1>9 DEF Pipe!MarkAnchored, Pipe!LeaveMark, Marks
<1>10. CASE Pipe!MarkFails(g)
  BY <1>10 DEF Pipe!MarkFails, Pipe!LeaveMark
<1>11. CASE Pipe!QueryFails(g)
  BY <1>11 DEF Pipe!QueryFails, Pipe!NextPhase
<1>12. CASE Pipe!Crash(g)
  BY <1>12 DEF Pipe!Crash
<1> QED
  BY <1>1, <1>2, <1>3, <1>4, <1>5, <1>6, <1>7, <1>8, <1>9, <1>10, <1>11, <1>12
  DEF Pipe!Tick, Pipe!Hash, Pipe!Aggregate, Pipe!Anchor, Pipe!Roots

(* A step of the pipeline, which leaves the outbox alone.                  *)
LEMMA PipelineStep ==
  ASSUME GateInv, NEW g \in Gateways, Pipe!Tick(g, Verified) \/ Pipe!Crash(g),
         UNCHANGED snapshotVars
  PROVE  GateInv'
<1> USE DEF GateInv
<1>1. OutboxInv'
  BY OutboxStep
<1>2. PipelineTypes' /\ NothingReceived'
  BY PipelineTypesKept
<1>3. \A l \in Logs : HasSnapshot(l)' = HasSnapshot(l)
  BY DEF snapshotVars, stored, HasSnapshot
<1>4. \A l \in Verified : l \in Logs /\ HasSnapshot(l)
  BY DEF Verified, OutboxInv, VerifiedHasSnapshot
<1>5. NoEmptyRoot'
  <2>1. {} \notin meta'
    <3>1. UNCHANGED meta \/ (pc[g] = "seal" /\ meta' = meta \cup {batch[g]})
      BY PipelineWrites DEF Seals, Marks
    <3> QED BY <3>1 DEF NoEmptyRoot
  <2>2. \A h \in Gateways : /\ pc'[h] = "seal" => batch'[h] # {}
                            /\ pc'[h] = "mark" => sent'[h].root # {}
    BY PipelineWrites DEF NoEmptyRoot
  <2> QED BY <2>1, <2>2 DEF NoEmptyRoot
<1>6. BatchHasSnapshots'
  <2> SUFFICES ASSUME NEW h \in Gateways, NEW l \in batch'[h] PROVE HasSnapshot(l)'
    BY DEF BatchHasSnapshots
  <2>1. l \in batch[h] \/ l \in Verified
    BY PipelineWrites
  <2>2. l \in Logs /\ HasSnapshot(l)
    BY <1>4, <2>1 DEF BatchHasSnapshots, PipelineTypes
  <2> QED BY <1>3, <2>2
<1>7. RootHasSnapshot'
  <2> SUFFICES ASSUME NEW l \in Logs,
                      row'[l].root # {} \/ row'[l].status \in {"AGGREGATED", "ANCHORED"}
               PROVE  HasSnapshot(l)
    BY <1>3 DEF RootHasSnapshot, Sealed
  <2>1. CASE UNCHANGED row
    BY <2>1 DEF RootHasSnapshot, Sealed
  <2>2. CASE Seals(g)
    BY <2>2 DEF Seals, BatchHasSnapshots, RootHasSnapshot, Sealed
  <2>3. CASE Marks(g)
    <3>1. CASE row[l].root = sent[g].root
      BY <2>3, <3>1 DEF Marks, NoEmptyRoot, RootHasSnapshot
    <3>2. CASE row[l].root # sent[g].root
      <4>1. row'[l] = row[l]
        BY <2>3, <3>2 DEF Marks
      <4> QED BY <4>1 DEF RootHasSnapshot, Sealed
    <3> QED BY <3>1, <3>2
  <2> QED BY <2>1, <2>2, <2>3, PipelineWrites
<1> QED BY <1>1, <1>2, <1>5, <1>6, <1>7

LEMMA GateStep == GateInv /\ [GateNext]_gateVars => GateInv'
<1> SUFFICES ASSUME GateInv, [GateNext]_gateVars PROVE GateInv'
  OBVIOUS
<1>0. OutboxInv
  BY DEF GateInv
<1>1. ASSUME [Next]_snapshotVars
      PROVE  OutboxInv' /\ \A l \in Logs : HasSnapshot(l) => HasSnapshot(l)'
  BY <1>0, <1>1, OutboxStep, SnapshotStays DEF OutboxInv
<1>2. ASSUME NEW l \in Logs, Store(l) PROVE GateInv'
  <2>1. OutboxInv' /\ \A k \in Logs : HasSnapshot(k) => HasSnapshot(k)'
    BY <1>1, <1>2 DEF Store, Next
  <2>2. /\ row' = [row EXCEPT ![l].status = "HASHED"]
        /\ UNCHANGED <<meta, ledger, pc, copy, batch, todo, sent>>
    BY <1>2 DEF Store, Pipe!Ingest, Pipe!local
  <2>3. /\ row' \in [Logs -> Pipe!Row]
        /\ \A k \in Logs : /\ row'[k].root = row[k].root
                           /\ row'[k].status \in {row[k].status, "HASHED"}
    <3>1. row \in [Logs -> Pipe!Row]
      BY DEF GateInv, PipelineTypes
    <3>2. /\ [row[l] EXCEPT !.status = "HASHED"] \in Pipe!Row
          /\ [row[l] EXCEPT !.status = "HASHED"].root = row[l].root
          /\ [row[l] EXCEPT !.status = "HASHED"].status = "HASHED"
      BY <3>1 DEF Pipe!Row, Pipe!Statuses
    <3>3. row' = [row EXCEPT ![l] = [row[l] EXCEPT !.status = "HASHED"]]
      BY <2>2
    <3> QED BY <3>1, <3>2, <3>3
  <2>4. PipelineTypes' /\ NothingReceived' /\ NoEmptyRoot'
    BY <2>2, <2>3 DEF GateInv, PipelineTypes, NothingReceived, NoEmptyRoot
  <2>5. BatchHasSnapshots' /\ RootHasSnapshot'
    <3>1. BatchHasSnapshots'
      BY <2>1, <2>2 DEF GateInv, PipelineTypes, BatchHasSnapshots
    <3>2. \A k \in Logs : row'[k].root # {} \/ row'[k].status \in {"AGGREGATED", "ANCHORED"}
                            => HasSnapshot(k)
      BY <2>3 DEF GateInv, RootHasSnapshot, Sealed
    <3>3. RootHasSnapshot'
      BY <2>1, <3>2 DEF RootHasSnapshot, Sealed
    <3> QED BY <3>1, <3>3
  <2> QED BY <2>1, <2>4, <2>5 DEF GateInv
<1>3. CASE Snapshots \/ UNCHANGED gateVars
  <2>1. [Next]_snapshotVars /\ UNCHANGED <<row, meta, ledger, pc, copy, batch, todo, sent>>
    BY <1>3 DEF Snapshots, Next, gateVars, pipelineVars
  <2>2. OutboxInv' /\ \A k \in Logs : HasSnapshot(k) => HasSnapshot(k)'
    BY <1>1, <2>1
  <2>3. PipelineTypes' /\ NothingReceived' /\ NoEmptyRoot'
    BY <2>1 DEF GateInv, PipelineTypes, NothingReceived, NoEmptyRoot
  <2>4. BatchHasSnapshots' /\ RootHasSnapshot'
    BY <2>1, <2>2 DEF GateInv, PipelineTypes, BatchHasSnapshots, RootHasSnapshot, Sealed
  <2> QED BY <2>2, <2>3, <2>4 DEF GateInv
<1>4. CASE Pipeline
  BY <1>4, PipelineStep DEF Pipeline
<1> QED BY <1>2, <1>3, <1>4 DEF GateNext

-----------------------------------------------------------------------------
(* The results.                                                            *)

(* Gate and outbox keep their invariant together.                          *)
THEOREM GateInvariant == GateSpec => []GateInv
BY GateStarts, GateStep, PTL DEF GateSpec

(* Job and log never hold different opinions of a snapshot, also when a    *)
(* worker that has lost its claim reports after its successor.             *)
THEOREM OutboxAgreement == GateSpec => []JobMatchesRecord
<1>1. GateInv => JobMatchesRecord
  BY DEF GateInv, OutboxInv
<1> QED BY <1>1, GateInvariant, PTL

(* A second version of an object costs a lease that its holder overran:    *)
(* errors, lost replies, crashes and restarts alone never make one.        *)
THEOREM VersionsCostLeases == GateSpec => []OneVersionUnlessSlow
<1>1. GateInv => OneVersionUnlessSlow
  <2> SUFFICES ASSUME GateInv, NEW l \in Logs PROVE objects[l] <= 1 + slow
    BY DEF OneVersionUnlessSlow
  <2>1. objects[l] + Cardinality(Uploaders(l)) <= 1 + slow
    BY DEF GateInv, OutboxInv, VersionsBounded
  <2>2. Cardinality(Uploaders(l)) \in Nat /\ objects[l] \in Nat /\ slow \in Nat
    BY FewHolders DEF GateInv, OutboxInv, TypeOK
  <2> QED BY <2>1, <2>2
<1> QED BY <1>1, GateInvariant, PTL

(* No Merkle root ever commits to a log without a snapshot, although the   *)
(* sealing transaction does not look at the snapshot status again.         *)
THEOREM SealedLogsAreRecoverable == GateSpec => []SealedHasSnapshot
<1>1. GateInv => SealedHasSnapshot
  BY DEF GateInv, RootHasSnapshot, SealedHasSnapshot, Sealed, HasSnapshot
<1> QED BY <1>1, GateInvariant, PTL

-----------------------------------------------------------------------------
(* The pipeline behind the gate is the pipeline of AnchorPipeline: every   *)
(* behaviour of the composition is one of Gated, so what is proved there   *)
(* holds here, for rows come from the consumer only (Backlog is {}).       *)

Proved == INSTANCE AnchorPipeline_proofs WITH
  Backlog <- {}, Internal <- {}, OldRows <- {}, Timestamp <- Age,
  MaxFaults <- MaxPipelineFaults, faults <- pipelineFaults

(* The two instances of the pipeline have the same actions.                *)
LEMMA SameHash ==
  ASSUME NEW g, Pipe!Hash(g)
  PROVE  Proved!Hash(g)
<1>1. Pipe!Pending = Proved!Pending
  BY DEF Pipe!Pending, Proved!Pending, Pipe!WithStatus, Proved!WithStatus
<1>2. Pipe!LoadPending(g) => Proved!LoadPending(g)
  BY <1>1 DEF Pipe!LoadPending, Proved!LoadPending
<1>3. ASSUME NEW l
      PROVE  /\ Pipe!SaveHashed(g, l) => Proved!SaveHashed(g, l)
             /\ Pipe!SaveFails(g, l) => Proved!SaveFails(g, l)
  BY DEF Pipe!SaveHashed, Proved!SaveHashed, Pipe!SaveFails, Proved!SaveFails, Pipe!Saved,
         Proved!Saved, Pipe!Spend, Proved!Spend
<1>4. Pipe!FinishHashing(g) => Proved!FinishHashing(g)
  BY DEF Pipe!FinishHashing, Proved!FinishHashing
<1> QED BY <1>2, <1>3, <1>4 DEF Pipe!Hash, Proved!Hash

LEMMA SameAggregate ==
  ASSUME NEW g, NEW gate, Pipe!Aggregate(g, gate)
  PROVE  Proved!Aggregate(g, gate)
<1>1. Pipe!Aggregable = Proved!Aggregable
  BY DEF Pipe!Aggregable, Proved!Aggregable, Pipe!WithStatus, Proved!WithStatus
<1>2. ASSUME NEW pool PROVE Pipe!OldestOf(pool) = Proved!OldestOf(pool)
  <2>1. \A S : Pipe!Cardinality(S) = Proved!Cardinality(S)
    BY DEF Pipe!Cardinality, Proved!Cardinality, Pipe!IsFiniteSet, Proved!IsFiniteSet
  <2> QED BY <2>1 DEF Pipe!OldestOf, Proved!OldestOf
<1>3. Pipe!ReadBatch(g, gate) => Proved!ReadBatch(g, gate)
  BY <1>1, <1>2 DEF Pipe!ReadBatch, Proved!ReadBatch
<1>4. Pipe!NothingToSeal(g, gate) => Proved!NothingToSeal(g, gate)
  BY <1>1 DEF Pipe!NothingToSeal, Proved!NothingToSeal
<1>5. Pipe!SealBatch(g) => Proved!SealBatch(g)
  BY DEF Pipe!SealBatch, Proved!SealBatch, Pipe!Sealable, Proved!Sealable, Pipe!LeaveSeal,
         Proved!LeaveSeal
<1>6. Pipe!RollBackBatch(g) => Proved!RollBackBatch(g)
  BY DEF Pipe!RollBackBatch, Proved!RollBackBatch, Pipe!Sealable, Proved!Sealable,
         Pipe!LeaveSeal, Proved!LeaveSeal, Pipe!Spend, Proved!Spend
<1> QED BY <1>3, <1>4, <1>5, <1>6 DEF Pipe!Aggregate, Proved!Aggregate

LEMMA SameAnchor ==
  ASSUME NEW g, Pipe!Anchor(g)
  PROVE  Proved!Anchor(g)
<1>1. Pipe!PendingRoots = Proved!PendingRoots
  BY DEF Pipe!PendingRoots, Proved!PendingRoots, Pipe!WithStatus, Proved!WithStatus
<1>2. Pipe!ReadRoots(g) => Proved!ReadRoots(g)
  BY <1>1 DEF Pipe!ReadRoots, Proved!ReadRoots
<1>3. ASSUME NEW r PROVE Pipe!SubmitRoot(g, r) => Proved!SubmitRoot(g, r)
  BY DEF Pipe!SubmitRoot, Proved!SubmitRoot, Pipe!Skip, Proved!Skip
<1>4. ASSUME NEW r PROVE Pipe!SubmitFails(g, r) => Proved!SubmitFails(g, r)
  BY DEF Pipe!SubmitFails, Proved!SubmitFails, Pipe!Skip, Proved!Skip, Pipe!Spend, Proved!Spend
<1>5. Pipe!LeaveMark(g) => Proved!LeaveMark(g)
  BY DEF Pipe!LeaveMark, Proved!LeaveMark, Pipe!NoSubmission, Proved!NoSubmission,
         Pipe!NoRoot, Proved!NoRoot
<1>6. \A l, s : Pipe!Anchored(l, s) = Proved!Anchored(l, s)
  BY DEF Pipe!Anchored, Proved!Anchored
<1>7. Pipe!MarkAnchored(g) => Proved!MarkAnchored(g)
  BY <1>5, <1>6 DEF Pipe!MarkAnchored, Proved!MarkAnchored
<1>8. Pipe!MarkFails(g) => Proved!MarkFails(g)
  BY <1>5 DEF Pipe!MarkFails, Proved!MarkFails, Pipe!Spend, Proved!Spend
<1>9. Pipe!FinishTick(g) => Proved!FinishTick(g)
  BY DEF Pipe!FinishTick, Proved!FinishTick
<1> QED BY <1>2, <1>3, <1>4, <1>7, <1>8, <1>9
        DEF Pipe!Anchor, Proved!Anchor, Pipe!Roots, Proved!Roots

LEMMA SamePipeline ==
  ASSUME NEW g, NEW gate
  PROVE  /\ Pipe!Tick(g, gate) => Proved!Tick(g, gate)
         /\ Pipe!Crash(g) => Proved!Crash(g)
<1>1. Pipe!QueryFails(g) => Proved!QueryFails(g)
  BY DEF Pipe!QueryFails, Proved!QueryFails, Pipe!NextPhase, Proved!NextPhase, Pipe!Spend,
         Proved!Spend
<1>2. Pipe!Crash(g) => Proved!Crash(g)
  BY DEF Pipe!Crash, Proved!Crash, Pipe!Spend, Proved!Spend, Pipe!NoCopy, Proved!NoCopy,
         Pipe!NoSubmission, Proved!NoSubmission, Pipe!NoRoot, Proved!NoRoot
<1> QED BY <1>1, <1>2, SameHash, SameAggregate, SameAnchor DEF Pipe!Tick, Proved!Tick

(* Workers and pipeline together behave, on the tables of the pipeline, as *)
(* the pipeline does under some gate.                                      *)
THEOREM GateRefinesPipeline == GateSpec => Proved!Gated
<1>1. GateInit => Proved!Init
  BY DEF GateInit, Pipe!Init, Proved!Init, Pipe!NoRoot, Proved!NoRoot, Pipe!NoCopy,
         Proved!NoCopy, Pipe!NoSubmission, Proved!NoSubmission
<1>2. [GateNext]_gateVars => [Proved!GatedNext]_(Proved!vars)
  <2>1. ASSUME NEW l \in Logs, Store(l) PROVE Proved!GatedNext
    <3>1. Proved!Ingest(l)
      BY <2>1 DEF Store, Pipe!Ingest, Proved!Ingest, Pipe!local, Proved!local
    <3> QED BY <3>1 DEF Proved!GatedNext
  <2>2. CASE Pipeline
    <3>1. PICK g \in Gateways : Pipe!Tick(g, Verified) \/ Pipe!Crash(g)
      BY <2>2 DEF Pipeline
    <3>2. Proved!Tick(g, Verified) \/ Proved!Crash(g)
      BY <3>1, SamePipeline
    <3>3. Verified \in SUBSET Logs
      BY DEF Verified
    <3> QED BY <3>2, <3>3 DEF Proved!GatedNext
  <2>3. CASE Snapshots \/ UNCHANGED gateVars
    BY <2>3 DEF Snapshots, gateVars, pipelineVars, Proved!vars, Proved!local
  <2> QED BY <2>1, <2>2, <2>3 DEF GateNext
<1> QED BY <1>1, <1>2, PTL DEF GateSpec, Proved!Gated

(* What the gate adds takes nothing from the pipeline: evidence on the     *)
(* ledger, one batch a log, whole batches, no way back, and the promise of *)
(* AnchorLedger, for any number of gateways and workers.                   *)
THEOREM GateKeepsPromises ==
  GateSpec => /\ []Proved!AnchoredHasEvidence
              /\ []Proved!OneBatchPerLog
              /\ []Proved!BatchAnchoredTogether
              /\ Proved!StatusNeverRegresses
              /\ Proved!Promise!Safety
<1>1. Proved!NoStaleCopies
  BY DEF Proved!NoStaleCopies
<1>2. /\ Proved!IsFiniteSet(Logs) /\ Age \in [Logs -> Int]
      /\ BatchSize \in Nat \ {0} /\ MaxPipelineFaults \in Nat
  BY WorkerAssumption, GateAssumption DEF IsFiniteSet, Proved!IsFiniteSet
<1>3. Proved!Gated => []Proved!AnchoredHasEvidence
  BY <1>2, Proved!Evidence
<1>4. Proved!Gated => []Proved!OneBatchPerLog
  BY <1>1, <1>2, Proved!OneBatch
<1>5. Proved!Gated => []Proved!BatchAnchoredTogether
  BY <1>1, <1>2, Proved!Together
<1>6. Proved!Gated => Proved!StatusNeverRegresses
  BY <1>1, <1>2, Proved!Forward
<1>7. Proved!Gated => Proved!Promise!Safety
  BY <1>1, <1>2, Proved!KeepsPromise
<1> QED BY <1>3, <1>4, <1>5, <1>6, <1>7, GateRefinesPipeline, PTL
=============================================================================
