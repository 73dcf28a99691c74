--------------------------- MODULE GatewayIntegrity ---------------------------
(***************************************************************************)
(* Anchored rows of audit_logs, the verdicts the tamper scanner and the    *)
(* users' checks write on them, the incidents they open, and the recovery  *)
(* that restores a row: from the client's audit trail when RECOVERY_MODE   *)
(* is agent_direct, from its snapshot when it is snapshot_legacy.          *)
(*                                                                         *)
(* A row changes outside the Gateway by Edit.  integrity_checked_at is     *)
(* kept as the order of the rows, least recently checked first.  Faults    *)
(* (a lookup, a statement or a reply lost, a crash, an execution that      *)
(* outlasts the timeout) spend one unit of MaxFaults.                      *)
(***************************************************************************)
EXTENDS Integers, Sequences, FiniteSets, SequencesExt, LogEvidence

CONSTANTS
  Logs,
  Users,      \* handlers of users' integrity checks
  Requests,   \* recovery requests that may be made
  Modes,      \* recovery modes to start in
  BatchSize,  \* TAMPER_SCANNER batch
  Damage,     \* rows an edit may leave
  Trails,     \* what the client's audit trail may hold of a log
  Sources,    \* source_record_id of the rows at first
  MaxEdits, MaxFaults

ASSUME GatewayAssumption ==
  /\ IsFiniteSet(Logs) /\ "scanner" \notin Users
  /\ Modes \subseteq {"agent_direct", "snapshot_legacy"}
  /\ Damage \subseteq Row
  /\ Trails \subseteq SUBSET TrailEvents /\ Sources \subseteq {"none"} \cup TrailEvents
  /\ BatchSize \in Nat \ {0} /\ MaxEdits \in Nat /\ MaxFaults \in Nat

VARIABLES
  mode,
  trail,      \* the client's audit trail
  row,        \* audit_logs
  verdict,    \* integrity_status
  order,      \* the rows by integrity_checked_at, NULLS FIRST
  incidents,  \* tamper_incidents of scope GATEWAY_INTEGRITY
  checker,    \* the scanner and the check handlers
  request,    \* recovery_requests
  event,      \* result_status of the request's recovery event
  recoverer,  \* the handler that works on the request
  edits, faults

tables == <<row, verdict, order, incidents, request, event>>
vars == <<mode, trail, tables, checker, recoverer, edits, faults>>

-----------------------------------------------------------------------------

Checkers == {"scanner"} \cup Users
Incidents == DOMAIN incidents

Spend == faults < MaxFaults /\ faults' = faults + 1

IsOpen(i) == incidents[i].status = "OPEN"
OpenFor(l, type) == {i \in Incidents : incidents[i].log = l /\ incidents[i].type = type /\ IsOpen(i)}

AnyIncident(l, type) ==   \* a bug: the lookup does not ask for status OPEN
  \E i \in Incidents : incidents[i].log = l /\ incidents[i].type = type

(* dbOpenGatewayIncident.                                                  *)
OpenIncident(l, type) == OpenFor(l, type) # {}

IdleChecker == [pc |-> "idle", todo |-> <<>>, done |-> <<>>, found |-> Found("PENDING")]
NoRequest == [status |-> "none", incident |-> 0, before |-> SealedHash, root |-> "none",
              snapshot |-> "none"]

Init ==
  /\ mode \in Modes
  /\ trail \in Trails
  /\ \E source \in Sources : row = [l \in Logs |-> [Sound EXCEPT !.source = source]]
  /\ verdict = [l \in Logs |-> "NOT_CHECKED"]
  /\ order \in SetToSeqs(Logs)
  /\ incidents = <<>>
  /\ checker = [c \in Checkers |-> IdleChecker]
  /\ request = [q \in Requests |-> NoRequest]
  /\ event = [q \in Requests |-> "none"]
  /\ recoverer = [q \in Requests |-> "idle"]
  /\ edits = 0 /\ faults = 0

Edit(l) ==
  /\ edits < MaxEdits /\ edits' = edits + 1
  /\ \E r \in Damage \cup {Sound} : row' = [row EXCEPT ![l] = [r EXCEPT !.source = row[l].source]]
  /\ row' # row
  /\ UNCHANGED <<mode, trail, verdict, order, incidents, checker, request, event, recoverer, faults>>

(* The verdict and the time of a check are written together, by log_id.    *)
Stamp(l, v) ==
  /\ verdict' = [verdict EXCEPT ![l] = v]
  /\ order' = Append(RemoveFirst(order, l), l)

-----------------------------------------------------------------------------
(* Checking.                                                               *)

Current(c) == Head(checker[c].todo)
Path(c) == IF c = "scanner" THEN "scan" ELSE "log"

(* The batch is read at once and checked row by row from the copies.       *)
Scan ==
  /\ checker["scanner"].pc = "idle" /\ order # <<>>
  /\ LET batch == SubSeq(order, 1, IF Len(order) < BatchSize THEN Len(order) ELSE BatchSize)
     IN checker' = [checker EXCEPT !["scanner"] = [IdleChecker EXCEPT
          !.pc = "check", !.todo = [k \in DOMAIN batch |-> [log |-> batch[k], copy |-> row[batch[k]]]]]]
  /\ UNCHANGED <<mode, trail, tables, recoverer, edits, faults>>

(* A single log, checked by hand or as one of a range.                     *)
CheckLog(u, l) ==
  /\ checker[u].pc = "idle"
  /\ checker' = [checker EXCEPT ![u] = [IdleChecker EXCEPT
       !.pc = "check", !.todo = <<[log |-> l, copy |-> row[l]]>>]]
  /\ UNCHANGED <<mode, trail, tables, recoverer, edits, faults>>

(* Fabric and the proof rows are read now, the rest is the copy's.  A row  *)
(* found tampered with looks for its OPEN incident.                        *)
Check(c) ==
  /\ checker[c].pc = "check"
  /\ \E reads \in SUBSET AllReads :
       LET l == Current(c).log
           found == Classify(Path(c), [Current(c).copy EXCEPT !.proofs = row[l].proofs], reads)
       IN /\ IF Cardinality(reads) = 2 THEN UNCHANGED faults ELSE Spend
          /\ checker' = [checker EXCEPT ![c].found = found,
               ![c].pc = IF found.incident = "none" \/ OpenIncident(l, found.incident)
                         THEN "persist" ELSE "create"]
  /\ UNCHANGED <<mode, trail, tables, recoverer, edits>>

(* VerifyLogIntegrity ensures the incident once more, for its answer.      *)
EnsureAgain(c) ==
  /\ checker[c].pc = "ensure"
  /\ checker' = [checker EXCEPT ![c] =
       IF OpenIncident(Current(c).log, @.found.incident) THEN IdleChecker
       ELSE [@ EXCEPT !.pc = "recreate"]]
  /\ UNCHANGED <<mode, trail, tables, recoverer, edits, faults>>

Opened(l, type) == Append(incidents, [log |-> l, type |-> type, status |-> "OPEN"])

InsertAnyway(l, type) == Opened(l, type)   \* a bug: no unique index

(* idx_tamper_active: the incident the insert lost to is taken instead.    *)
InsertIncident(l, type) == IF OpenFor(l, type) # {} THEN incidents ELSE Opened(l, type)

(* An insert that fails is logged and forgotten.                           *)
Create(c) ==
  /\ checker[c].pc \in {"create", "recreate"}
  /\ \/ /\ incidents' = InsertIncident(Current(c).log, checker[c].found.incident)
        /\ UNCHANGED faults
     \/ Spend /\ UNCHANGED incidents
  /\ checker' = [checker EXCEPT ![c] =
       IF @.pc = "recreate" THEN IdleChecker ELSE [@ EXCEPT !.pc = "persist"]]
  /\ UNCHANGED <<mode, trail, row, verdict, order, request, event, recoverer, edits>>

(* The error of this statement is ignored.                                 *)
Persist(c) ==
  /\ checker[c].pc = "persist"
  /\ LET l == Current(c).log  found == checker[c].found  rest == Tail(checker[c].todo) IN
       /\ \/ Stamp(l, found.verdict) /\ UNCHANGED faults
          \/ Spend /\ UNCHANGED <<verdict, order>>
       /\ \/ /\ c = "scanner"
             /\ checker' = [checker EXCEPT ![c] = [IdleChecker EXCEPT
                  !.pc = IF rest = <<>> THEN "mark" ELSE "check", !.todo = rest,
                  !.done = Append(checker[c].done, [log |-> l, verdict |-> found.verdict])]]
          \/ /\ c \in Users   \* one of a range, or nothing to answer
             /\ checker' = [checker EXCEPT ![c] = IdleChecker]
          \/ /\ c \in Users /\ found.incident # "none"   \* by hand
             /\ checker' = [checker EXCEPT ![c].pc = "ensure"]
  /\ UNCHANGED <<mode, trail, row, incidents, request, event, recoverer, edits>>

(* When the batch is checked, the scanner writes every verdict again.      *)
Mark ==
  /\ checker["scanner"].pc = "mark"
  /\ LET done == checker["scanner"].done IN
       /\ \/ Stamp(Head(done).log, Head(done).verdict) /\ UNCHANGED faults
          \/ Spend /\ UNCHANGED <<verdict, order>>
       /\ checker' = [checker EXCEPT !["scanner"] =
            IF Len(done) = 1 THEN IdleChecker ELSE [@ EXCEPT !.done = Tail(done)]]
  /\ UNCHANGED <<mode, trail, row, incidents, request, event, recoverer, edits>>

CheckerStops(c) ==
  /\ checker[c].pc # "idle" /\ Spend
  /\ checker' = [checker EXCEPT ![c] = IdleChecker]
  /\ UNCHANGED <<mode, trail, tables, recoverer, edits>>

-----------------------------------------------------------------------------
(* Recovery.                                                               *)

Active(q) == request[q].status \in {"PENDING_EXECUTION", "EXECUTING"}
LogOf(q) == incidents[request[q].incident].log
Goto(q, pc) == recoverer' = [recoverer EXCEPT ![q] = pc]

(* loadGatewayAuditRecoveryData up to the lookup in the audit trail, whose *)
(* result is written to the row before it is validated any further.        *)
Supported(i) == incidents[i].status # "RESOLVED" /\ incidents[i].type = "METADATA_HASH_MISMATCH"
Backfilled(i) ==
  LET l == incidents[i].log IN
    IF mode = "agent_direct" /\ Supported(i) /\ row[l].stage = "anchored" /\ row[l].root # "none"
    THEN [row EXCEPT ![l] = Linked(trail, @)] ELSE row

(* The rest of it; or validateSnapshot and ensureTargetNeedsRecovery.      *)
Loadable(i, r) ==
  IF mode = "agent_direct"
  THEN Supported(i) /\ Trusted(trail, r) /\ ContentHash(r) # r.hash
  ELSE /\ incidents[i].status # "RESOLVED"
       /\ ValidSnapshot(r.snapshot, r.root, r) /\ NeedsSnapshot(Stored(r.snapshot), r)

(* ListCandidates and Preflight are asked before a request is made; in     *)
(* agent_direct they load the same data, otherwise they write nothing.     *)
Preflight(i) ==
  /\ Backfilled(i) # row /\ row' = Backfilled(i)
  /\ UNCHANGED <<mode, trail, verdict, order, incidents, checker, request, event, recoverer, edits,
                 faults>>

(* The first half of CreateRequest: everything the request freezes.        *)
Prepare(q) ==
  /\ request[q].status = "none" /\ recoverer[q] = "idle"
  /\ \E i \in Incidents :
       /\ row' = Backfilled(i)
       /\ LET r == row'[incidents[i].log] IN
            /\ Loadable(i, r)
            /\ request' = [request EXCEPT ![q] = [status |-> "none", incident |-> i,
                 before |-> ContentHash(r), root |-> r.root, snapshot |-> r.snapshot]]
  /\ Goto(q, "insert")
  /\ UNCHANGED <<mode, trail, verdict, order, incidents, checker, event, edits, faults>>

(* One active request per resource; those of snapshots name no resource.   *)
Conflict(q) ==
  mode = "agent_direct" /\ \E p \in Requests : p # q /\ Active(p) /\ LogOf(p) = LogOf(q)

InsertRequest(q) ==
  /\ recoverer[q] = "insert"
  /\ request' = [request EXCEPT ![q] =
       IF Conflict(q) THEN NoRequest ELSE [@ EXCEPT !.status = "PENDING_EXECUTION"]]
  /\ Goto(q, "idle")
  /\ UNCHANGED <<mode, trail, row, verdict, order, incidents, checker, event, edits, faults>>

Claim(q) ==
  /\ recoverer[q] = "idle" /\ request[q].status = "PENDING_EXECUTION"
  /\ request' = [request EXCEPT ![q].status = "EXECUTING"]
  /\ Goto(q, "load")
  /\ UNCHANGED <<mode, trail, row, verdict, order, incidents, checker, event, edits, faults>>

(* The incident, the row and the reference are read again; the Agent, the  *)
(* object store or Fabric may not answer.                                  *)
Load(q) ==
  /\ recoverer[q] = "load"
  /\ row' = Backfilled(request[q].incident)
  /\ LET r == row'[LogOf(q)]
         same == IF mode = "agent_direct"
                 THEN Loadable(request[q].incident, r) /\ ContentHash(r) = request[q].before
                 ELSE ValidSnapshot(request[q].snapshot, request[q].root, r)
     IN \/ Goto(q, IF same THEN "commit" ELSE "fail") /\ UNCHANGED faults
        \/ Goto(q, "fail") /\ Spend
  /\ UNCHANGED <<mode, trail, verdict, order, incidents, request, event, checker, edits>>

(* The audit trail gives the metadata back, a snapshot the whole row.      *)
Restored(q, r) ==
  IF mode = "agent_direct"
  THEN [r EXCEPT !.meta = Image(r.source)]
  ELSE LET image == Stored(request[q].snapshot) IN
       [r EXCEPT !.meta = image, !.rest = image, !.hash = <<image, image>>, !.root = "anchor",
                 !.snapshot = request[q].snapshot]

CommittableAsLoaded(q) ==   \* a bug: the transaction relies on what was loaded
  IF mode = "agent_direct" THEN IsOpen(request[q].incident) ELSE TRUE

(* What the transaction checks under its locks.                            *)
Committable(q) ==
  LET r == row[LogOf(q)] IN
    IF mode = "agent_direct"
    THEN /\ request[q].status = "EXECUTING"
         /\ ContentHash(r) = request[q].before
         /\ ContentHash(Restored(q, r)) = SealedHash
         /\ IsOpen(request[q].incident)
    ELSE NeedsSnapshot(Stored(request[q].snapshot), r)

(* Row, verdict, event, request and incident in one transaction, whose     *)
(* reply may be lost.                                                      *)
Commit(q) ==
  /\ recoverer[q] = "commit" /\ Committable(q) /\ event[q] = "none"
  /\ row' = [row EXCEPT ![LogOf(q)] = Restored(q, @)]
  /\ Stamp(LogOf(q), "VALID")
  /\ incidents' = [incidents EXCEPT ![request[q].incident].status = "RESOLVED"]
  /\ event' = [event EXCEPT ![q] = "SUCCEEDED"]
  /\ request' = [request EXCEPT ![q].status = "SUCCEEDED"]
  /\ \/ Goto(q, "idle") /\ UNCHANGED faults
     \/ Goto(q, "fail") /\ Spend
  /\ UNCHANGED <<mode, trail, checker, edits>>

RollBack(q) ==
  /\ recoverer[q] = "commit"
  /\ \/ ~(Committable(q) /\ event[q] = "none") /\ UNCHANGED faults
     \/ Spend
  /\ Goto(q, "fail")
  /\ UNCHANGED <<mode, trail, tables, checker, edits>>

StatusAfterFailureAnyway(q) == "FAILED"   \* a bug: the status is written whatever the event says

(* failGatewayAuditRequest meets the unique request_id of an event that    *)
(* exists, which aborts its transaction; recordFailedExecution leaves that *)
(* event alone and writes the status.                                      *)
StatusAfterFailure(q) ==
  IF event[q] # "none" /\ mode = "agent_direct" THEN request[q].status ELSE "FAILED"

Fail(q) ==
  /\ recoverer[q] = "fail"
  /\ \/ /\ request' = [request EXCEPT ![q].status = StatusAfterFailure(q)]
        /\ event' = [event EXCEPT ![q] = IF @ = "none" THEN "FAILED" ELSE @]
        /\ UNCHANGED faults
     \/ Spend /\ UNCHANGED <<request, event>>
  /\ Goto(q, "idle")
  /\ UNCHANGED <<mode, trail, row, verdict, order, incidents, checker, edits>>

(* reconcileStuckDirectExecutions: agent_direct only, any EXECUTING request *)
(* older than the timeout, which a handler rarely outlasts.                *)
GiveUp(q) ==
  /\ mode = "agent_direct" /\ request[q].status = "EXECUTING"
  /\ IF recoverer[q] = "idle" THEN UNCHANGED faults ELSE Spend
  /\ request' = [request EXCEPT ![q].status = "FAILED"]
  /\ event' = [event EXCEPT ![q] = "FAILED"]
  /\ UNCHANGED <<mode, trail, row, verdict, order, incidents, checker, recoverer, edits>>

HandlerStops(q) ==
  /\ recoverer[q] # "idle" /\ Spend
  /\ Goto(q, "idle")
  /\ request' = [request EXCEPT ![q] = IF @.status = "none" THEN NoRequest ELSE @]
  /\ UNCHANGED <<mode, trail, row, verdict, order, incidents, checker, event, edits>>

-----------------------------------------------------------------------------

CheckStep(c) == Check(c) \/ EnsureAgain(c) \/ Create(c) \/ Persist(c)
Handler(q) == InsertRequest(q) \/ Load(q) \/ Commit(q) \/ RollBack(q) \/ Fail(q)

Next ==
  \/ \E l \in Logs : Edit(l)
  \/ \E i \in Incidents : Preflight(i)
  \/ Scan \/ Mark
  \/ \E u \in Users, l \in Logs : CheckLog(u, l)
  \/ \E c \in Checkers : CheckStep(c) \/ CheckerStops(c)
  \/ \E q \in Requests :
       Prepare(q) \/ Claim(q) \/ Handler(q) \/ GiveUp(q) \/ HandlerStops(q)

(* The scanner's and the reconciler's tickers, and handlers at work.       *)
Fairness ==
  /\ WF_vars(Scan \/ Mark \/ CheckStep("scanner"))
  /\ \A u \in Users : WF_vars(CheckStep(u))
  /\ \A q \in Requests : WF_vars(Handler(q)) /\ WF_vars(GiveUp(q))

Spec == Init /\ [][Next]_vars /\ Fairness

-----------------------------------------------------------------------------
(* Properties.                                                             *)

Finding == [verdict : Verdicts, incident : {"none"} \cup IncidentTypes]
Checker ==
  [pc : {"idle", "check", "create", "persist", "ensure", "recreate", "mark"},
   todo : Seq([log : Logs, copy : Row]), done : Seq([log : Logs, verdict : Verdicts]),
   found : Finding]
Incident == [log : Logs, type : IncidentTypes, status : {"OPEN", "RESOLVED"}]
Request ==
  [status : {"none", "PENDING_EXECUTION", "EXECUTING", "SUCCEEDED", "FAILED"},
   incident : Nat, before : Contents \X Contents, root : {"anchor", "other", "none"},
   snapshot : {"none"} \cup Snapshots]

CheckOK(k) ==
  /\ k.pc \in {"check", "create", "persist", "ensure", "recreate"} => k.todo # <<>>
  /\ k.pc \in {"create", "ensure", "recreate"} => k.found.incident # "none"
  /\ k.pc = "mark" => k.done # <<>>

RowsOK ==
  /\ mode \in Modes /\ trail \in Trails /\ row \in [Logs -> Row]
  /\ verdict \in [Logs -> Verdicts \cup {"NOT_CHECKED"}]
  /\ order \in SetToSeqs(Logs)
  /\ edits \in 0..MaxEdits /\ faults \in 0..MaxFaults

ChecksOK ==
  /\ incidents \in Seq(Incident)
  /\ checker \in [Checkers -> Checker] /\ \A c \in Checkers : CheckOK(checker[c])

Made(q) == request[q].status # "none" \/ recoverer[q] # "idle"

RecoveriesOK ==
  /\ request \in [Requests -> Request]
  /\ event \in [Requests -> {"none", "SUCCEEDED", "FAILED"}]
  /\ recoverer \in [Requests -> {"idle", "insert", "load", "commit", "fail"}]
  /\ \A q \in Requests :
       Made(q) => request[q].incident \in Incidents /\ request[q].snapshot \in Snapshots

(* Rows, verdicts, incidents, checks and recoveries stay within their      *)
(* types, the order of the checks always holds every row once, and who is  *)
(* at work on a row, an incident or a request has one.                     *)
TypeOK == RowsOK /\ ChecksOK /\ RecoveriesOK

Genuine(r) ==
  /\ r.stage = "anchored" /\ ContentHash(r) = SealedHash /\ r.hash = SealedHash
  /\ r.root # "other" /\ r.proofs = "complete"

(* Every path calls a row VALID only if all its evidence is that of the    *)
(* anchored batch, but for the fallback of single checks on rows of the    *)
(* old format; none calls a genuine row TAMPERED, whichever lookups fail;  *)
(* and two paths never disagree on a row other than through that fallback. *)
VerdictIsSound ==
  \A l \in Logs, reads \in SUBSET AllReads, path \in {"scan", "log", "explorer"} :
    LET v == Classify(path, row[l], reads).verdict IN
      /\ v = "VALID" => Genuine(row[l]) \/ (path = "log" /\ LegacyLimited(row[l]))
      /\ v = "TAMPERED" => ~Genuine(row[l])
      /\ reads = AllReads /\ ~LegacyLimited(row[l]) => v = Classify("scan", row[l], reads).verdict

(* However many checks find the same damage at once, and whenever a        *)
(* recovery resolves it between them, a row has one OPEN incident a kind.  *)
OneOpenIncident ==
  \A l \in Logs, type \in IncidentTypes : Cardinality(OpenFor(l, type)) <= 1

(* A recovery that is recorded as SUCCEEDED has given the row its sealed   *)
(* content back, although the row is edited while the Agent, the object    *)
(* store and Fabric are asked; from a snapshot also the stored hash.       *)
SucceededIsRestored ==
  [][\A q \in Requests :
       event'[q] = "SUCCEEDED" /\ event[q] # "SUCCEEDED" =>
         /\ ContentHash(row'[LogOf(q)]) = SealedHash
         /\ mode = "snapshot_legacy" => row'[LogOf(q)].hash = SealedHash]_vars

(* An incident is RESOLVED by a recovery whose event says SUCCEEDED, and   *)
(* the status of a request never contradicts its event.  Only a snapshot   *)
(* recovery whose COMMIT lost its reply is recorded as FAILED over it.     *)
OutcomeFollowsEvent ==
  /\ \A i \in Incidents : incidents[i].status = "RESOLVED" =>
       \E q \in Requests : request[q].incident = i /\ event[q] = "SUCCEEDED"
  /\ \A q \in Requests :
       /\ request[q].status \in {"SUCCEEDED", "FAILED"} => event[q] # "none"
       /\ event[q] # "none" =>
            \/ request[q].status = event[q]
            \/ mode = "snapshot_legacy" /\ faults > 0 /\ event[q] = "SUCCEEDED"

(* When edits come to an end, every row gets the verdict it deserves and,  *)
(* if it is damaged, an OPEN incident of its kind: later scans make up for *)
(* failed statements, crashes, stale copies and incidents resolved under   *)
(* way.                                                                    *)
EventuallyReported ==
  <>[](\A l \in Logs :
         LET truth == Classify("scan", row[l], AllReads) IN
           /\ verdict[l] = truth.verdict
           /\ truth.incident # "none" => OpenFor(l, truth.incident) # {})
=============================================================================
