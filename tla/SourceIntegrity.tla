---------------------------- MODULE SourceIntegrity ----------------------------
(***************************************************************************)
(* The rows of a client's database compared with its latest audit log: by  *)
(* the source sweep, by a user's check of one log and by a user's check of *)
(* a resource's history.  A comparison asks the Agent for the row and for  *)
(* the event in the client's own audit trail, writes                       *)
(* source_integrity_status, opens or confirms the CLIENT_SOURCE incident   *)
(* of the resource, and is answered with an assessment.                    *)
(*                                                                         *)
(* A state of a row is a number: Gone, Odd (content no event describes) or *)
(* the content that some event describes.  Logs are numbered by timestamp. *)
(* RECOVERY events, which every query skips, are left out, and so are the  *)
(* Gateway's own incidents (see GatewayIntegrity).  The variables agreed,  *)
(* differed and overtaken are history for the properties.  A scenario says *)
(* which resources, users and sweep (SOURCE_SWEEP_ENABLED) there are, and  *)
(* how many writes of the client, edits and faults may happen.             *)
(***************************************************************************)
EXTENDS Integers, Sequences, FiniteSets, SequencesExt, FiniteSetsExt, LogEvidence

CONSTANTS
  Resources,
  Users,            \* users' checks, one each
  Recent, Backfill, \* SOURCE_SWEEP batch sizes
  Damage,           \* rows of audit_logs an edit may leave
  Scenarios         \* explored side by side

ASSUME SourceAssumption ==
  /\ IsFiniteSet(Resources) /\ "sweep" \notin Users
  /\ Damage \subseteq Row
  /\ Recent \in Nat \ {0} /\ Backfill \in Nat \ {0}
  /\ Scenarios \subseteq
       [resources : SUBSET Resources, checkers : SUBSET ({"sweep"} \cup Users),
        writes : Nat, edits : Nat, faults : Nat]

VARIABLES
  row,        \* the client's rows
  inflight,   \* changes that are not logged yet
  logs,       \* audit_logs, oldest first
  seen,       \* source_integrity_status
  stamped,    \* logs by source_integrity_checked_at, those never checked left out
  incidents,  \* tamper_incidents of scope CLIENT_SOURCE
  restored,   \* incidents whose row the Agent has restored
  checker,    \* the sweep and the check handlers
  writes, edits, faults,   \* left
  agreed, differed,        \* logs with which their row agreed, disagreed while the latest
  overtaken                \* logs compared when they were the latest no longer

client == <<row, inflight>>
tables == <<logs, seen, stamped, incidents, restored>>
history == <<agreed, differed, overtaken>>
vars == <<client, tables, checker, writes, edits, faults, history>>

-----------------------------------------------------------------------------

Gone == 0
Odd == -1
State == {Odd} \cup Nat
Tainted == -2   \* what altered metadata says

Checkers == {"sweep"} \cup Users
LogIds == DOMAIN logs
Logged == {logs[l].resource : l \in LogIds}
Incidents == DOMAIN incidents
Spend == faults > 0 /\ faults' = faults - 1

(* GetLatestClientLogByResource.                                           *)
LatestIn(ls, r) == Max({l \in DOMAIN ls : ls[l].resource = r})
Latest(r) == LatestIn(logs, r)
Swept == {l \in LogIds : l = Latest(logs[l].resource) /\ logs[l].evidence.stage = "anchored"}

(* Least recently checked first, NULLS FIRST.                              *)
Place(l) ==
  IF l \in ToSet(stamped) THEN Len(logs) + (CHOOSE n \in DOMAIN stamped : stamped[n] = l) ELSE l
Staler(k, l) == Place(k) < Place(l)
First(n, S) == {l \in S : Cardinality({k \in S : Staler(k, l)}) < n}

(* idx_tamper_active_client_source.                                        *)
OpenFor(r, type) ==
  {i \in Incidents : incidents[i].resource = r /\ incidents[i].type = type
                     /\ incidents[i].status = "OPEN"}

-----------------------------------------------------------------------------
(* The comparison.                                                         *)

Alarming == {"MISMATCH", "MISSING", "UNEXPECTED_PRESENT"}

(* What the Agent says of a row, and what the log expects of it.           *)
Fetched(r) == [found |-> row[r] # Gone, data |-> row[r]]
Projection(l, evidence) == IF evidence.meta = "sealed" THEN logs[l].state ELSE Tainted

(* compareCurrentResourceState: a DELETE expects no row.                   *)
Compare(l, evidence, record) ==
  IF logs[l].state = Gone THEN ~record.found
  ELSE record.found /\ record.data = Projection(l, evidence)

(* sourceStatusFromAgentResult.                                            *)
SourceStatus(l, evidence, record) ==
  IF Compare(l, evidence, record) THEN "MATCHED"
  ELSE IF logs[l].state = Gone THEN "UNEXPECTED_PRESENT"
  ELSE IF ~record.found THEN "MISSING" ELSE "MISMATCH"

(* An Agent that cannot be reached, one that refuses (or is not            *)
(* configured), and a reply without all the fields of the projection.      *)
Failures == {"UNREACHABLE", "NOT_COMPARABLE"}

(* The event in the client's own audit trail, which may say anything.      *)
TrailReplies == {"failed", "missing", "same", "other"}
CompareFields(reply) == reply = "same"
TrailStatus(reply) ==
  IF reply = "failed" THEN "unavailable"
  ELSE IF CompareFields(reply) THEN "matched" ELSE "mismatch"

(* persistSourceIntegrityStatus.                                           *)
Column(status) ==
  CASE status = "MATCHED" -> "VALID"
    [] status \in Alarming -> "TAMPERED"
    [] status = "UNREACHABLE" -> "UNREACHABLE"
    [] OTHER -> "NOT_CHECKED"

(* verificationAssessment of an event whose chain of evidence holds.       *)
Assessment(legacy, status, trail) ==
  IF trail = "mismatch"
  THEN IF legacy THEN "INCONCLUSIVE" ELSE "SOURCE_EVENT_DIVERGENCE"
  ELSE IF status = "MATCHED" THEN IF legacy THEN "VERIFIED_LEGACY" ELSE "VERIFIED"
  ELSE IF legacy \/ status \notin Alarming THEN "INCONCLUSIVE"
  ELSE "CLIENT_STATE_DIVERGENCE"

-----------------------------------------------------------------------------

Idle ==
  [pc |-> "idle", pass |-> "none", todo |-> <<>>, tried |-> {},       \* of the sweep
   log |-> 0, history |-> FALSE, evidence |-> Sound, proof |-> "none",
   status |-> "none", stored |-> FALSE, target |-> 0]

NewLog(r, state, stage) ==
  [resource |-> r, state |-> state, evidence |-> [Sound EXCEPT !.stage = stage]]

(* Every resource has one log to begin with, which describes its row.      *)
Init ==
  \E scenario \in Scenarios :
    /\ logs = LET s == SetToSeq(scenario.resources) IN
              [k \in DOMAIN s |-> NewLog(s[k], k, "anchored")]
    /\ row = [r \in Resources |-> IF r \in Logged THEN logs[Latest(r)].state ELSE Gone]
    /\ inflight = [r \in Resources |-> <<>>]
    /\ seen = [l \in LogIds |-> "NOT_CHECKED"] /\ stamped = <<>>
    /\ incidents = <<>> /\ restored = {}
    /\ checker = [c \in Checkers |->
         IF c \in scenario.checkers THEN Idle ELSE [Idle EXCEPT !.pc = "answered"]]
    /\ writes = scenario.writes /\ edits = scenario.edits /\ faults = scenario.faults
    /\ agreed = LogIds /\ differed = {} /\ overtaken = {}

(* What is true now of a latest log and its row becomes history.           *)
Observe ==
  LET latest == {LatestIn(logs', r) : r \in Logged}
      same == {l \in latest : row'[logs'[l].resource] = logs'[l].state}
  IN /\ agreed' = agreed \cup same /\ differed' = differed \cup (latest \ same)
     /\ UNCHANGED overtaken

-----------------------------------------------------------------------------
(* The client and the pipeline.                                            *)

Fresh == Cardinality(Resources) + writes   \* content no row has had
Written(r, state) ==
  /\ writes > 0 /\ writes' = writes - 1
  /\ row' = [row EXCEPT ![r] = state]
  /\ inflight' = [inflight EXCEPT ![r] = Append(@, state)]

ClientWrites(r) ==
  /\ \E state \in {Gone, Fresh} : state # row[r] /\ Written(r, state)
  /\ UNCHANGED tables /\ Observe
  /\ UNCHANGED <<checker, edits, faults>>

Ingest(r) ==
  /\ inflight[r] # <<>>
  /\ inflight' = [inflight EXCEPT ![r] = Tail(@)]
  /\ logs' = Append(logs, NewLog(r, Head(inflight[r]), "hashed"))
  /\ seen' = Append(seen, "NOT_CHECKED")
  /\ UNCHANGED row /\ Observe
  /\ UNCHANGED <<stamped, incidents, restored, checker, writes, edits, faults>>

Anchor(l) ==
  /\ logs[l].evidence.stage = "hashed"
  /\ logs' = [logs EXCEPT ![l].evidence.stage = "anchored"]
  /\ UNCHANGED <<client, seen, stamped, incidents, restored, checker, writes, edits, faults, history>>

(* Changes past the application: of the row, of the log.                   *)
EditRow(r) ==
  /\ edits > 0 /\ edits' = edits - 1
  /\ \E state \in {Gone, Odd} : state # row[r] /\ row' = [row EXCEPT ![r] = state]
  /\ UNCHANGED logs /\ Observe
  /\ UNCHANGED <<inflight, seen, stamped, incidents, restored, checker, writes, faults>>

EditLog(l) ==
  /\ edits > 0 /\ edits' = edits - 1
  /\ logs[l].evidence = Sound
  /\ \E e \in Damage : logs' = [logs EXCEPT ![l].evidence = e]
  /\ UNCHANGED <<client, seen, stamped, incidents, restored, checker, writes, faults, history>>

(* The recovery of DirectRecovery: the Agent writes what the latest log    *)
(* says, the change is logged, and the incident is closed by its id.       *)
Restore(i) ==
  /\ incidents[i].status = "OPEN" /\ i \notin restored
  /\ LET l == incidents[i].log  r == logs[l].resource IN
       /\ l = Latest(r) /\ logs[l].evidence = Sound
       /\ Written(r, logs[l].state)
  /\ restored' = restored \cup {i}
  /\ UNCHANGED logs /\ Observe
  /\ UNCHANGED <<seen, stamped, incidents, checker, edits, faults>>

Resolve(i) ==
  /\ i \in restored /\ incidents[i].status = "OPEN" /\ inflight[incidents[i].resource] = <<>>
  /\ incidents' = [incidents EXCEPT ![i].status = "RESOLVED"]
  /\ UNCHANGED <<client, logs, seen, stamped, restored, checker, writes, edits, faults, history>>

-----------------------------------------------------------------------------
(* The sweep chooses logs twice a tick, and checks them one by one.        *)

Goto(c, pc) == checker' = [checker EXCEPT ![c].pc = pc]
Bystanders == <<client, logs, writes, edits, history>>

Sweeping(pass, todo, tried) ==
  IF todo # <<>>
  THEN [Idle EXCEPT !.pc = "verify", !.pass = pass, !.log = Head(todo), !.todo = Tail(todo),
                    !.tried = tried]
  ELSE IF pass = "recent" THEN [Idle EXCEPT !.pc = "backfill", !.tried = tried]
  ELSE Idle

(* A set of logs as the sequence that ORDER BY makes of it.                *)
NewestFirst(S) ==
  {s \in [1..Cardinality(S) -> S] : \A j, k \in DOMAIN s : j < k => s[j] > s[k]}
StalestFirst(S) ==
  {s \in [1..Cardinality(S) -> S] : \A j, k \in DOMAIN s : j < k => Staler(s[j], s[k])}

(* Events of the last ten minutes that were not checked within the         *)
(* interval, newest first: any of them, as far as the order can tell.      *)
SweepRecent ==
  /\ checker["sweep"].pc = "idle"
  /\ \E due \in SUBSET Swept :
       /\ Cardinality(due) <= Recent
       /\ \E todo \in NewestFirst(due) :
            checker' = [checker EXCEPT !["sweep"] = Sweeping("recent", todo, due)]
  /\ UNCHANGED <<Bystanders, seen, stamped, incidents, restored, faults>>

(* The rotation: the recently tried may be at its head.                    *)
Oldest(tried) == First(Backfill, First(Backfill + Cardinality(tried), Swept) \ tried)

SweepBackfill ==
  /\ checker["sweep"].pc = "backfill"
  /\ \E todo \in StalestFirst(Oldest(checker["sweep"].tried)) :
       checker' = [checker EXCEPT !["sweep"] = Sweeping("backfill", todo, {})]
  /\ UNCHANGED <<Bystanders, seen, stamped, incidents, restored, faults>>

Done(c) ==
  checker' = [checker EXCEPT ![c] =
    IF c = "sweep" THEN Sweeping(@.pass, @.todo, @.tried) ELSE [Idle EXCEPT !.pc = "answered"]]

-----------------------------------------------------------------------------
(* A check.                                                                *)

CheckLog(u, l) ==
  /\ checker[u].pc = "idle"
  /\ checker' = [checker EXCEPT ![u].pc = "verify", ![u].log = l]
  /\ UNCHANGED <<Bystanders, seen, stamped, incidents, restored, faults>>

(* VerifyResourceHistory reads the history at once and classifies log      *)
(* after log; the last one alone is compared with the row.                 *)
CheckHistory(u, r) ==
  /\ checker[u].pc = "idle"
  /\ checker' = [checker EXCEPT ![u].pc = "classify", ![u].history = TRUE,
                    ![u].log = Latest(r), ![u].evidence = logs[Latest(r)].evidence]
  /\ UNCHANGED <<Bystanders, seen, stamped, incidents, restored, faults>>

Reads(reads) == IF reads = AllReads THEN UNCHANGED faults ELSE Spend
Unproven(c) == IF c = "sweep" THEN Goto(c, "attempt") ELSE Done(c)

(* classifyIntegrityDetailed and the first half of verifyLogIntegrity: a   *)
(* log of the old format is proved in a limited way only.                  *)
Proof(path, evidence, reads) ==
  IF Classify("log", evidence, reads).verdict = "VALID" /\ LegacyLimited(evidence) THEN "limited"
  ELSE IF Classify(path, evidence, reads).verdict = "VALID" THEN "verified" ELSE "none"

(* verifyLogIntegrity: only a proved log that is still the latest is       *)
(* compared.                                                               *)
Verify(c) ==
  /\ checker[c].pc = "verify"
  /\ \E reads \in SUBSET AllReads :
       LET l == checker[c].log
           proof == Proof("log", logs[l].evidence, reads)
       IN /\ Reads(reads)
          /\ IF proof = "none" \/ l # Latest(logs[l].resource) THEN Unproven(c)
             ELSE checker' = [checker EXCEPT ![c].pc = "ask", ![c].proof = proof,
                                             ![c].evidence = logs[l].evidence]
  /\ UNCHANGED <<Bystanders, seen, stamped, incidents, restored>>

(* The row is asked for, whatever the proof of the copy has found.         *)
ClassifyCopy(u) ==
  /\ checker[u].pc = "classify"
  /\ \E reads \in SUBSET AllReads :
       /\ Reads(reads)
       /\ checker' = [checker EXCEPT ![u].pc = "ask",
                                     ![u].proof = Proof("explorer", checker[u].evidence, reads)]
  /\ UNCHANGED <<Bystanders, seen, stamped, incidents, restored>>

(* What follows a reply: classifyResourceLog raises an incident for a      *)
(* proved log, and VerifyResourceHistory once more for any but a legacy    *)
(* one; verifyLogIntegrity does so before the verdict is stored, and       *)
(* VerifyLogIntegrity again after it.                                      *)
AfterReply(k, status) ==
  IF status \in Alarming /\ k.proof = "verified" THEN "find"
  ELSE IF ~k.history THEN "persist"
  ELSE IF status \in Alarming /\ k.proof = "none" THEN "find"
  ELSE "answer"

Replied(c, status) ==
  LET k == checker[c] IN
  checker' = [checker EXCEPT
    ![c].status = status, ![c].pc = AfterReply(k, status), ![c].evidence = Sound,
    ![c].stored = k.history /\ k.proof # "verified"]

AskTrusting(c) ==   \* a bug: a reply that cannot be compared counts as a mismatch
  /\ checker[c].pc = "ask"
  /\ Replied(c, "MISMATCH")
  /\ Spend /\ UNCHANGED <<Bystanders, seen, stamped, incidents, restored>>

(* VerifyAgainstAgent.  The log need not be the latest any more.           *)
Ask(c) ==
  /\ checker[c].pc = "ask"
  /\ LET k == checker[c]  r == logs[k.log].resource IN
       \/ /\ Replied(c, SourceStatus(k.log, k.evidence, Fetched(r)))
          /\ overtaken' = overtaken \cup ({k.log} \ {Latest(r)})
          /\ UNCHANGED faults
       \/ \E failure \in Failures : Replied(c, failure) /\ Spend /\ UNCHANGED overtaken
  /\ UNCHANGED <<client, logs, writes, edits, agreed, differed, seen, stamped, incidents, restored>>

-----------------------------------------------------------------------------
(* ensureClientSourceIncident, and what is written after it.               *)

Resource(c) == logs[checker[c].log].resource

Find(c) ==
  /\ checker[c].pc = "find"
  /\ LET open == OpenFor(Resource(c), checker[c].status) IN
       checker' = [checker EXCEPT ![c] =
         IF open = {} THEN [@ EXCEPT !.pc = "insert"]
         ELSE [@ EXCEPT !.pc = "update", !.target = CHOOSE i \in open : TRUE]]
  /\ UNCHANGED <<Bystanders, seen, stamped, incidents, restored, faults>>

Raised(c) ==
  Append(incidents, [resource |-> Resource(c), type |-> checker[c].status, status |-> "OPEN",
                     log |-> checker[c].log, history |-> checker[c].history])

(* The insert that loses takes the winner's incident as it is.             *)
Raise(c) == IF OpenFor(Resource(c), checker[c].status) = {} THEN Raised(c) ELSE incidents

(* The incident is confirmed by its id, whatever it is by now.             *)
Confirmed(c) ==
  [incidents EXCEPT ![checker[c].target] =
     [@ EXCEPT !.log = checker[c].log, !.history = checker[c].history]]

(* An error is logged, or answered when it is the last one.                *)
Ensure(c) ==
  /\ checker[c].pc \in {"insert", "update"}
  /\ \/ /\ incidents' = IF checker[c].pc = "insert" THEN Raise(c) ELSE Confirmed(c)
        /\ UNCHANGED faults
     \/ Spend /\ UNCHANGED incidents
  /\ IF checker[c].stored THEN Done(c)
     ELSE checker' = [checker EXCEPT ![c].stored = TRUE,
                        ![c].pc = IF checker[c].history THEN "find" ELSE "persist"]
  /\ UNCHANGED <<Bystanders, seen, stamped, restored>>

Stamp(l) == stamped' = Append(RemoveFirst(stamped, l), l)

(* The error of this statement is ignored.                                 *)
Persist(c) ==
  /\ checker[c].pc = "persist"
  /\ \/ /\ seen' = [seen EXCEPT ![checker[c].log] = Column(checker[c].status)]
        /\ Stamp(checker[c].log) /\ UNCHANGED faults
     \/ Spend /\ UNCHANGED <<seen, stamped>>
  /\ IF checker[c].status \in Alarming /\ checker[c].proof = "verified"
     THEN checker' = [checker EXCEPT ![c].pc = "find", ![c].stored = TRUE]
     ELSE Done(c)
  /\ UNCHANGED <<Bystanders, incidents, restored>>

AttemptForgotten(c) ==   \* a bug: a check without a comparison leaves no trace
  /\ checker[c].pc = "attempt"
  /\ stamped' = stamped /\ UNCHANGED faults
  /\ Done(c)
  /\ UNCHANGED <<Bystanders, seen, incidents, restored>>

(* So that one log cannot starve the sweep.                                *)
Attempt(c) ==
  /\ checker[c].pc = "attempt"
  /\ \/ Stamp(checker[c].log) /\ UNCHANGED faults
     \/ Spend /\ UNCHANGED stamped
  /\ Done(c)
  /\ UNCHANGED <<Bystanders, seen, incidents, restored>>

(* What a user is told, once the reply has been dealt with.                *)
Answer(c, reply) ==
  LET k == checker[c] IN
  IF k.proof = "none" THEN "INCONCLUSIVE" ELSE Assessment(k.proof = "limited", k.status, TrailStatus(reply))

AnswerHistory(c) ==
  /\ checker[c].pc = "answer"
  /\ Done(c)
  /\ UNCHANGED <<Bystanders, seen, stamped, incidents, restored, faults>>

CheckerStops(c) ==
  /\ checker[c].pc \notin {"idle", "answered"} /\ Spend
  /\ checker' = [checker EXCEPT ![c] = IF c = "sweep" THEN Idle ELSE [Idle EXCEPT !.pc = "answered"]]
  /\ UNCHANGED <<Bystanders, seen, stamped, incidents, restored>>

-----------------------------------------------------------------------------

CheckStep(c) ==
  Verify(c) \/ Ask(c) \/ Find(c) \/ Ensure(c) \/ Persist(c) \/ Attempt(c)
Sweep == SweepRecent \/ SweepBackfill \/ CheckStep("sweep")
UserStep(u) == CheckStep(u) \/ ClassifyCopy(u) \/ AnswerHistory(u)

Next ==
  \/ \E r \in Logged : ClientWrites(r) \/ Ingest(r) \/ EditRow(r)
  \/ \E l \in LogIds : Anchor(l) \/ EditLog(l)
  \/ \E i \in Incidents : Restore(i) \/ Resolve(i)
  \/ Sweep
  \/ \E u \in Users :
       \/ \E l \in LogIds : CheckLog(u, l)
       \/ \E r \in Logged : CheckHistory(u, r)
       \/ UserStep(u)
  \/ \E c \in Checkers : CheckerStops(c)

(* The sweep's ticker, and handlers at work.                               *)
Fairness == WF_vars(Sweep) /\ \A u \in Users : WF_vars(UserStep(u))

Spec == Init /\ [][Next]_vars /\ Fairness

-----------------------------------------------------------------------------
(* Properties.                                                             *)

LogRow == [resource : Resources, state : Nat, evidence : Row]
Columns == {"NOT_CHECKED", "VALID", "TAMPERED", "UNREACHABLE"}
Incident ==
  [resource : Resources, type : Alarming, status : {"OPEN", "RESOLVED"}, log : LogIds,
   history : BOOLEAN]
CheckState ==
  [pc : {"idle", "backfill", "classify", "verify", "attempt", "ask", "find", "insert", "update",
         "persist", "answer", "answered"},
   pass : {"none", "recent", "backfill"}, todo : Seq(LogIds), tried : SUBSET LogIds,
   log : {0} \cup LogIds, history : BOOLEAN, evidence : Row,
   proof : {"none", "limited", "verified"},
   status : {"none", "MATCHED"} \cup Alarming \cup Failures, stored : BOOLEAN,
   target : {0} \cup Incidents]

(* Rows, logs, incidents and checks stay within their types, the columns   *)
(* of a log are as many as the logs, no log is stamped twice, and what a   *)
(* check holds exists.                                                     *)
TypeOK ==
  /\ row \in [Resources -> State] /\ inflight \in [Resources -> Seq(Nat)]
  /\ logs \in Seq(LogRow)
  /\ seen \in Seq(Columns) /\ Len(seen) = Len(logs)
  /\ stamped \in Seq(LogIds) /\ \A j, k \in DOMAIN stamped : stamped[j] = stamped[k] => j = k
  /\ incidents \in Seq(Incident) /\ restored \subseteq Incidents
  /\ checker \in [Checkers -> CheckState]
  /\ writes \in Nat /\ edits \in Nat /\ faults \in Nat
  /\ agreed \subseteq LogIds /\ differed \subseteq LogIds /\ overtaken \subseteq LogIds

(* Metadata altered together with the hash of it.  The proof rows are lost *)
(* for the new hash, so that the check of the log takes it for a row of    *)
(* the old format.                                                         *)
Rehashed(l) ==
  logs[l].evidence.meta = "altered" /\ logs[l].evidence.hash = ContentHash(logs[l].evidence)

(* Everything the checks say is backed by a comparison: VALID, VERIFIED    *)
(* and its legacy form by a moment at which the log was the latest and the *)
(* row agreed with it, TAMPERED, a divergence and every incident by one at *)
(* which it did not.  An Agent that is down or refuses, a partial reply, a *)
(* lookup that fails or a crash never shows as tampering; nor does a       *)
(* damaged log, except that the check of a history raises an incident from *)
(* a log whose metadata it has just found altered, and that a rehashed log *)
(* is marked TAMPERED (without an incident).  The one race: a log may be   *)
(* overtaken by a newer one between the test that it is the latest and the *)
(* comparison.                                                             *)
VerdictsAreBacked ==
  /\ \A l \in LogIds :
       /\ seen[l] = "VALID" => l \in agreed \cup overtaken
       /\ seen[l] = "TAMPERED" => l \in differed \cup overtaken \/ Rehashed(l)
  /\ \A i \in Incidents :
       \/ incidents[i].log \in differed \cup overtaken
       \/ incidents[i].history /\ logs[incidents[i].log].evidence.meta = "altered"
  /\ \A u \in Users, reply \in TrailReplies :
       checker[u].status # "none" =>
         /\ Answer(u, reply) \in {"VERIFIED", "VERIFIED_LEGACY"} =>
              checker[u].log \in agreed \cup overtaken
         /\ Answer(u, reply) = "CLIENT_STATE_DIVERGENCE" =>
              checker[u].log \in differed \cup overtaken

(* When changes come to an end, the sweep, if it is enabled, has told the  *)
(* truth about every resource: its latest log carries the verdict that it  *)
(* deserves and, if the row differs, an OPEN incident names that log.  No  *)
(* log that cannot be compared starves the others, and failed statements,  *)
(* crashes, late writes of slow checks and confirmations of closed         *)
(* incidents are made up for.                                              *)
EventuallySeen ==
  [](checker["sweep"].pc # "answered") =>
  <>[](\A r \in Logged :
         LET l == Latest(r)
             proof == Proof("log", logs[l].evidence, AllReads)
             status == SourceStatus(l, logs[l].evidence, Fetched(r))
         IN proof # "none" =>
              /\ seen[l] = Column(status)
              /\ status \in Alarming /\ proof = "verified" =>
                   \E i \in OpenFor(r, status) : incidents[i].log = l)
=============================================================================
