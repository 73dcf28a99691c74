----------------------------- MODULE ClientTamper -----------------------------
(***************************************************************************)
(* Client data tamper records of one resource.  The Agent audits the row   *)
(* of the client against its latest log and reports the verdict, through   *)
(* its callback and through the portal request that asked for the audit;   *)
(* a report opens, confirms or closes records and is counted in the        *)
(* dashboard statistics.  Users recover or dismiss records meanwhile.      *)
(*                                                                         *)
(* A row is 0 when it was edited past the audit trail, otherwise the       *)
(* number of the log that describes it.  Client, Agent and the network are *)
(* external.  Fields basis and crossed of a record, and the variable       *)
(* matched, are history for the properties.  The verdict columns of the    *)
(* logs that a report refreshes are the subject of GatewayIntegrity.       *)
(***************************************************************************)
EXTENDS Integers, Sequences, FiniteSets

CONSTANTS
  Handlers,    \* requests that deliver reports, at any gateway
  Users,
  MaxChanges, MaxEdits, MaxAudits,
  MaxFaults    \* failed transactions, crashes, lost replies of the Agent

ASSUME TamperAssumption ==
  MaxChanges \in Nat /\ MaxEdits \in Nat /\ MaxAudits \in Nat /\ MaxFaults \in Nat

VARIABLES
  row, logs,   \* the client's row and the number of its logs
  edits,
  audits,      \* what the Agent saw, in the order in which it looked
  runs,        \* reports with a row in verification_runs
  stats,       \* dashboard statistics of the client, <<>> while there is no row
  lock,        \* handlers that hold the lock on that row
  records,     \* client_data_tamper_records
  events,      \* SUCCESS rows of the client recovery events
  deliver,     \* what each handler is doing
  call,        \* what each user's recovery is doing
  matched,     \* audits at or after which the row has matched its latest log
  faults

client == <<row, logs, edits, audits>>
reported == <<runs, stats, lock, deliver>>
vars == <<client, reported, records, events, call, matched, faults>>

-----------------------------------------------------------------------------

Idle == [pc |-> "idle", audit |-> 0, found |-> {}, read |-> <<>>]
NoCall == [pc |-> "idle", record |-> 0, run |-> 0, log |-> 0]

Spend == faults < MaxFaults /\ faults' = faults + 1
Matches == IF row' = logs' THEN matched' = DOMAIN audits' ELSE UNCHANGED matched
Open == {r \in DOMAIN records : records[r].status = "OPEN"}

NoCounts == [audited |-> 0, tampered |-> 0, open |-> 0]
Counts(read) == IF read = <<>> THEN NoCounts ELSE read

(* The consumer may have created the statistics before the first report.   *)
Init ==
  /\ stats \in {<<>>, NoCounts}
  /\ row = 1 /\ logs = 1 /\ edits = 0
  /\ audits = <<>> /\ runs = {} /\ lock = {}
  /\ records = <<>> /\ events = {}
  /\ deliver = [h \in Handlers |-> Idle]
  /\ call = [u \in Users |-> NoCall]
  /\ matched = {} /\ faults = 0

-----------------------------------------------------------------------------
(* The client.                                                             *)

Change ==
  /\ logs <= MaxChanges
  /\ logs' = logs + 1 /\ row' = logs + 1
  /\ UNCHANGED <<edits, audits, reported, records, events, call, faults>> /\ Matches

Edit ==
  /\ edits < MaxEdits
  /\ edits' = edits + 1 /\ row' = 0
  /\ UNCHANGED <<logs, audits, reported, records, events, call, faults>> /\ Matches

(* The Agent compares the row with the latest log; with auto-recovery it   *)
(* has restored a bad row by the time it reports.                          *)
Audit(auto) ==
  /\ Len(audits) < MaxAudits
  /\ audits' = Append(audits, [log |-> logs, bad |-> row # logs,
                               auto |-> auto /\ row # logs])
  /\ row' = IF auto THEN logs ELSE row
  /\ UNCHANGED <<logs, edits, reported, records, events, call, faults>> /\ Matches

-----------------------------------------------------------------------------
(* ProcessAgentAuditReport.  A report may be delivered any number of times.*)

Receive(h, k) ==
  /\ deliver[h].pc = "idle" /\ k \notin runs
  /\ deliver' = [deliver EXCEPT ![h] = [Idle EXCEPT !.pc = "check", !.audit = k]]
  /\ UNCHANGED <<client, runs, stats, lock, records, events, call, matched, faults>>

(* The transaction looks for the run before it locks the statistics.       *)
Check(h) ==
  /\ deliver[h].pc = "check"
  /\ deliver' = [deliver EXCEPT ![h] =
       IF @.audit \in runs THEN Idle ELSE [@ EXCEPT !.pc = "lock"]]
  /\ UNCHANGED <<client, runs, stats, lock, records, events, call, matched, faults>>

LockIgnored(h) ==   \* a bug: the statistics are read without FOR UPDATE
  /\ deliver[h].pc = "lock"
  /\ lock' = lock
  /\ deliver' = [deliver EXCEPT ![h] = [@ EXCEPT !.pc = "work", !.found = Open, !.read = stats]]
  /\ UNCHANGED <<client, runs, stats, records, events, call, matched, faults>>

(* Locks the statistics, which a first report does not find and creates,   *)
(* and looks for an open record of the resource.                           *)
Lock(h) ==
  /\ deliver[h].pc = "lock"
  /\ IF stats = <<>> THEN UNCHANGED lock ELSE lock = {} /\ lock' = {h}
  /\ deliver' = [deliver EXCEPT ![h] = [@ EXCEPT !.pc = "work", !.found = Open, !.read = stats]]
  /\ UNCHANGED <<client, runs, stats, records, events, call, matched, faults>>

NewRecord(k, status) ==
  [status |-> status, run |-> k, log |-> audits[k].log, basis |-> k, crossed |-> FALSE]

ClosedByAny(k) ==   \* a bug: a valid row closes dismissed records too
  [r \in DOMAIN records |-> [records[r] EXCEPT !.status = "RECOVERED", !.basis = k]]

ClosedBy(k) ==
  [r \in DOMAIN records |->
     IF r \in Open THEN [records[r] EXCEPT !.status = "RECOVERED", !.basis = k]
     ELSE records[r]]

(* The record that was found is written by id, whatever it is by now.      *)
Confirmed(r, k) ==
  [records EXCEPT ![r].run = k, ![r].log = audits[k].log,
     ![r].basis = IF audits[k].auto THEN k ELSE @,
     ![r].status = IF audits[k].auto THEN "RECOVERED" ELSE @]

Apply(h, k) ==
  IF ~audits[k].bad THEN records' = ClosedBy(k)
  ELSE IF deliver[h].found = {}
  THEN records' = Append(records, NewRecord(k, IF audits[k].auto THEN "RECOVERED" ELSE "OPEN"))
  ELSE \E r \in deliver[h].found : records' = Confirmed(r, k)

(* The primary key of verification_runs and that of the statistics.        *)
StatsConflict(h) == deliver[h].read = <<>> /\ stats # <<>>   \* a bug: runs have no key
Conflict(h) == deliver[h].audit \in runs \/ (deliver[h].read = <<>> /\ stats # <<>>)

Counted(read, k) ==
  LET old == Counts(read)
      tampered == IF audits[k].bad THEN 1 ELSE 0
  IN [audited |-> old.audited + 1, tampered |-> old.tampered + tampered,
      open |-> old.open + IF audits[k].auto THEN 0 ELSE tampered]

Commit(h) ==
  /\ deliver[h].pc = "work"
  /\ LET k == deliver[h].audit IN
       IF Conflict(h) THEN UNCHANGED <<records, stats, runs>>
       ELSE /\ Apply(h, k)
            /\ stats' = Counted(deliver[h].read, k)
            /\ runs' = runs \cup {k}
  /\ lock' = lock \ {h}
  /\ deliver' = [deliver EXCEPT ![h] = Idle]
  /\ UNCHANGED <<client, events, call, matched, faults>>

DeliveryFails(h) ==
  /\ deliver[h].pc # "idle" /\ Spend
  /\ deliver' = [deliver EXCEPT ![h] = Idle]
  /\ lock' = lock \ {h}
  /\ UNCHANGED <<client, runs, stats, records, events, call, matched>>

-----------------------------------------------------------------------------
(* RecoverClientTamperRecord and DismissClientTamperRecord.                *)

RecoverAny(u, r) ==   \* a bug: the status of the record is not looked at
  /\ call[u].pc = "idle"
  /\ call' = [call EXCEPT ![u] = [pc |-> "call", record |-> r,
                                  run |-> records[r].run, log |-> records[r].log]]
  /\ UNCHANGED <<client, reported, records, events, matched, faults>>

Recover(u, r) ==
  /\ call[u].pc = "idle" /\ r \in Open
  /\ call' = [call EXCEPT ![u] = [pc |-> "call", record |-> r,
                                  run |-> records[r].run, log |-> records[r].log]]
  /\ UNCHANGED <<client, reported, records, events, matched, faults>>

(* The Agent writes what the record's log says, latest or not.             *)
AgentWrites(u) ==
  /\ call[u].pc = "call"
  /\ row' = call[u].log
  /\ call' = [call EXCEPT ![u].pc = "written"]
  /\ UNCHANGED <<logs, edits, audits, reported, records, events, faults>> /\ Matches

ErrorIgnored(u) ==   \* a bug: an error of the Agent counts as success
  /\ call[u].pc \in {"call", "written"} /\ Spend
  /\ call' = [call EXCEPT ![u].pc = "written"]
  /\ UNCHANGED <<client, reported, records, events, matched>>

(* A refusal, or a reply that is lost: the record stays open.  The FAILED  *)
(* event and recovery_error are left out.                                  *)
AgentFails(u) ==
  /\ call[u].pc \in {"call", "written"} /\ Spend
  /\ call' = [call EXCEPT ![u] = NoCall]
  /\ UNCHANGED <<client, reported, records, events, matched>>

(* The SUCCESS event may be lost; the status is written by id alone.       *)
Event(u) == [record |-> call[u].record, run |-> call[u].run]

Succeed(u) ==
  /\ call[u].pc = "written"
  /\ events' = events \cup {Event(u)}
  /\ call' = [call EXCEPT ![u].pc = "event"]
  /\ UNCHANGED <<client, reported, records, matched, faults>>

EventLost(u) ==
  /\ call[u].pc = "written" /\ Spend
  /\ call' = [call EXCEPT ![u].pc = "event"]
  /\ UNCHANGED <<client, reported, records, events, matched>>

Resolve(u) ==
  /\ call[u].pc = "event"
  /\ records' = [records EXCEPT ![call[u].record].status = "RECOVERED",
                                ![call[u].record].basis = call[u].run]
  /\ call' = [call EXCEPT ![u] = NoCall]
  /\ UNCHANGED <<client, reported, events, matched, faults>>

ResolveFails(u) ==
  /\ call[u].pc = "event" /\ Spend
  /\ call' = [call EXCEPT ![u] = NoCall]
  /\ UNCHANGED <<client, reported, records, events, matched>>

InFlight(r) ==
  \/ \E u \in Users : call[u].record = r
  \/ \E h \in Handlers : r \in deliver[h].found /\ audits[deliver[h].audit].auto

Dismiss(r) ==
  /\ records[r].status # "DISMISSED"
  /\ records' = [records EXCEPT ![r].status = "DISMISSED", ![r].crossed = InFlight(r)]
  /\ UNCHANGED <<client, reported, events, call, matched, faults>>

-----------------------------------------------------------------------------

Next ==
  \/ Change \/ Edit \/ \E auto \in BOOLEAN : Audit(auto)
  \/ \E h \in Handlers :
       \/ \E k \in DOMAIN audits : Receive(h, k)
       \/ Check(h) \/ Lock(h) \/ Commit(h) \/ DeliveryFails(h)
  \/ \E u \in Users :
       \/ \E r \in DOMAIN records : Recover(u, r)
       \/ AgentWrites(u) \/ AgentFails(u)
       \/ Succeed(u) \/ EventLost(u) \/ Resolve(u) \/ ResolveFails(u)
  \/ \E r \in DOMAIN records : Dismiss(r)

Spec == Init /\ [][Next]_vars

-----------------------------------------------------------------------------
(* Properties.                                                             *)

Verdict == [log : Nat, bad : BOOLEAN, auto : BOOLEAN]
Totals == [audited : Nat, tampered : Nat, open : Nat]
Record == [status : {"OPEN", "RECOVERED", "DISMISSED"}, run : Nat, log : Nat, basis : Nat,
           crossed : BOOLEAN]
Delivery == [pc : {"idle", "check", "lock", "work"}, audit : Nat, found : SUBSET Nat,
             read : {<<>>} \cup Totals]
RecoverCall == [pc : {"idle", "call", "written", "event"}, record : Nat, run : Nat, log : Nat]

ClientOK ==
  /\ logs \in 1..(MaxChanges + 1) /\ row \in 0..logs /\ edits \in 0..MaxEdits
  /\ audits \in Seq(Verdict) /\ matched \subseteq DOMAIN audits

RecordsOK ==
  /\ records \in Seq(Record)
  /\ \A r \in DOMAIN records : records[r].run \in runs /\ records[r].basis \in runs
  /\ events \subseteq [record : DOMAIN records, run : runs]

ReportsOK ==
  /\ runs \subseteq DOMAIN audits /\ lock \subseteq Handlers /\ stats \in {<<>>} \cup Totals
  /\ deliver \in [Handlers -> Delivery]
  /\ \A h \in Handlers : /\ deliver[h].pc # "idle" => deliver[h].audit \in DOMAIN audits
                         /\ deliver[h].found \subseteq DOMAIN records

CallsOK ==
  /\ call \in [Users -> RecoverCall]
  /\ \A u \in Users :
       call[u].pc # "idle" => call[u].record \in DOMAIN records /\ call[u].run \in runs

(* Rows, records, runs, counters and calls stay within their types; what   *)
(* handlers and users hold exists.                                         *)
TypeOK == ClientOK /\ RecordsOK /\ ReportsOK /\ CallsOK /\ faults \in 0..MaxFaults

(* A report counts once, although the callback of the Agent and the portal *)
(* request may deliver it at the same moment and both may retry: the       *)
(* statistics are those of the committed runs.  The open counter is never  *)
(* taken back and so never hides an open record.                           *)
CountedOnce ==
  LET counters == Counts(stats)
      tampered == {k \in runs : audits[k].bad}
  IN /\ counters.audited = Cardinality(runs)
     /\ counters.tampered = Cardinality(tampered)
     /\ counters.open = Cardinality({k \in tampered : ~audits[k].auto})
     /\ counters.open >= Cardinality(Open)

(* No index keeps two OPEN records of a resource apart; the lock on the    *)
(* statistics, and before the first report their primary key, does.        *)
OneOpenRecord == Cardinality(Open) <= 1

(* A RECOVERED record, and every SUCCESS event, is backed by the row: at   *)
(* some moment since the audit on which the closing rests, the row was as  *)
(* its latest log describes it; the recovery has written that state, or a  *)
(* change of the client overtook the recovery and brought it about.        *)
RecoveredIsJustified ==
  /\ \A r \in DOMAIN records :
       records[r].status = "RECOVERED" => records[r].basis \in matched
  /\ \A e \in events : e.run \in matched

(* A dismissed record stays dismissed, unless a recovery or an             *)
(* auto-recovery report that had found it open was still under way.        *)
DismissedIsFinal ==
  [][\A r \in DOMAIN records :
       records[r].status = "DISMISSED" /\ ~records[r].crossed
         => records'[r].status = "DISMISSED"]_vars
=============================================================================
