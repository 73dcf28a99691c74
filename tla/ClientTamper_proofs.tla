------------------------- MODULE ClientTamper_proofs -------------------------
(***************************************************************************)
(* Proofs about ClientTamper, for any number of handlers, users, audits    *)
(* and faults.                                                             *)
(***************************************************************************)
EXTENDS ClientTamper, FiniteSetTheorems, TLAPS

-----------------------------------------------------------------------------
(* The inductive invariant.                                                *)

Working(h) == deliver[h].pc = "work"

(* A handler that found statistics holds the lock alone, and they are      *)
(* still what it read.  One that found none holds no lock, and fails on    *)
(* their primary key once another one has created them.                    *)
LockProtects ==
  \A h \in Handlers :
    Working(h) /\ deliver[h].read # <<>> => lock = {h} /\ deliver[h].read = stats

(* While its commit can succeed, a handler knows every open record; before *)
(* it has the lock, it knows none.                                         *)
FoundIsCurrent ==
  \A h \in Handlers :
    /\ Working(h) /\ deliver[h].read = stats => Open \subseteq deliver[h].found
    /\ ~Working(h) => deliver[h].found = {}

OpenApart == \A r, s \in Open : r = s

RunsCounted ==
  /\ Counts(stats).audited = Cardinality(runs)
  /\ Counts(stats).tampered = Cardinality({k \in runs : audits[k].bad})
  /\ Counts(stats).open = Cardinality({k \in runs : audits[k].bad /\ ~audits[k].auto})

(* A record names the log that its report saw; while it is open, that      *)
(* report was one of a bad row which nobody restored.                      *)
RecordsFollowReports ==
  \A r \in DOMAIN records :
    /\ records[r].log = audits[records[r].run].log
    /\ r \in Open => audits[records[r].run].bad /\ ~audits[records[r].run].auto

(* A row that was valid, was restored on the spot or has changed since has *)
(* matched its latest log.                                                 *)
AuditsMatched ==
  \A k \in DOMAIN audits :
    /\ audits[k].log <= logs
    /\ ~audits[k].bad \/ audits[k].auto \/ audits[k].log < logs => k \in matched

CallsJustified ==
  \A u \in Users :
    /\ call[u].pc # "idle" => call[u].log = audits[call[u].run].log
    /\ call[u].pc \in {"written", "event"} => call[u].run \in matched

(* Nothing that is under way writes a record which was dismissed when      *)
(* nothing was under way.                                                  *)
DismissedAlone ==
  \A r \in DOMAIN records :
    records[r].status = "DISMISSED" /\ ~records[r].crossed => ~InFlight(r)

TamperInv ==
  /\ TypeOK /\ LockProtects /\ FoundIsCurrent /\ OpenApart /\ RunsCounted
  /\ RecordsFollowReports /\ AuditsMatched /\ CallsJustified /\ DismissedAlone
  /\ RecoveredIsJustified

-----------------------------------------------------------------------------
(* The steps, by whom they are taken.                                      *)

ClientStep == Change \/ Edit \/ \E auto \in BOOLEAN : Audit(auto)

HandlerStep(h) ==
  \/ \E k \in DOMAIN audits : Receive(h, k)
  \/ Check(h) \/ Lock(h) \/ Commit(h) \/ DeliveryFails(h)

UserStep(u) ==
  \/ \E r \in DOMAIN records : Recover(u, r)
  \/ AgentWrites(u) \/ AgentFails(u)
  \/ Succeed(u) \/ EventLost(u) \/ Resolve(u) \/ ResolveFails(u)

LEMMA Steps ==
  Next => \/ ClientStep
          \/ \E h \in Handlers : HandlerStep(h)
          \/ \E u \in Users : UserStep(u)
          \/ \E r \in DOMAIN records : Dismiss(r)
BY DEF Next, ClientStep, HandlerStep, UserStep

LEMMA SpendInBudget == faults \in 0..MaxFaults /\ Spend => faults' \in 0..MaxFaults
BY TamperAssumption DEF Spend

LEMMA CountsType ==
  /\ NoCounts \in Totals /\ <<>> \notin Totals
  /\ \A read \in {<<>>} \cup Totals : Counts(read) \in Totals
BY DEF NoCounts, Totals, Counts

LEMMA TamperInit == Init => TamperInv
<1> SUFFICES ASSUME Init PROVE TamperInv
  OBVIOUS
<1>1. /\ \A h \in Handlers : deliver[h] = Idle
      /\ \A u \in Users : call[u] = NoCall
      /\ records = <<>> /\ DOMAIN records = {} /\ audits = <<>> /\ DOMAIN audits = {} /\ runs = {}
      /\ stats \in {<<>>, NoCounts}
  BY DEF Init
<1>2. TypeOK
  <2>1. Idle \in Delivery /\ NoCall \in RecoverCall
    BY DEF Idle, Delivery, NoCall, RecoverCall
  <2>2. ClientOK
    BY <1>1, TamperAssumption DEF Init, ClientOK
  <2>3. RecordsOK
    BY <1>1 DEF Init, RecordsOK
  <2>4. ReportsOK
    BY <1>1, <2>1, CountsType DEF Init, ReportsOK, Idle
  <2>5. CallsOK
    BY <1>1, <2>1 DEF Init, CallsOK, NoCall
  <2> QED BY <2>2, <2>3, <2>4, <2>5, TamperAssumption DEF Init, TypeOK
<1>3. Open = {}
  BY <1>1 DEF Open
<1>4. LockProtects /\ FoundIsCurrent /\ OpenApart
  BY <1>1, <1>3 DEF LockProtects, FoundIsCurrent, OpenApart, Working, Idle
<1>5. RunsCounted
  <2>1. /\ {k \in runs : audits[k].bad} = {}
        /\ {k \in runs : audits[k].bad /\ ~audits[k].auto} = {}
    BY <1>1
  <2> QED BY <1>1, <2>1, FS_EmptySet DEF RunsCounted, Counts, NoCounts
<1>6. RecordsFollowReports /\ AuditsMatched /\ CallsJustified /\ DismissedAlone /\ RecoveredIsJustified
  BY <1>1 DEF RecordsFollowReports, AuditsMatched, CallsJustified, DismissedAlone, RecoveredIsJustified,
     NoCall, Init
<1> QED BY <1>2, <1>4, <1>5, <1>6 DEF TamperInv

-----------------------------------------------------------------------------
(* The client and the Agent: reports keep pointing to what was seen, as    *)
(* audits are only added.                                                  *)

LEMMA ClientFrame ==
  ASSUME TamperInv, ClientOK', AuditsMatched',
         UNCHANGED <<runs, stats, lock, deliver, records, events, call, faults>>,
         DOMAIN audits \subseteq DOMAIN audits', \A k \in DOMAIN audits : audits'[k] = audits[k],
         matched \subseteq matched'
  PROVE  TamperInv'
<1>1. runs \subseteq DOMAIN audits
  BY DEF TamperInv, TypeOK, ReportsOK
<1>2. TypeOK'
  <2>1. RecordsOK' /\ CallsOK' /\ (faults \in 0..MaxFaults)'
    BY DEF TamperInv, TypeOK, RecordsOK, CallsOK
  <2>2. ReportsOK'
    BY DEF TamperInv, TypeOK, ReportsOK
  <2> QED BY <2>1, <2>2 DEF TypeOK
<1>3. LockProtects' /\ FoundIsCurrent' /\ OpenApart'
  BY DEF TamperInv, LockProtects, FoundIsCurrent, OpenApart, Working, Open
<1>4. RunsCounted'
  <2>1. /\ {k \in runs' : audits'[k].bad} = {k \in runs : audits[k].bad}
        /\ {k \in runs' : audits'[k].bad /\ ~audits'[k].auto} = {k \in runs : audits[k].bad /\ ~audits[k].auto}
    BY <1>1
  <2> QED BY <2>1 DEF TamperInv, RunsCounted, Counts
<1>5. RecordsFollowReports'
  BY <1>1 DEF TamperInv, TypeOK, RecordsOK, RecordsFollowReports, Open
<1>6. CallsJustified'
  BY <1>1 DEF TamperInv, TypeOK, CallsOK, CallsJustified
<1>7. DismissedAlone'
  <2>1. \A h \in Handlers : deliver[h].found # {} => deliver[h].audit \in DOMAIN audits
    BY DEF TamperInv, TypeOK, ReportsOK, FoundIsCurrent, Working
  <2> QED BY <2>1 DEF TamperInv, DismissedAlone, InFlight
<1>8. RecoveredIsJustified'
  BY DEF TamperInv, RecoveredIsJustified
<1> QED BY <1>2, <1>3, <1>4, <1>5, <1>6, <1>7, <1>8 DEF TamperInv

LEMMA KeepClient ==
  ASSUME TamperInv, ClientStep
  PROVE  TamperInv'
<1>1. /\ logs \in Nat /\ logs > 0 /\ logs <= MaxChanges + 1 /\ row \in 0..logs /\ edits \in 0..MaxEdits
      /\ audits \in Seq(Verdict) /\ matched \subseteq DOMAIN audits /\ Len(audits) \in Nat
      /\ DOMAIN audits = 1..Len(audits)
  BY TamperAssumption DEF TamperInv, TypeOK, ClientOK
<1>2. \A k \in DOMAIN audits :
        /\ audits[k].log \in Nat /\ audits[k].log <= logs
        /\ ~audits[k].bad \/ audits[k].auto \/ audits[k].log < logs => k \in matched
  <2>1. \A k \in DOMAIN audits : audits[k] \in Verdict
    BY <1>1
  <2> QED BY <2>1 DEF TamperInv, AuditsMatched, Verdict
<1>3. CASE Change
  <2>1. /\ UNCHANGED <<runs, stats, lock, deliver, records, events, call, faults, audits, edits>>
        /\ logs' = logs + 1 /\ row' = logs' /\ matched' = DOMAIN audits /\ logs <= MaxChanges
    BY <1>3 DEF Change, Matches, reported
  <2>2. ClientOK' /\ matched \subseteq matched'
    BY <1>1, <2>1, TamperAssumption DEF ClientOK
  <2>3. AuditsMatched'
    BY <1>1, <1>2, <2>1 DEF AuditsMatched
  <2> QED BY <2>1, <2>2, <2>3, ClientFrame
<1>4. CASE Edit
  <2>1. /\ UNCHANGED <<runs, stats, lock, deliver, records, events, call, faults, audits, logs>>
        /\ row' = 0 /\ edits' = edits + 1 /\ edits < MaxEdits
        /\ matched' = IF row' = logs' THEN DOMAIN audits' ELSE matched
    BY <1>4 DEF Edit, Matches, reported
  <2>2. matched' = matched
    BY <1>1, <2>1
  <2>3. ClientOK' /\ AuditsMatched'
    BY <1>1, <2>1, <2>2, TamperAssumption DEF ClientOK, TamperInv, AuditsMatched
  <2> QED BY <2>1, <2>2, <2>3, ClientFrame
<1>5. ASSUME NEW auto \in BOOLEAN, Audit(auto) PROVE TamperInv'
  <2> DEFINE seen == [log |-> logs, bad |-> row # logs, auto |-> auto /\ row # logs]
  <2>1. /\ UNCHANGED <<runs, stats, lock, deliver, records, events, call, faults, logs, edits>>
        /\ row' = IF auto THEN logs ELSE row
        /\ audits' = Append(audits, seen)
        /\ matched' = IF row' = logs' THEN DOMAIN audits' ELSE matched
    BY <1>5 DEF Audit, Matches, reported
  <2>2. /\ seen \in Verdict /\ seen.log = logs
        /\ ~seen.bad \/ seen.auto => row' = logs'
    BY <1>1, <2>1 DEF Verdict
  <2> HIDE DEF seen
  <2>3. /\ audits' \in Seq(Verdict) /\ DOMAIN audits' = 1..(Len(audits) + 1)
        /\ audits'[Len(audits) + 1] = seen
        /\ \A k \in DOMAIN audits : audits'[k] = audits[k]
    BY <1>1, <2>1, <2>2
  <2>4. DOMAIN audits \subseteq DOMAIN audits' /\ \A k \in DOMAIN audits' : k \in DOMAIN audits \/ k = Len(audits) + 1
    BY <1>1, <2>3
  <2>5. matched \subseteq matched' /\ matched' \subseteq DOMAIN audits'
    BY <1>1, <2>1, <2>4
  <2>6. ClientOK'
    BY <1>1, <2>1, <2>3, <2>5, TamperAssumption DEF ClientOK
  <2>7. AuditsMatched'
    <3>1. ASSUME NEW k \in DOMAIN audits
          PROVE  /\ audits'[k].log <= logs'
                 /\ ~audits'[k].bad \/ audits'[k].auto \/ audits'[k].log < logs' => k \in matched'
      BY <1>2, <2>1, <2>3, <2>5
    <3>2. /\ seen.log <= logs' /\ ~(seen.log < logs')
          /\ ~seen.bad \/ seen.auto => Len(audits) + 1 \in matched'
      BY <1>1, <2>1, <2>2, <2>3
    <3> QED BY <2>3, <2>4, <3>1, <3>2 DEF AuditsMatched
  <2> QED BY <2>1, <2>3, <2>4, <2>5, <2>6, <2>7, ClientFrame
<1> QED BY <1>3, <1>4, <1>5 DEF ClientStep

-----------------------------------------------------------------------------
(* The users.  What a step leaves alone stays true.                        *)

LEMMA ReportFrame ==
  ASSUME TamperInv, UNCHANGED <<reported, logs, audits>>
  PROVE  /\ UNCHANGED records => ReportsOK' /\ FoundIsCurrent' /\ OpenApart'
         /\ LockProtects' /\ RunsCounted'
         /\ UNCHANGED records => RecordsFollowReports'
         /\ UNCHANGED <<records, events>> => RecordsOK'
         /\ UNCHANGED <<row, edits, matched>> => ClientOK' /\ AuditsMatched'
<1>1. UNCHANGED records => ReportsOK' /\ FoundIsCurrent' /\ OpenApart'
  BY DEF TamperInv, TypeOK, ReportsOK, FoundIsCurrent, OpenApart, Working, Open, reported
<1>2. LockProtects' /\ RunsCounted'
  BY DEF TamperInv, LockProtects, RunsCounted, Working, Counts, reported
<1>3. UNCHANGED records => RecordsFollowReports'
  BY DEF TamperInv, RecordsFollowReports, Open, reported
<1>4. UNCHANGED <<records, events>> => RecordsOK'
  BY DEF TamperInv, TypeOK, RecordsOK, reported
<1>5. UNCHANGED <<row, edits, matched>> => ClientOK' /\ AuditsMatched'
  BY DEF TamperInv, TypeOK, ClientOK, AuditsMatched
<1> QED BY <1>1, <1>2, <1>3, <1>4, <1>5

(* A recovery call goes on with its record, its run and its log, or ends.  *)
LEMMA CallContinues ==
  ASSUME TamperInv, NEW u \in Users, NEW c \in RecoverCall, call' = [call EXCEPT ![u] = c],
         UNCHANGED <<deliver, audits, runs>>, Len(records') = Len(records), records' \in Seq(Record),
         matched \subseteq matched',
         c.pc # "idle" => /\ call[u].pc # "idle" /\ c.record = call[u].record
                          /\ c.run = call[u].run /\ c.log = call[u].log,
         c.pc = "idle" => c.record = 0,
         c.pc \in {"written", "event"} => c.run \in matched'
  PROVE  /\ CallsOK' /\ CallsJustified'
         /\ \A r \in DOMAIN records : InFlight(r)' => InFlight(r)
<1>1. /\ \A w \in Users : w # u => call'[w] = call[w]
      /\ call'[u] = c /\ call' \in [Users -> RecoverCall]
  BY DEF TamperInv, TypeOK, CallsOK
<1>2. DOMAIN records' = DOMAIN records /\ 0 \notin DOMAIN records
  BY DEF TamperInv, TypeOK, RecordsOK
<1>3. CallsOK'
  BY <1>1, <1>2 DEF TamperInv, TypeOK, CallsOK
<1>4. CallsJustified'
  BY <1>1 DEF TamperInv, CallsJustified
<1>5. \A r \in DOMAIN records : InFlight(r)' => InFlight(r)
  BY <1>1, <1>2 DEF InFlight
<1> QED BY <1>3, <1>4, <1>5

LEMMA KeepUser ==
  ASSUME TamperInv, NEW u \in Users, UserStep(u)
  PROVE  TamperInv'
<1>1. /\ call[u] \in RecoverCall /\ DOMAIN call = Users /\ records \in Seq(Record)
      /\ \A r \in DOMAIN records : records[r] \in Record
      /\ call[u].pc # "idle" => call[u].record \in DOMAIN records /\ call[u].run \in runs
      /\ call[u].pc \in {"written", "event"} => call[u].run \in matched
      /\ call[u].pc # "idle" => call[u].log = audits[call[u].run].log
      /\ faults \in 0..MaxFaults /\ runs \subseteq DOMAIN audits
  BY DEF TamperInv, TypeOK, CallsOK, RecordsOK, ReportsOK, CallsJustified
<1>2. NoCall \in RecoverCall /\ NoCall.pc = "idle" /\ NoCall.record = 0
  BY DEF NoCall, RecoverCall
<1>3. ASSUME NEW r \in DOMAIN records, Recover(u, r) PROVE TamperInv'
  <2> DEFINE c == [pc |-> "call", record |-> r, run |-> records[r].run, log |-> records[r].log]
  <2>1. /\ r \in Open /\ call' = [call EXCEPT ![u] = c]
        /\ UNCHANGED <<client, reported, records, events, matched, faults>>
    BY <1>3 DEF Recover
  <2>2. c \in RecoverCall /\ r \in Nat
    BY <1>1 DEF RecoverCall, Record
  <2>3. c.record = r /\ c.run \in runs /\ c.log = audits[c.run].log /\ c.pc = "call"
    BY DEF TamperInv, TypeOK, RecordsOK, RecordsFollowReports
  <2> HIDE DEF c
  <2>4. CallsOK'
    BY <1>1, <2>1, <2>2, <2>3 DEF TamperInv, TypeOK, CallsOK, reported
  <2>5. CallsJustified'
    BY <1>1, <2>1, <2>3 DEF TamperInv, CallsJustified, client
  <2>6. DismissedAlone'
    <3>1. \A k \in DOMAIN records : k # r /\ InFlight(k)' => InFlight(k)
      BY <1>1, <2>1, <2>3 DEF InFlight, reported, client
    <3>2. records[r].status = "OPEN"
      BY <2>1 DEF Open
    <3> QED BY <2>1, <3>1, <3>2 DEF TamperInv, DismissedAlone
  <2> QED BY <2>1, <2>4, <2>5, <2>6, ReportFrame
          DEF TamperInv, TypeOK, RecoveredIsJustified, client
<1>4. CASE AgentWrites(u)
  <2> DEFINE c == [call[u] EXCEPT !.pc = "written"]
  <2>1. /\ call[u].pc = "call" /\ row' = call[u].log /\ call' = [call EXCEPT ![u] = c]
        /\ UNCHANGED <<logs, edits, audits, reported, records, events, faults>>
        /\ matched' = IF row' = logs' THEN DOMAIN audits' ELSE matched
    BY <1>4 DEF AgentWrites, Matches
  <2>2. /\ c \in RecoverCall /\ c.pc = "written" /\ c.record = call[u].record /\ c.run = call[u].run
        /\ c.log = call[u].log
    BY <1>1 DEF RecoverCall
  <2> HIDE DEF c
  <2>3. ClientOK /\ AuditsMatched
    BY DEF TamperInv, TypeOK
  <2>4. logs \in Nat /\ call[u].log \in Nat /\ call[u].log <= logs
    BY <1>1, <2>1, <2>3, TamperAssumption DEF ClientOK, AuditsMatched, RecoverCall
  <2>5. matched \subseteq matched' /\ matched' \subseteq DOMAIN audits
    BY <2>1, <2>3 DEF ClientOK
  <2>6. call[u].run \in matched'
    <3>1. CASE call[u].log = logs
      BY <1>1, <2>1, <3>1
    <3>2. CASE call[u].log # logs
      BY <1>1, <2>1, <2>3, <2>4, <2>5, <3>2 DEF AuditsMatched
    <3> QED BY <3>1, <3>2
  <2>7. CallsOK' /\ CallsJustified' /\ \A r \in DOMAIN records : InFlight(r)' => InFlight(r)
    BY <1>1, <2>1, <2>2, <2>5, <2>6, CallContinues DEF reported
  <2>8. ClientOK' /\ AuditsMatched'
    BY <2>1, <2>3, <2>4, <2>5 DEF ClientOK, AuditsMatched
  <2>9. DismissedAlone'
    BY <2>1, <2>7 DEF TamperInv, DismissedAlone
  <2>10. RecoveredIsJustified'
    BY <2>1, <2>5 DEF TamperInv, RecoveredIsJustified
  <2> QED BY <1>1, <2>1, <2>7, <2>8, <2>9, <2>10, ReportFrame DEF TamperInv, TypeOK
<1>5. CASE AgentFails(u) \/ EventLost(u) \/ ResolveFails(u) \/ Succeed(u)
  <2>1. PICK c \in {NoCall, [call[u] EXCEPT !.pc = "event"]} :
          /\ call' = [call EXCEPT ![u] = c]
          /\ c # NoCall => call[u].pc = "written"
    BY <1>5 DEF AgentFails, EventLost, ResolveFails, Succeed
  <2>2. /\ UNCHANGED <<client, reported, records, matched>>
        /\ UNCHANGED faults \/ Spend
        /\ \/ UNCHANGED events
           \/ call[u].pc = "written" /\ events' = events \cup {Event(u)}
    BY <1>5 DEF AgentFails, EventLost, ResolveFails, Succeed
  <2>3. c = NoCall \/ (/\ c \in RecoverCall /\ c.pc = "event" /\ c.record = call[u].record
                       /\ c.run = call[u].run /\ c.log = call[u].log)
    BY <1>1, <2>1 DEF RecoverCall
  <2>4. CallsOK' /\ CallsJustified' /\ \A r \in DOMAIN records : InFlight(r)' => InFlight(r)
    BY <1>1, <1>2, <2>1, <2>2, <2>3, CallContinues DEF reported, client
  <2>5. RecordsOK'
    BY <1>1, <2>2 DEF TamperInv, TypeOK, RecordsOK, reported, Event
  <2>6. RecoveredIsJustified'
    BY <1>1, <2>2 DEF TamperInv, RecoveredIsJustified, Event
  <2>7. DismissedAlone'
    BY <2>2, <2>4 DEF TamperInv, DismissedAlone
  <2> QED BY <1>1, <2>2, <2>4, <2>5, <2>6, <2>7, ReportFrame, SpendInBudget DEF TamperInv, TypeOK, client
<1>6. CASE Resolve(u)
  <2> DEFINE r == call[u].record
             new == [records[r] EXCEPT !.status = "RECOVERED", !.basis = call[u].run]
  <2>1. /\ call[u].pc = "event" /\ records' = [records EXCEPT ![r] = new]
        /\ call' = [call EXCEPT ![u] = NoCall]
        /\ UNCHANGED <<client, reported, events, matched, faults>>
    BY <1>6 DEF Resolve
  <2>2. r \in DOMAIN records /\ call[u].run \in runs /\ call[u].run \in matched /\ call[u].run \in Nat
    BY <1>1, <2>1 DEF RecoverCall
  <2>3. /\ new \in Record /\ new.status = "RECOVERED" /\ new.basis = call[u].run
        /\ new.run = records[r].run /\ new.log = records[r].log
    BY <1>1, <2>2 DEF Record
  <2> HIDE DEF r, new
  <2>4. /\ records' \in Seq(Record) /\ Len(records') = Len(records) /\ DOMAIN records' = DOMAIN records
        /\ records'[r] = new /\ \A k \in DOMAIN records : k # r => records'[k] = records[k]
    BY <1>1, <2>1, <2>2, <2>3
  <2>5. Open' \subseteq Open /\ r \notin Open'
    BY <2>2, <2>3, <2>4 DEF Open
  <2>6. RecordsOK'
    BY <2>1, <2>2, <2>3, <2>4 DEF TamperInv, TypeOK, RecordsOK, reported
  <2>7. ReportsOK' /\ FoundIsCurrent' /\ OpenApart'
    BY <2>1, <2>4, <2>5 DEF TamperInv, TypeOK, ReportsOK, FoundIsCurrent, OpenApart, Working, reported, client
  <2>8. RecordsFollowReports'
    BY <2>1, <2>2, <2>3, <2>4, <2>5 DEF TamperInv, RecordsFollowReports, Open, client
  <2>9. CallsOK' /\ CallsJustified' /\ \A k \in DOMAIN records : InFlight(k)' => InFlight(k)
    BY <1>1, <1>2, <2>1, <2>4, CallContinues DEF reported, client
  <2>10. DismissedAlone'
    BY <2>3, <2>4, <2>9 DEF TamperInv, DismissedAlone
  <2>11. RecoveredIsJustified'
    BY <2>1, <2>2, <2>3, <2>4 DEF TamperInv, RecoveredIsJustified
  <2> QED BY <2>1, <2>6, <2>7, <2>8, <2>9, <2>10, <2>11, ReportFrame DEF TamperInv, TypeOK, client
<1> QED BY <1>3, <1>4, <1>5, <1>6 DEF UserStep

LEMMA KeepDismiss ==
  ASSUME TamperInv, NEW r \in DOMAIN records, Dismiss(r)
  PROVE  TamperInv'
<1> DEFINE new == [records[r] EXCEPT !.status = "DISMISSED", !.crossed = InFlight(r)]
<1>1. /\ records' = [records EXCEPT ![r] = new]
      /\ UNCHANGED <<client, reported, events, call, matched, faults>>
  BY DEF Dismiss
<1>2. records \in Seq(Record) /\ records[r] \in Record
  BY DEF TamperInv, TypeOK, RecordsOK
<1>3. InFlight(r) \in BOOLEAN
  BY DEF InFlight
<1>4. /\ new \in Record /\ new.status = "DISMISSED" /\ new.crossed = InFlight(r)
      /\ new.run = records[r].run /\ new.log = records[r].log /\ new.basis = records[r].basis
  BY <1>2, <1>3 DEF Record
<1> HIDE DEF new
<1>5. /\ records' \in Seq(Record) /\ DOMAIN records' = DOMAIN records
      /\ records'[r] = new /\ \A k \in DOMAIN records : k # r => records'[k] = records[k]
  BY <1>1, <1>2, <1>4
<1>6. Open' \subseteq Open /\ r \notin Open'
  BY <1>4, <1>5 DEF Open
<1>7. RecordsOK'
  BY <1>1, <1>4, <1>5 DEF TamperInv, TypeOK, RecordsOK, reported
<1>8. ReportsOK' /\ FoundIsCurrent' /\ OpenApart' /\ CallsOK' /\ CallsJustified'
  BY <1>1, <1>5, <1>6 DEF TamperInv, TypeOK, ReportsOK, FoundIsCurrent, OpenApart, Working, CallsOK,
     CallsJustified, reported, client
<1>9. RecordsFollowReports'
  BY <1>1, <1>4, <1>5, <1>6 DEF TamperInv, RecordsFollowReports, Open, client
<1>10. DismissedAlone'
  <2>1. \A k : InFlight(k)' <=> InFlight(k)
    BY <1>1 DEF InFlight, reported, client
  <2> QED BY <1>4, <1>5, <2>1 DEF TamperInv, DismissedAlone
<1>11. RecoveredIsJustified'
  BY <1>1, <1>4, <1>5 DEF TamperInv, RecoveredIsJustified
<1> QED BY <1>1, <1>7, <1>8, <1>9, <1>10, <1>11, ReportFrame DEF TamperInv, TypeOK, client

-----------------------------------------------------------------------------
(* The handlers.  Before its commit a handler only changes its own state   *)
(* and the lock.                                                           *)

LEMMA HandlerFrame ==
  ASSUME TamperInv, NEW h \in Handlers, NEW d \in Delivery, deliver' = [deliver EXCEPT ![h] = d],
         UNCHANGED <<client, runs, stats, records, events, call, matched>>, faults' \in 0..MaxFaults,
         d.pc # "idle" => d.audit \in DOMAIN audits, d.found \subseteq Open,
         d.pc # "work" => d.found = {}, d.pc = "work" => d.found = Open,
         d.pc = "work" /\ d.read # <<>> => d.read = stats /\ lock' = {h} /\ lock = {},
         \/ lock' = lock \/ lock' = lock \ {h}
         \/ lock' = {h} /\ lock = {}
  PROVE  TamperInv'
<1>1. /\ deliver' \in [Handlers -> Delivery] /\ deliver'[h] = d
      /\ \A g \in Handlers : g # h => deliver'[g] = deliver[g]
  BY DEF TamperInv, TypeOK, ReportsOK
<1>2. Open' = Open /\ Open \subseteq DOMAIN records
  BY DEF Open
<1>3. ReportsOK'
  BY <1>1, <1>2 DEF TamperInv, TypeOK, ReportsOK, client
<1>4. LockProtects'
  <2> SUFFICES ASSUME NEW g \in Handlers, Working(g)', deliver'[g].read # <<>>
               PROVE  lock' = {g} /\ deliver'[g].read = stats
    BY DEF LockProtects
  <2>1. CASE g = h
    BY <1>1, <2>1 DEF Working
  <2>2. CASE g # h
    BY <1>1, <2>2 DEF Working, TamperInv, LockProtects
  <2> QED BY <2>1, <2>2
<1>5. FoundIsCurrent'
  BY <1>1, <1>2 DEF TamperInv, FoundIsCurrent, Working
<1>6. DismissedAlone'
  <2>1. \A r \in DOMAIN records : r \notin Open => (InFlight(r)' => InFlight(r))
    BY <1>1 DEF InFlight, client
  <2> QED BY <2>1 DEF TamperInv, DismissedAlone, Open
<1>7. ClientOK' /\ RecordsOK' /\ CallsOK' /\ AuditsMatched' /\ CallsJustified' /\ RecoveredIsJustified'
  BY DEF TamperInv, TypeOK, ClientOK, RecordsOK, CallsOK, AuditsMatched, CallsJustified, RecoveredIsJustified,
     client
<1>8. OpenApart' /\ RunsCounted' /\ RecordsFollowReports'
  BY <1>2 DEF TamperInv, OpenApart, RunsCounted, RecordsFollowReports, Counts, client
<1> QED BY <1>3, <1>4, <1>5, <1>6, <1>7, <1>8 DEF TamperInv, TypeOK

LEMMA RunsFinite == TamperInv => IsFiniteSet(runs)
<1> SUFFICES ASSUME TamperInv PROVE IsFiniteSet(runs)
  OBVIOUS
<1>1. runs \in SUBSET (1..Len(audits)) /\ 1 \in Int /\ Len(audits) \in Int
  BY DEF TamperInv, TypeOK, ReportsOK, ClientOK
<1>2. IsFiniteSet(1..Len(audits))
  BY <1>1, FS_Interval
<1> QED BY <1>1, <1>2, FS_Subset

(* No two records of the resource are open.                                *)
LEMMA OpenCardinality ==
  ASSUME TamperInv
  PROVE  \/ Open = {} /\ Cardinality(Open) = 0
         \/ \E r : Open = {r} /\ Cardinality(Open) = 1
<1>1. CASE Open = {}
  BY <1>1, FS_EmptySet
<1>2. CASE Open # {}
  <2>1. PICK r : Open = {r}
    BY <1>2 DEF TamperInv, OpenApart
  <2>2. Cardinality({r}) = 1
    BY FS_Singleton
  <2> QED BY <2>1, <2>2
<1> QED BY <1>1, <1>2

(* One more run is one more of its kind.                                   *)
LEMMA CountRun ==
  ASSUME IsFiniteSet(runs), NEW k, k \notin runs, RunsCounted,
         runs' = runs \cup {k}, stats' = Counted(stats, k), stats \in {<<>>} \cup Totals, UNCHANGED audits,
         audits[k] \in Verdict
  PROVE  RunsCounted' /\ stats' \in Totals
<1> DEFINE bad == audits[k].bad
           left == audits[k].bad /\ ~audits[k].auto
           B == {n \in runs : audits[n].bad}
           L == {n \in runs : audits[n].bad /\ ~audits[n].auto}
           B1 == {n \in runs' : audits[n].bad}
           L1 == {n \in runs' : audits[n].bad /\ ~audits[n].auto}
<1>1. bad \in BOOLEAN /\ left \in BOOLEAN
  BY DEF Verdict
<1>2. B1 = (IF bad THEN B \cup {k} ELSE B) /\ L1 = (IF left THEN L \cup {k} ELSE L)
  OBVIOUS
<1>3. IsFiniteSet(B) /\ IsFiniteSet(L) /\ k \notin B /\ k \notin L
  BY FS_Subset
<1>4. /\ Counts(stats).audited = Cardinality(runs) /\ Counts(stats).tampered = Cardinality(B)
      /\ Counts(stats).open = Cardinality(L)
  BY DEF RunsCounted
<1>5. stats' = [audited |-> Cardinality(runs) + 1,
                tampered |-> Cardinality(B) + IF bad THEN 1 ELSE 0,
                open |-> Cardinality(L) + IF left THEN 1 ELSE 0]
  BY <1>1, <1>4 DEF Counted
<1>6. (stats' # <<>> /\ stats'.audited = Cardinality(runs') /\ stats'.tampered = Cardinality(B1)
        /\ stats'.open = Cardinality(L1)) => RunsCounted'
  BY DEF RunsCounted, Counts
<1> HIDE DEF bad, left, B, L, B1, L1
<1>7. /\ Cardinality(runs) \in Nat /\ Cardinality(B) \in Nat /\ Cardinality(L) \in Nat
      /\ Cardinality(runs') = Cardinality(runs) + 1
      /\ Cardinality(B \cup {k}) = Cardinality(B) + 1 /\ Cardinality(L \cup {k}) = Cardinality(L) + 1
  BY <1>3, FS_AddElement, FS_CardinalityType
<1>8. stats' \in Totals
  BY <1>5, <1>7 DEF Totals
<1>9. stats' # <<>>
  BY <1>8, CountsType
<1>10. stats'.tampered = Cardinality(B1) /\ stats'.open = Cardinality(L1) /\ stats'.audited = Cardinality(runs')
  BY <1>1, <1>2, <1>5, <1>7
<1> QED BY <1>6, <1>8, <1>9, <1>10

(* A commit that succeeds is one of current statistics: no other handler   *)
(* can commit any more, and none holds the lock.                           *)
LEMMA CommitIsCurrent ==
  ASSUME TamperInv, NEW h \in Handlers, Working(h), ~Conflict(h)
  PROVE  /\ deliver[h].read = stats /\ Open \subseteq deliver[h].found
         /\ \A g \in Handlers \ {h} : Working(g) => deliver[g].read = <<>>
<1>1. deliver[h].read = stats
  BY DEF TamperInv, LockProtects, Conflict
<1>2. \A g \in Handlers \ {h} : Working(g) => deliver[g].read = <<>>
  <2> SUFFICES ASSUME NEW g \in Handlers \ {h}, Working(g), deliver[g].read # <<>> PROVE FALSE
    OBVIOUS
  <2>1. lock = {g} /\ deliver[g].read = stats
    BY DEF TamperInv, LockProtects
  <2>2. lock = {h}
    BY <1>1, <2>1 DEF TamperInv, LockProtects
  <2> QED BY <2>1, <2>2
<1> QED BY <1>1, <1>2 DEF TamperInv, FoundIsCurrent

(* What a report does to the records.                                      *)
LEMMA ApplyKeeps ==
  ASSUME TamperInv, NEW h \in Handlers, NEW k \in DOMAIN audits, k = deliver[h].audit,
         Open \subseteq deliver[h].found, Apply(h, k), runs' = runs \cup {k},
         UNCHANGED <<audits, events, matched>>
  PROVE  /\ RecordsOK' /\ DOMAIN records \subseteq DOMAIN records'
         /\ OpenApart' /\ RecordsFollowReports' /\ RecoveredIsJustified'
         /\ \A r \in DOMAIN records : r \in DOMAIN records' /\ records'[r].crossed = records[r].crossed
         /\ \A r \in DOMAIN records :
              records'[r].status # records[r].status =>
                \/ records[r].status = "OPEN"
                \/ r \in deliver[h].found /\ audits[k].auto
         /\ \A r \in DOMAIN records' \ DOMAIN records : records'[r].status # "DISMISSED"
         /\ \A r \in DOMAIN records : records'[r].status = "DISMISSED" => records[r].status = "DISMISSED"
<1>1. /\ records \in Seq(Record) /\ \A r \in DOMAIN records : records[r] \in Record
      /\ \A r \in DOMAIN records : records[r].run \in runs /\ records[r].basis \in runs
      /\ deliver[h].found \subseteq DOMAIN records
      /\ Len(records) \in Nat /\ DOMAIN records = 1..Len(records)
  BY DEF TamperInv, TypeOK, RecordsOK, ReportsOK
<1>2. audits[k] \in Verdict /\ k \in Nat /\ audits[k].log \in Nat
  <2>1. audits \in Seq(Verdict)
    BY DEF TamperInv, TypeOK, ClientOK
  <2>2. audits[k] \in Verdict /\ k \in Nat
    BY <2>1
  <2> QED BY <2>2 DEF Verdict
<1>3. ~audits[k].bad \/ audits[k].auto => k \in matched
  BY DEF TamperInv, AuditsMatched
<1>4. /\ OpenApart /\ RecordsFollowReports /\ RecoveredIsJustified /\ RecordsOK
  BY DEF TamperInv, TypeOK
<1>5. CASE ~audits[k].bad
  <2>1. records' = ClosedBy(k)
    BY <1>5 DEF Apply
  <2>2. /\ records' = [r \in DOMAIN records |-> records'[r]]
        /\ \A r \in DOMAIN records :
             /\ r \notin Open => records'[r] = records[r]
             /\ r \in Open => records'[r] = [records[r] EXCEPT !.status = "RECOVERED", !.basis = k]
    BY <2>1 DEF ClosedBy
  <2>3. \A r \in DOMAIN records :
          /\ records'[r] \in Record /\ records'[r].run = records[r].run /\ records'[r].log = records[r].log
          /\ records'[r].crossed = records[r].crossed
          /\ \/ r \notin Open /\ records'[r] = records[r]
             \/ r \in Open /\ records'[r].status = "RECOVERED" /\ records'[r].basis = k
    <3> TAKE r \in DOMAIN records
    <3>1. records[r] \in Record
      BY <1>1
    <3>2. CASE r \in Open
      <4>1. records'[r] = [records[r] EXCEPT !.status = "RECOVERED", !.basis = k]
        BY <2>2, <3>2
      <4> QED BY <1>2, <3>1, <3>2, <4>1 DEF Record
    <3> QED BY <2>2, <3>1, <3>2
  <2>4. records' \in Seq(Record) /\ DOMAIN records' = DOMAIN records
    <3>1. records' \in [1..Len(records) -> Record]
      BY <1>1, <2>2, <2>3
    <3> QED BY <1>1, <3>1
  <2>5. Open' = {}
    BY <2>3, <2>4 DEF Open
  <2>6. RecordsOK'
    BY <1>1, <1>4, <2>3, <2>4 DEF RecordsOK
  <2>7. RecordsFollowReports' /\ OpenApart' /\ RecoveredIsJustified'
    BY <1>3, <1>4, <1>5, <2>3, <2>4, <2>5 DEF RecordsFollowReports, OpenApart, RecoveredIsJustified
  <2> QED BY <2>3, <2>4, <2>6, <2>7 DEF Open
<1>6. CASE audits[k].bad /\ deliver[h].found = {}
  <2> DEFINE new == NewRecord(k, IF audits[k].auto THEN "RECOVERED" ELSE "OPEN")
  <2>1. records' = Append(records, new)
    BY <1>6 DEF Apply
  <2>2. /\ new \in Record /\ new.run = k /\ new.basis = k /\ new.log = audits[k].log
        /\ new.status = IF audits[k].auto THEN "RECOVERED" ELSE "OPEN"
    BY <1>2 DEF NewRecord, Record
  <2>3. Open = {}
    BY <1>6
  <2> HIDE DEF new
  <2>4. /\ records' \in Seq(Record) /\ DOMAIN records' = 1..(Len(records) + 1)
        /\ records'[Len(records) + 1] = new
        /\ \A r \in DOMAIN records : records'[r] = records[r]
    BY <1>1, <2>1, <2>2
  <2>5. /\ DOMAIN records \subseteq DOMAIN records'
        /\ \A r \in DOMAIN records' : r \in DOMAIN records \/ r = Len(records) + 1
    BY <1>1, <2>4
  <2>6. Open' \subseteq {Len(records) + 1}
    BY <2>3, <2>4, <2>5 DEF Open
  <2>7. RecordsOK'
    BY <1>1, <1>4, <2>2, <2>4, <2>5 DEF RecordsOK
  <2>8. RecordsFollowReports'
    BY <1>1, <1>4, <1>6, <2>2, <2>3, <2>4, <2>5, <2>6 DEF RecordsFollowReports, Open
  <2>9. OpenApart' /\ RecoveredIsJustified'
    BY <1>3, <1>4, <2>2, <2>4, <2>5, <2>6 DEF OpenApart, RecoveredIsJustified
  <2> QED BY <2>2, <2>4, <2>5, <2>7, <2>8, <2>9
<1>7. CASE audits[k].bad /\ deliver[h].found # {}
  <2>1. PICK r \in deliver[h].found : records' = Confirmed(r, k)
    BY <1>7 DEF Apply
  <2>2. r \in DOMAIN records /\ records[r] \in Record
    BY <1>1
  <2>3. /\ DOMAIN records' = DOMAIN records /\ records' = [n \in DOMAIN records |-> records'[n]]
        /\ \A n \in DOMAIN records : n # r => records'[n] = records[n]
        /\ records'[r] \in Record /\ records'[r].run = k /\ records'[r].log = audits[k].log
        /\ records'[r].crossed = records[r].crossed
        /\ audits[k].auto => records'[r].basis = k /\ records'[r].status = "RECOVERED"
        /\ ~audits[k].auto => records'[r].basis = records[r].basis /\ records'[r].status = records[r].status
    BY <1>2, <2>1, <2>2 DEF Confirmed, Record
  <2>4. records' \in Seq(Record)
    <3>1. records' \in [1..Len(records) -> Record]
      BY <1>1, <2>3
    <3> QED BY <1>1, <3>1
  <2>5. Open' \subseteq Open /\ (audits[k].auto => r \notin Open')
    BY <2>3 DEF Open
  <2>6. RecordsOK'
    BY <1>1, <1>4, <2>3, <2>4 DEF RecordsOK
  <2>7. RecordsFollowReports'
    BY <1>1, <1>4, <1>7, <2>3, <2>5 DEF RecordsFollowReports
  <2>8. OpenApart' /\ RecoveredIsJustified'
    BY <1>3, <1>4, <2>3, <2>5 DEF OpenApart, RecoveredIsJustified
  <2> QED BY <2>3, <2>6, <2>7, <2>8
<1> QED BY <1>5, <1>6, <1>7

LEMMA KeepCommit ==
  ASSUME TamperInv, NEW h \in Handlers, Commit(h)
  PROVE  TamperInv'
<1> DEFINE k == deliver[h].audit
<1>1. /\ Working(h) /\ k \in DOMAIN audits /\ Idle \in Delivery /\ deliver' = [deliver EXCEPT ![h] = Idle]
      /\ Idle.pc = "idle" /\ Idle.found = {} /\ lock' = lock \ {h}
      /\ UNCHANGED <<client, events, call, matched, faults>>
  BY DEF TamperInv, TypeOK, ReportsOK, Commit, Working, Idle, Delivery
<1>2. CASE Conflict(h)
  <2>1. UNCHANGED <<records, stats, runs>>
    BY <1>2 DEF Commit
  <2> QED BY <1>1, <2>1, HandlerFrame DEF TamperInv, TypeOK
<1>3. CASE ~Conflict(h)
  <2>1. /\ deliver[h].read = stats /\ Open \subseteq deliver[h].found
        /\ \A g \in Handlers \ {h} : Working(g) => deliver[g].read = <<>>
    BY <1>1, <1>3, CommitIsCurrent
  <2>2. Apply(h, k) /\ stats' = Counted(stats, k) /\ runs' = runs \cup {k} /\ k \notin runs
    BY <1>3, <2>1 DEF Commit, Conflict
  <2>3. UNCHANGED <<audits, logs, row, edits, events, matched>>
    BY <1>1 DEF client
  <2> HIDE DEF k
  <2>4. /\ RecordsOK' /\ DOMAIN records \subseteq DOMAIN records'
        /\ OpenApart' /\ RecordsFollowReports' /\ RecoveredIsJustified'
        /\ \A r \in DOMAIN records : r \in DOMAIN records' /\ records'[r].crossed = records[r].crossed
        /\ \A r \in DOMAIN records' \ DOMAIN records : records'[r].status # "DISMISSED"
        /\ \A r \in DOMAIN records : records'[r].status = "DISMISSED" => records[r].status = "DISMISSED"
    BY <1>1, <2>1, <2>2, <2>3, ApplyKeeps DEF k
  <2>5. RunsCounted' /\ stats' \in Totals
    <3>1. IsFiniteSet(runs)
      BY RunsFinite
    <3>2. audits[k] \in Verdict /\ stats \in {<<>>} \cup Totals
      <4>1. audits \in Seq(Verdict) /\ stats \in {<<>>} \cup Totals
        BY DEF TamperInv, TypeOK, ClientOK, ReportsOK
      <4> QED BY <1>1, <4>1
    <3>3. RunsCounted
      BY DEF TamperInv
    <3> QED BY <2>2, <2>3, <3>1, <3>2, <3>3, CountRun
  <2>6. stats' # <<>>
    BY <2>5, CountsType
  <2>7. /\ deliver' \in [Handlers -> Delivery] /\ deliver'[h] = Idle
        /\ \A g \in Handlers : g # h => deliver'[g] = deliver[g]
    BY <1>1 DEF TamperInv, TypeOK, ReportsOK
  <2>8. \A g \in Handlers : Working(g)' => g # h /\ deliver'[g].read = <<>>
    BY <1>1, <2>1, <2>7 DEF Working
  <2>9. ReportsOK'
    BY <1>1, <2>2, <2>3, <2>4, <2>5, <2>7 DEF TamperInv, TypeOK, ReportsOK
  <2>10. LockProtects' /\ FoundIsCurrent'
    BY <1>1, <2>6, <2>7, <2>8 DEF TamperInv, LockProtects, FoundIsCurrent, Working
  <2>11. ClientOK' /\ AuditsMatched' /\ (faults \in 0..MaxFaults)'
    BY <1>1, <2>3 DEF TamperInv, TypeOK, ClientOK, AuditsMatched
  <2>12. CallsOK' /\ CallsJustified'
    BY <1>1, <2>2, <2>3, <2>4 DEF TamperInv, TypeOK, CallsOK, CallsJustified
  <2>13. DismissedAlone'
    <3>1. \A r \in DOMAIN records : InFlight(r)' => InFlight(r)
      BY <1>1, <2>3, <2>7 DEF InFlight
    <3> QED BY <2>4, <3>1 DEF TamperInv, DismissedAlone
  <2> QED BY <2>4, <2>5, <2>9, <2>10, <2>11, <2>12, <2>13 DEF TamperInv, TypeOK
<1> QED BY <1>2, <1>3

LEMMA KeepHandler ==
  ASSUME TamperInv, NEW h \in Handlers, HandlerStep(h)
  PROVE  TamperInv'
<1>1. /\ deliver[h] \in Delivery /\ faults \in 0..MaxFaults /\ stats \in {<<>>} \cup Totals
      /\ deliver[h].pc # "idle" => deliver[h].audit \in DOMAIN audits
      /\ ~Working(h) => deliver[h].found = {}
      /\ Open \subseteq DOMAIN records /\ DOMAIN records \subseteq Nat /\ DOMAIN audits \subseteq Nat
  BY DEF TamperInv, TypeOK, ReportsOK, RecordsOK, ClientOK, FoundIsCurrent, Open
<1>2. Idle \in Delivery /\ Idle.pc = "idle" /\ Idle.found = {}
  BY DEF Idle, Delivery
<1>3. ASSUME NEW k \in DOMAIN audits, Receive(h, k) PROVE TamperInv'
  <2> DEFINE d == [Idle EXCEPT !.pc = "check", !.audit = k]
  <2>1. d \in Delivery /\ d.pc = "check" /\ d.audit = k /\ d.found = {}
    BY <1>1 DEF Idle, Delivery
  <2>2. /\ deliver' = [deliver EXCEPT ![h] = d]
        /\ UNCHANGED <<client, runs, stats, lock, records, events, call, matched, faults>>
    BY <1>3 DEF Receive
  <2> HIDE DEF d
  <2> QED BY <1>1, <2>1, <2>2, HandlerFrame
<1>4. CASE Check(h)
  <2>1. deliver[h].pc = "check" /\ deliver[h].found = {}
    BY <1>1, <1>4 DEF Check, Working
  <2>2. PICK d \in {Idle, [deliver[h] EXCEPT !.pc = "lock"]} : deliver' = [deliver EXCEPT ![h] = d]
    BY <1>4 DEF Check
  <2>3. d = Idle \/ (d \in Delivery /\ d.pc = "lock" /\ d.audit = deliver[h].audit /\ d.found = {})
    BY <1>1, <2>1, <2>2 DEF Delivery
  <2>4. UNCHANGED <<client, runs, stats, lock, records, events, call, matched, faults>>
    BY <1>4 DEF Check
  <2> QED BY <1>1, <1>2, <2>1, <2>2, <2>3, <2>4, HandlerFrame
<1>5. CASE Lock(h)
  <2> DEFINE d == [deliver[h] EXCEPT !.pc = "work", !.found = Open, !.read = stats]
  <2>1. /\ d \in Delivery /\ d.pc = "work" /\ d.found = Open /\ d.read = stats
        /\ d.audit = deliver[h].audit
    BY <1>1 DEF Delivery
  <2>2. /\ deliver' = [deliver EXCEPT ![h] = d] /\ deliver[h].pc = "lock"
        /\ IF stats = <<>> THEN UNCHANGED lock ELSE lock = {} /\ lock' = {h}
        /\ UNCHANGED <<client, runs, stats, records, events, call, matched, faults>>
    BY <1>5 DEF Lock
  <2> HIDE DEF d
  <2> QED BY <1>1, <2>1, <2>2, HandlerFrame
<1>6. CASE DeliveryFails(h)
  <2>1. /\ deliver' = [deliver EXCEPT ![h] = Idle] /\ lock' = lock \ {h} /\ faults' \in 0..MaxFaults
        /\ UNCHANGED <<client, runs, stats, records, events, call, matched>>
    BY <1>1, <1>6, SpendInBudget DEF DeliveryFails
  <2> QED BY <1>2, <2>1, HandlerFrame
<1> QED BY <1>3, <1>4, <1>5, <1>6, KeepCommit DEF HandlerStep

-----------------------------------------------------------------------------
(* The invariant, and what it says of the records and the statistics.      *)

(* The invariant: the lock protects what a handler has read, and records,  *)
(* runs and statistics tell the same story.                                *)
THEOREM TamperInvariant == Spec => []TamperInv
<1>1. ASSUME TamperInv, [Next]_vars PROVE TamperInv'
  <2>1. CASE UNCHANGED vars
    BY <1>1, <2>1 DEF vars, client, reported, TamperInv, TypeOK, ClientOK, RecordsOK, ReportsOK, CallsOK,
       LockProtects, FoundIsCurrent, OpenApart, RunsCounted, RecordsFollowReports, AuditsMatched,
       CallsJustified, DismissedAlone, RecoveredIsJustified, Working, Open, Counts, InFlight
  <2> QED BY <1>1, <2>1, Steps, KeepClient, KeepHandler, KeepUser, KeepDismiss
<1> QED BY <1>1, TamperInit, PTL DEF Spec

(* Of two reports that find no record, at most one opens one.              *)
THEOREM NeverTwoOpenRecords == Spec => []OneOpenRecord
<1>1. TamperInv => OneOpenRecord
  BY OpenCardinality DEF OneOpenRecord
<1> QED BY <1>1, TamperInvariant, PTL

(* Whatever is delivered twice or in parallel, the statistics are those of *)
(* the committed runs, and an open record is always counted.               *)
THEOREM ReportsCountedOnce == Spec => []CountedOnce
<1>1. TamperInv => CountedOnce
  <2> SUFFICES ASSUME TamperInv PROVE CountedOnce
    OBVIOUS
  <2> DEFINE L == {k \in runs : audits[k].bad /\ ~audits[k].auto}
  <2>1. {k \in {n \in runs : audits[n].bad} : ~audits[k].auto} = L
    OBVIOUS
  <2>2. IsFiniteSet(runs) /\ L \in SUBSET runs
    BY RunsFinite
  <2>3. IsFiniteSet(L) /\ Cardinality(L) \in Nat
    <3> HIDE DEF L
    <3> QED BY <2>2, FS_Subset, FS_CardinalityType
  <2>4. Cardinality(Open) <= Cardinality(L)
    <3>1. CASE Open = {} /\ Cardinality(Open) = 0
      BY <2>3, <3>1
    <3>2. ASSUME NEW r, Open = {r}, Cardinality(Open) = 1 PROVE Cardinality(Open) <= Cardinality(L)
      <4>1. records[r].run \in L
        BY <3>2 DEF TamperInv, TypeOK, RecordsOK, RecordsFollowReports, Open
      <4> HIDE DEF L
      <4>2. Cardinality(L) # 0
        BY <2>3, <4>1, FS_EmptySet
      <4> QED BY <2>3, <3>2, <4>2
    <3> QED BY <3>1, <3>2, OpenCardinality
  <2> QED BY <2>1, <2>4 DEF TamperInv, RunsCounted, CountedOnce
<1> QED BY <1>1, TamperInvariant, PTL

(* A record is RECOVERED, and a SUCCESS event written, only when the row   *)
(* has matched its latest log since the audit on which that rests.         *)
THEOREM RecoveryIsJustified == Spec => []RecoveredIsJustified
<1>1. TamperInv => RecoveredIsJustified
  BY DEF TamperInv
<1> QED BY <1>1, TamperInvariant, PTL

(* A record that was dismissed while nothing was under way for it is not   *)
(* touched by any later report or recovery.                                *)
THEOREM DismissalsStay == Spec => DismissedIsFinal
<1> DEFINE Stay ==
      \A r \in DOMAIN records :
        records[r].status = "DISMISSED" /\ ~records[r].crossed => records'[r].status = "DISMISSED"
<1>1. ASSUME TamperInv, Next PROVE Stay
  <2> SUFFICES ASSUME NEW r \in DOMAIN records, records[r].status = "DISMISSED", ~records[r].crossed
               PROVE  records'[r].status = "DISMISSED"
    OBVIOUS
  <2>1. ~InFlight(r) /\ r \notin Open
    BY <1>1 DEF TamperInv, DismissedAlone, Open
  <2>2. records \in Seq(Record) /\ \A n \in DOMAIN records : records[n] \in Record
    BY <1>1 DEF TamperInv, TypeOK, RecordsOK
  <2>3. CASE UNCHANGED records
    BY <2>3
  <2>4. ASSUME NEW h \in Handlers, Commit(h), ~UNCHANGED records PROVE records'[r].status = "DISMISSED"
    <3> DEFINE k == deliver[h].audit
    <3>1. Working(h) /\ ~Conflict(h) /\ Apply(h, k) /\ runs' = runs \cup {k} /\ k \in DOMAIN audits
          /\ UNCHANGED <<audits, events, matched>>
      BY <1>1, <2>4 DEF Commit, Working, TamperInv, TypeOK, ReportsOK, client
    <3>2. Open \subseteq deliver[h].found
      BY <1>1, <3>1, CommitIsCurrent
    <3> HIDE DEF k
    <3>3. records'[r].status # records[r].status =>
            records[r].status = "OPEN" \/ (r \in deliver[h].found /\ audits[k].auto)
      BY <1>1, <3>1, <3>2, ApplyKeeps DEF k
    <3>4. ~(r \in deliver[h].found /\ audits[k].auto)
      BY <2>1 DEF InFlight, k
    <3> QED BY <2>1, <3>3, <3>4
  <2>5. ASSUME NEW u \in Users, Resolve(u) PROVE records'[r].status = "DISMISSED"
    <3>1. call[u].record # r
      BY <2>1 DEF InFlight
    <3>2. records'[r] = records[r]
      BY <2>5, <3>1 DEF Resolve
    <3> QED BY <3>2
  <2>6. ASSUME NEW n \in DOMAIN records, Dismiss(n) PROVE records'[r].status = "DISMISSED"
    BY <2>2, <2>6 DEF Dismiss, Record
  <2>7. Next => \/ UNCHANGED records
                \/ \E h \in Handlers : Commit(h)
                \/ \E u \in Users : Resolve(u)
                \/ \E n \in DOMAIN records : Dismiss(n)
    BY DEF Next, Change, Edit, Audit, Receive, Check, Lock, DeliveryFails, Recover, AgentWrites, AgentFails,
       Succeed, EventLost, ResolveFails
  <2> QED BY <1>1, <2>3, <2>4, <2>5, <2>6, <2>7
<1>2. TamperInv /\ [Next]_vars =>
        [\A r \in DOMAIN records :
           records[r].status = "DISMISSED" /\ ~records[r].crossed
             => records'[r].status = "DISMISSED"]_vars
  BY <1>1
<1> QED BY <1>2, TamperInvariant, PTL DEF Spec, DismissedIsFinal
=============================================================================
