--------------------------- MODULE DirectRecovery ---------------------------
(***************************************************************************)
(* Recovery of one row of the client's database (mode agent_direct).  A    *)
(* mismatch between the row and its latest anchored audit log opens an     *)
(* incident; a request freezes that log's state and the state of the row;  *)
(* execute checks both again and sends one command to the Agent.  The      *)
(* write then has to come back as a change event (reconciler), and the     *)
(* recovery event that documents it has to be sealed, anchored and         *)
(* verified before the request is SUCCEEDED and the incident RESOLVED.     *)
(*                                                                         *)
(* Time is the position in logs: db_timestamp is set when a log is         *)
(* inserted, so the logs after a moment are those behind Len(logs).        *)
(* A state of the row stands for its canonical hash; a DELETE is recovery  *)
(* to the state "no row".  Faulty outcomes spend one unit of MaxFaults.    *)
(***************************************************************************)
EXTENDS Integers, Sequences, FiniteSets

CONSTANTS
  States,        \* states of the client row
  Original,      \* the state of the row and of its first audit log
  Requests,      \* recovery requests
  Reconcilers,   \* gateways, each with a reconciler goroutine
  Pipelines,     \* gateways, each with a pipeline goroutine
  Users,         \* callers of the verification endpoint
  Client,        \* author of a change that is not a recovery
  MaxWrites,     \* bound on changes by the client
  MaxIncidents,  \* bound on incidents
  MaxFaults      \* bound on errors, lost calls and crashes

ASSUME RecoveryAssumption ==
  /\ Original \in States
  /\ Users \cap Pipelines = {} /\ Client \notin Requests
  /\ MaxWrites \in Nat /\ MaxIncidents \in Nat /\ MaxFaults \in Nat

VARIABLES
  source,     \* the row in the client's database
  stream,     \* changes of the row that are not logged yet
  logs,       \* audit_logs of the row, in db_timestamp order
  incidents,  \* tamper_incidents of the row, scope CLIENT_SOURCE, of one type
  req,        \* recovery_requests
  ev,         \* recovery_events, one per request
  exec,       \* the execute handler of each request
  command,    \* the command of each request at the Agent
  decision,   \* what the reconciler of each gateway is about to write
  sealing,    \* events ProcessRecoveryBatch of each gateway has read
  check,      \* verification of an event in progress
  writes, faults

world == <<source, stream, logs>>
pipe == <<sealing, check>>
vars == <<world, incidents, req, ev, exec, command, decision, pipe, writes, faults>>

-----------------------------------------------------------------------------

Active == {"PENDING_EXECUTION", "EXECUTING", "APPLIED_AWAITING_CDC"}
Failed == {"FAILED_VERIFICATION", "FAILED_EXECUTION"}
Terminal == Failed \cup {"SUCCEEDED", "APPLIED_CDC_TIMEOUT"}
FinalCdc == {"CONFIRMED", "CONFLICT", "TIMEOUT"}

NoRequest == [status |-> "NONE", incident |-> 0, target |-> 0, desired |-> Original,
              before |-> Original, cdc |-> "PENDING", since |-> 0, until |-> 0,
              result |-> 0, overdue |-> FALSE]
NoEvent == [result |-> "NONE", cdc |-> "PENDING", log |-> 0, pipeline |-> "HASHED",
            root |-> {}, leaf |-> <<>>, integrity |-> "NOT_CHECKED"]
NoDecision == [kind |-> "none", request |-> {}, log |-> 0]
NoCheck == [pc |-> "idle", request |-> {}, copy |-> NoEvent]
NoBatch == [r \in {} |-> <<>>]

Spend == faults < MaxFaults /\ faults' = faults + 1
Goto(r, pc) == exec' = [exec EXCEPT ![r] = pc]

Init ==
  /\ source = Original
  /\ stream = <<>>
  /\ logs = <<[state |-> Original, by |-> Client, anchored |-> TRUE]>>
  /\ incidents = <<>>
  /\ req = [r \in Requests |-> NoRequest]
  /\ ev = [r \in Requests |-> NoEvent]
  /\ exec = [r \in Requests |-> "none"]
  /\ command = [r \in Requests |-> "none"]
  /\ decision = [g \in Reconcilers |-> NoDecision]
  /\ sealing = [g \in Pipelines |-> NoBatch]
  /\ check = [v \in Pipelines \cup Users |-> NoCheck]
  /\ writes = 0 /\ faults = 0

-----------------------------------------------------------------------------
(* The client changes the row; a change that its connector does not        *)
(* capture never becomes a log.                                            *)

ClientWrites(s, captured) ==
  /\ s # source
  /\ writes < MaxWrites /\ writes' = writes + 1
  /\ source' = s
  /\ stream' = IF captured THEN Append(stream, [state |-> s, by |-> Client]) ELSE stream
  /\ UNCHANGED <<logs, incidents, req, ev, exec, command, decision, pipe, faults>>

(* The consumer logs the next change, or loses it to an error.             *)
Ingest ==
  /\ stream # <<>>
  /\ stream' = Tail(stream)
  /\ \/ /\ logs' = Append(logs, [state |-> Head(stream).state, by |-> Head(stream).by,
                                 anchored |-> FALSE])
        /\ UNCHANGED faults
     \/ Spend /\ UNCHANGED logs
  /\ UNCHANGED <<source, incidents, req, ev, exec, command, decision, pipe, writes>>

AnchorLog(i) ==
  /\ ~logs[i].anchored
  /\ logs' = [logs EXCEPT ![i].anchored = TRUE]
  /\ UNCHANGED <<source, stream, incidents, req, ev, exec, command, decision, pipe, writes, faults>>

(* Verification of the latest log finds a different row: an open incident  *)
(* is pointed to this log, otherwise a new one is opened.                  *)
Latest == Len(logs)

OpenIncident ==
  LET open == {i \in DOMAIN incidents : incidents[i].status = "OPEN"}
      entry == [status |-> "OPEN", ref |-> Latest]
  IN /\ logs[Latest].anchored
     /\ source # logs[Latest].state
     /\ \/ open # {} /\ incidents' = [i \in DOMAIN incidents |-> IF i \in open THEN entry ELSE incidents[i]]
        \/ open = {} /\ Len(incidents) < MaxIncidents /\ incidents' = Append(incidents, entry)
     /\ UNCHANGED <<world, req, ev, exec, command, decision, pipe, writes, faults>>

-----------------------------------------------------------------------------
(* createDirectRequest: the checks, then the insert, which a unique index  *)
(* on the active requests of the row may refuse.                           *)

ActiveRequests == {r \in Requests : req[r].status \in Active}

(* loadDirectReference: the incident points to the latest log, which has   *)
(* its evidence.                                                           *)
Supported(i) ==
  incidents[i].status = "OPEN" /\ incidents[i].ref = Latest /\ logs[Latest].anchored

(* directSourceMatches: the row the Agent reads is the one wanted.         *)
SourceMatches(desired) == source = desired

Prepare(r, i) ==
  /\ req[r].status = "NONE"
  /\ Supported(i) /\ ~SourceMatches(logs[Latest].state)
  /\ ActiveRequests = {}
  /\ req' = [req EXCEPT ![r] = [NoRequest EXCEPT !.status = "DRAFT", !.incident = i,
                                  !.target = Latest, !.desired = logs[Latest].state,
                                  !.before = source]]
  /\ UNCHANGED <<world, incidents, ev, exec, command, decision, pipe, writes, faults>>

InsertRequest(r) ==
  /\ req[r].status = "DRAFT"
  /\ req' = [req EXCEPT ![r] = IF ActiveRequests = {}
                               THEN [@ EXCEPT !.status = "PENDING_EXECUTION"] ELSE NoRequest]
  /\ UNCHANGED <<world, incidents, ev, exec, command, decision, pipe, writes, faults>>

-----------------------------------------------------------------------------
(* executeDirect.  The claim may be committed and its reply lost.          *)

Claim(r) ==
  /\ req[r].status = "PENDING_EXECUTION"
  /\ req' = [req EXCEPT ![r].status = "EXECUTING"]
  /\ \/ Goto(r, "claimed") /\ UNCHANGED faults
     \/ Goto(r, "ended") /\ Spend
  /\ UNCHANGED <<world, incidents, ev, command, decision, pipe, writes>>

(* The incident is open, the frozen log still agrees with Fabric, and the  *)
(* row is in the frozen state; Fabric, the Agent (a failed verification)   *)
(* or the database (a failed execution) may not answer.                    *)
Executable(r) ==
  /\ incidents[req[r].incident].status = "OPEN"
  /\ logs[req[r].target].anchored
  /\ source = req[r].before

Revalidate(r) ==
  /\ exec[r] = "claimed"
  /\ \/ /\ Executable(r)
        /\ Goto(r, "sent")
        /\ command' = [command EXCEPT ![r] = "pending"]
        /\ UNCHANGED faults
     \/ /\ Executable(r) => Spend
        /\ ~Executable(r) => UNCHANGED faults
        /\ Goto(r, "fail_verification")
        /\ UNCHANGED command
     \/ Spend /\ Goto(r, "fail_execution") /\ UNCHANGED command
  /\ UNCHANGED <<world, incidents, req, ev, decision, pipe, writes>>

(* The Agent writes the row if it is in the expected state; its write is   *)
(* captured like any other change.  It may do so after its caller gave up. *)
AgentExecutes(r) ==
  /\ command[r] = "pending"
  /\ IF source = req[r].before
     THEN /\ source' = req[r].desired
          /\ stream' = Append(stream, [state |-> req[r].desired, by |-> r])
          /\ command' = [command EXCEPT ![r] = "written"]
     ELSE command' = [command EXCEPT ![r] = "refused"] /\ UNCHANGED <<source, stream>>
  /\ UNCHANGED <<logs, incidents, req, ev, exec, decision, pipe, writes, faults>>

(* The reply arrives: agent_applied_at is the time of the Gateway now.     *)
AgentReplies(r) ==
  /\ exec[r] = "sent"
  /\ \/ /\ command[r] = "written"
        /\ Goto(r, "replied")
        /\ req' = [req EXCEPT ![r].since = Len(logs)]
     \/ /\ command[r] = "refused"
        /\ Goto(r, "fail_verification")
        /\ UNCHANGED req
  /\ UNCHANGED <<world, incidents, ev, command, decision, pipe, writes, faults>>

AgentFailureAsVerification(r) ==   \* a bug: a lost reply counts as "nothing was written"
  /\ exec[r] = "sent"
  /\ Goto(r, "fail_verification")
  /\ UNCHANGED <<world, incidents, req, ev, command, decision, pipe, writes, faults>>

(* The call times out or its reply is lost, whatever the Agent does.       *)
AgentUnreachable(r) ==
  /\ exec[r] = "sent"
  /\ Goto(r, "fail_execution")
  /\ UNCHANGED <<world, incidents, req, ev, command, decision, pipe, writes, faults>>

(* persistDirectApplied: the event is inserted (request_id is unique) and  *)
(* the request moved on, if it is EXECUTING still.                         *)
Persist(r) ==
  /\ exec[r] = "replied"
  /\ IF req[r].status = "EXECUTING" /\ ev[r] = NoEvent
     THEN /\ req' = [req EXCEPT ![r].status = "APPLIED_AWAITING_CDC"]
          /\ ev' = [ev EXCEPT ![r].result = "APPLIED_AWAITING_CDC"]
          /\ Goto(r, "ended")
     ELSE Goto(r, "fail_execution") /\ UNCHANGED <<req, ev>>
  /\ UNCHANGED <<world, incidents, command, decision, pipe, writes, faults>>

PersistFails(r) ==
  /\ exec[r] = "replied"
  /\ Spend
  /\ Goto(r, "fail_execution")
  /\ UNCHANGED <<world, incidents, req, ev, command, decision, pipe, writes>>

(* failDirectRequest: nothing, unless the request is EXECUTING.  The event *)
(* has an empty recovered_metadata, which the database is assumed to take. *)
FailAs(r, status) ==
  IF req[r].status = "EXECUTING"
  THEN /\ req' = [req EXCEPT ![r].status = status]
       /\ ev' = [ev EXCEPT ![r].result = status, ![r].cdc = "CONFLICT"]
  ELSE UNCHANGED <<req, ev>>

FailRequest(r) ==
  /\ exec[r] \in {"fail_verification", "fail_execution"}
  /\ \/ /\ FailAs(r, IF exec[r] = "fail_verification" THEN "FAILED_VERIFICATION" ELSE "FAILED_EXECUTION")
        /\ UNCHANGED faults
     \/ Spend /\ UNCHANGED <<req, ev>>
  /\ Goto(r, "ended")
  /\ UNCHANGED <<world, incidents, command, decision, pipe, writes>>

-----------------------------------------------------------------------------
(* ReconcilePendingCDC, first half: an execution that has not ended within *)
(* the timeout is given up.  While its handler lives, this is a fault.     *)

Overdue(r) ==
  /\ req[r].status = "EXECUTING" /\ ~req[r].overdue
  /\ IF exec[r] = "ended" THEN UNCHANGED faults ELSE Spend
  /\ req' = [req EXCEPT ![r].overdue = TRUE]
  /\ UNCHANGED <<world, incidents, ev, exec, command, decision, pipe, writes>>

GiveUp(r) ==
  /\ req[r].status = "EXECUTING" /\ req[r].overdue
  /\ FailAs(r, "FAILED_EXECUTION")
  /\ UNCHANGED <<world, incidents, exec, command, decision, pipe, writes, faults>>

(* Second half: look for the log of the write among the logs between       *)
(* agent_applied_at and the deadline, then record what was found, if the   *)
(* request is still waiting.                                               *)
Waiting(r) == req[r].status = "APPLIED_AWAITING_CDC" /\ req[r].cdc = "PENDING"

DeadlinePasses(r) ==
  /\ Waiting(r) /\ req[r].until = 0
  /\ req' = [req EXCEPT ![r].until = Len(logs)]
  /\ UNCHANGED <<world, incidents, ev, exec, command, decision, pipe, writes, faults>>

Window(r) == (req[r].since + 1)..(IF req[r].until = 0 THEN Len(logs) ELSE req[r].until)

Candidates(r) == {i \in Window(r) \ {req[r].target} : logs[i].state = req[r].desired}

NeverTimesOut(r) ==   \* a bug: no deadline
  IF Candidates(r) = {} THEN NoDecision
  ELSE [kind |-> "confirm", request |-> {r},
        log |-> CHOOSE i \in Candidates(r) : \A k \in Candidates(r) : i <= k]

Decided(r) ==
  IF Candidates(r) # {}
  THEN [kind |-> "confirm", request |-> {r},
        log |-> CHOOSE i \in Candidates(r) : \A k \in Candidates(r) : i <= k]
  ELSE IF req[r].until > 0 THEN [kind |-> "timeout", request |-> {r}, log |-> 0]
  ELSE NoDecision

Reconcile(g, r) ==
  /\ decision[g] = NoDecision
  /\ Waiting(r)
  /\ Decided(r) # NoDecision
  /\ decision' = [decision EXCEPT ![g] = Decided(r)]
  /\ UNCHANGED <<world, incidents, req, ev, exec, command, pipe, writes, faults>>

Decide(g) == decision' = [decision EXCEPT ![g] = NoDecision]

ConfirmUnchecked(g, r) ==   \* a bug: the request is not looked at again under its lock
  /\ r \in decision[g].request /\ decision[g].kind = "confirm"
  /\ req' = [req EXCEPT ![r].cdc = "CONFIRMED", ![r].result = decision[g].log,
                        ![r].status = "APPLIED_AWAITING_CDC"]
  /\ ev' = [ev EXCEPT ![r].result = "SUCCEEDED", ![r].cdc = "CONFIRMED", ![r].log = decision[g].log]
  /\ Decide(g)
  /\ UNCHANGED <<world, incidents, exec, command, pipe, writes, faults>>

MarkConfirmed(g, r) ==
  /\ r \in decision[g].request /\ decision[g].kind = "confirm"
  /\ IF Waiting(r)
     THEN /\ req' = [req EXCEPT ![r].cdc = "CONFIRMED", ![r].result = decision[g].log]
          /\ ev' = [ev EXCEPT ![r].result = "SUCCEEDED", ![r].cdc = "CONFIRMED",
                              ![r].log = decision[g].log]
     ELSE UNCHANGED <<req, ev>>
  /\ Decide(g)
  /\ UNCHANGED <<world, incidents, exec, command, pipe, writes, faults>>

MarkTimeout(g, r) ==
  /\ r \in decision[g].request /\ decision[g].kind = "timeout"
  /\ IF Waiting(r)
     THEN /\ req' = [req EXCEPT ![r].cdc = "TIMEOUT", ![r].status = "APPLIED_CDC_TIMEOUT"]
          /\ ev' = [ev EXCEPT ![r].result = "APPLIED_CDC_TIMEOUT", ![r].cdc = "TIMEOUT"]
     ELSE UNCHANGED <<req, ev>>
  /\ Decide(g)
  /\ UNCHANGED <<world, incidents, exec, command, pipe, writes, faults>>

(* The transaction fails; the next tick of the reconciler tries again.     *)
MarkFails(g) ==
  /\ decision[g] # NoDecision
  /\ Spend
  /\ Decide(g)
  /\ UNCHANGED <<world, incidents, req, ev, exec, command, pipe, writes>>

-----------------------------------------------------------------------------
(* ProcessRecoveryBatch and AnchorPendingRecoveryRoots: an event may enter *)
(* a tree when its CDC status is final.                                    *)

Content(e) == <<e.result, e.cdc, e.log>>   \* what event_hash commits to

SealableEarly ==   \* a bug: no filter on the CDC status
  {r \in Requests : ev[r] # NoEvent /\ ev[r].pipeline = "HASHED"}

SealableEvents ==
  {r \in Requests : ev[r] # NoEvent /\ ev[r].pipeline = "HASHED" /\ ev[r].cdc \in FinalCdc}

ReadEvents(g) ==
  /\ sealing[g] = NoBatch
  /\ SealableEvents # {}
  /\ sealing' = [sealing EXCEPT ![g] = [r \in SealableEvents |-> Content(ev[r])]]
  /\ UNCHANGED <<world, incidents, req, ev, exec, command, decision, check, writes, faults>>

SealEvents(g) ==
  LET batch == DOMAIN sealing[g] IN
  /\ batch # {}
  /\ \/ /\ \A r \in batch : ev[r].pipeline = "HASHED"
        /\ ev' = [r \in Requests |->
                    IF r \in batch THEN [ev[r] EXCEPT !.pipeline = "AGGREGATED", !.root = batch,
                                                      !.leaf = sealing[g][r]]
                    ELSE ev[r]]
        /\ UNCHANGED faults
     \/ /\ IF \A r \in batch : ev[r].pipeline = "HASHED" THEN Spend ELSE UNCHANGED faults
        /\ UNCHANGED ev
  /\ sealing' = [sealing EXCEPT ![g] = NoBatch]
  /\ UNCHANGED <<world, incidents, req, exec, command, decision, check, writes>>

AnchorRoot(root) ==
  /\ \E r \in Requests : ev[r].pipeline = "AGGREGATED" /\ ev[r].root = root
  /\ ev' = [r \in Requests |->
              IF ev[r].pipeline = "AGGREGATED" /\ ev[r].root = root
              THEN [ev[r] EXCEPT !.pipeline = "ANCHORED"] ELSE ev[r]]
  /\ UNCHANGED <<world, incidents, req, exec, command, decision, pipe, writes, faults>>

-----------------------------------------------------------------------------
(* VerifyReadyEvents after each tick, and VerifyEvent whenever the user    *)
(* calls it: read the event, check its proof and anchor, write the         *)
(* verdict, and after VALID finalise the request.                          *)

Ready(r) ==
  /\ ev[r].pipeline = "ANCHORED" /\ ev[r].integrity \in {"NOT_CHECKED", "PENDING"}
  /\ ev[r].cdc \in FinalCdc

ReadEvent(v, r) ==
  /\ check[v] = NoCheck
  /\ ev[r] # NoEvent
  /\ v \in Users \/ Ready(r)
  /\ check' = [check EXCEPT ![v] = [pc |-> "verify", request |-> {r}, copy |-> ev[r]]]
  /\ UNCHANGED <<world, incidents, req, ev, exec, command, decision, sealing, writes, faults>>

VerdictOfProof(e) ==   \* a bug: a root that is not anchored yet will do
  IF e.leaf = Content(e) THEN "VALID" ELSE "PENDING"

Verdict(e) ==
  IF e.pipeline # "ANCHORED" THEN "PENDING"
  ELSE IF e.leaf = Content(e) THEN "VALID" ELSE "TAMPERED"

LeaveCheck(v) == check' = [check EXCEPT ![v] = NoCheck]

VerifyEvent(v, r) ==
  /\ check[v].pc = "verify" /\ r \in check[v].request
  /\ LET verdict == Verdict(check[v].copy)
     IN /\ ev' = [ev EXCEPT ![r].integrity = verdict]
        /\ IF verdict = "VALID" THEN check' = [check EXCEPT ![v].pc = "finalize"] ELSE LeaveCheck(v)
  /\ UNCHANGED <<world, incidents, req, exec, command, decision, sealing, writes, faults>>

(* Fabric does not answer, or the verdict cannot be stored.                *)
VerifyFails(v, r) ==
  /\ check[v].pc = "verify" /\ r \in check[v].request
  /\ Spend
  /\ ev' \in {ev, [ev EXCEPT ![r].integrity = "UNREACHABLE"]}
  /\ LeaveCheck(v)
  /\ UNCHANGED <<world, incidents, req, exec, command, decision, sealing, writes>>

(* finalizeDirectRecoveryIfVerified                                        *)
Finalizable(v, r) ==
  /\ check[v].copy.cdc = "CONFIRMED" /\ check[v].copy.log # 0
  /\ req[r].status = "APPLIED_AWAITING_CDC" /\ req[r].cdc = "CONFIRMED"

FinalizeRequestOnly(v, r) ==   \* a bug: the incident is forgotten
  /\ check[v].pc = "finalize" /\ r \in check[v].request
  /\ IF Finalizable(v, r)
     THEN req' = [req EXCEPT ![r].status = "SUCCEEDED", ![r].result = check[v].copy.log]
     ELSE UNCHANGED req
  /\ LeaveCheck(v)
  /\ UNCHANGED <<world, incidents, ev, exec, command, decision, sealing, writes, faults>>

Finalize(v, r) ==
  /\ check[v].pc = "finalize" /\ r \in check[v].request
  /\ IF Finalizable(v, r)
     THEN /\ req' = [req EXCEPT ![r].status = "SUCCEEDED", ![r].result = check[v].copy.log]
          /\ incidents' = [incidents EXCEPT ![req[r].incident].status = "RESOLVED"]
     ELSE UNCHANGED <<req, incidents>>
  /\ LeaveCheck(v)
  /\ UNCHANGED <<world, ev, exec, command, decision, sealing, writes, faults>>

FinalizeFails(v, r) ==
  /\ check[v].pc = "finalize" /\ r \in check[v].request
  /\ Spend
  /\ LeaveCheck(v)
  /\ UNCHANGED <<world, incidents, req, ev, exec, command, decision, sealing, writes>>

-----------------------------------------------------------------------------
(* A gateway dies: its goroutines forget what they held, and any of the    *)
(* execute handlers may have been in it.                                   *)

Running == {r \in Requests : exec[r] \notin {"none", "ended"}}

Restarted(f, g, nothing) == [h \in DOMAIN f |-> IF h = g THEN nothing ELSE f[h]]

Crash(g, handlers) ==
  /\ Spend
  /\ exec' = [r \in Requests |-> IF r \in handlers THEN "ended" ELSE exec[r]]
  /\ decision' = Restarted(decision, g, NoDecision)
  /\ sealing' = Restarted(sealing, g, NoBatch)
  /\ check' = Restarted(check, g, NoCheck)
  /\ <<exec, decision, pipe>>' # <<exec, decision, pipe>>
  /\ UNCHANGED <<world, incidents, req, ev, command, writes>>

-----------------------------------------------------------------------------

Handler(r) ==
  \/ Revalidate(r)
  \/ AgentReplies(r) \/ AgentUnreachable(r)
  \/ Persist(r) \/ PersistFails(r)
  \/ FailRequest(r)

Reconciler(g) ==
  \/ \E r \in Requests : Reconcile(g, r) \/ MarkConfirmed(g, r) \/ MarkTimeout(g, r)
  \/ MarkFails(g)

Verify(v, r) ==
  \/ ReadEvent(v, r)
  \/ VerifyEvent(v, r) \/ VerifyFails(v, r)
  \/ Finalize(v, r) \/ FinalizeFails(v, r)

TimePasses(r) == Overdue(r) \/ DeadlinePasses(r)

Next ==
  \/ \E s \in States, captured \in BOOLEAN : ClientWrites(s, captured)
  \/ Ingest \/ OpenIncident
  \/ \E i \in DOMAIN logs : AnchorLog(i)
  \/ \E r \in Requests :
       \/ \E i \in DOMAIN incidents : Prepare(r, i)
       \/ InsertRequest(r) \/ Claim(r) \/ Handler(r) \/ AgentExecutes(r)
       \/ TimePasses(r) \/ GiveUp(r)
       \/ \E v \in Pipelines \cup Users : Verify(v, r)
  \/ \E g \in Reconcilers : Reconciler(g)
  \/ \E g \in Pipelines : ReadEvents(g) \/ SealEvents(g)
  \/ \E g \in Reconcilers \cup Pipelines, handlers \in SUBSET Running : Crash(g, handlers)
  \/ \E root \in SUBSET Requests : AnchorRoot(root)

(* The tickers of the gateways and the clock never stop, the consumer      *)
(* reads on, and the calls of a handler return or time out.  No client, no *)
(* user and no Agent has to do anything.                                   *)
Fairness ==
  /\ WF_vars(Ingest)
  /\ \A r \in Requests :
       /\ WF_vars(Handler(r)) /\ WF_vars(TimePasses(r)) /\ WF_vars(GiveUp(r))
       /\ \A g \in Pipelines : WF_vars(Verify(g, r))
  /\ \A g \in Reconcilers : WF_vars(Reconciler(g))
  /\ \A g \in Pipelines : WF_vars(ReadEvents(g)) /\ WF_vars(SealEvents(g))
  /\ \A root \in SUBSET Requests : WF_vars(AnchorRoot(root))

Spec == Init /\ [][Next]_vars /\ Fairness

-----------------------------------------------------------------------------
(* Properties.                                                             *)

Cdc == FinalCdc \cup {"PENDING"}
Results == Terminal \cup {"NONE", "APPLIED_AWAITING_CDC"}

Request ==
  [status : Active \cup Terminal \cup {"NONE", "DRAFT"}, incident : Nat, target : Nat,
   desired : States, before : States, cdc : Cdc, since : Nat, until : Nat, result : Nat,
   overdue : BOOLEAN]

Event ==
  [result : Results, cdc : Cdc, log : Nat, pipeline : {"HASHED", "AGGREGATED", "ANCHORED"},
   root : SUBSET Requests, leaf : {<<>>} \cup (Results \X Cdc \X Nat),
   integrity : {"NOT_CHECKED", "PENDING", "VALID", "TAMPERED", "UNREACHABLE"}]

Change == [state : States, by : Requests \cup {Client}]
Log == [state : States, by : Requests \cup {Client}, anchored : BOOLEAN]
Incident == [status : {"OPEN", "RESOLVED"}, ref : Nat]

WorldOK ==
  /\ source \in States
  /\ stream \in Seq(Change)
  /\ logs \in Seq(Log) /\ Len(logs) > 0
  /\ incidents \in Seq(Incident)
  /\ \A i \in DOMAIN incidents : incidents[i].ref \in DOMAIN logs

PositionsOK(q) ==
  /\ q.status # "NONE" => q.incident \in DOMAIN incidents /\ q.target \in DOMAIN logs
  /\ q.since <= Len(logs) /\ q.until <= Len(logs)

RequestsOK == req \in [Requests -> Request] /\ \A r \in Requests : PositionsOK(req[r])

EventsOK == ev \in [Requests -> Event]

ExecutionsOK ==
  /\ exec \in [Requests -> {"none", "claimed", "sent", "replied", "fail_verification",
                            "fail_execution", "ended"}]
  /\ command \in [Requests -> {"none", "pending", "written", "refused"}]

DecisionsOK ==
  decision \in [Reconcilers -> [kind : {"none", "confirm", "timeout"},
                               request : SUBSET Requests, log : 0..Len(logs)]]

SealingOK ==
  /\ sealing = [g \in Pipelines |-> sealing[g]]
  /\ \A g \in Pipelines :
       /\ DOMAIN sealing[g] \subseteq Requests
       /\ \A r \in DOMAIN sealing[g] : sealing[g][r] \in Results \X Cdc \X Nat

ChecksOK ==
  check \in [Pipelines \cup Users -> [pc : {"idle", "verify", "finalize"},
                                     request : SUBSET Requests, copy : Event]]

BoundsOK == writes \in 0..MaxWrites /\ faults \in 0..MaxFaults

(* Every variable has its type, and the positions a request is based on    *)
(* are those of logs and incidents that exist.                             *)
TypeOK ==
  /\ WorldOK /\ RequestsOK /\ EventsOK /\ ExecutionsOK
  /\ DecisionsOK /\ SealingOK /\ ChecksOK /\ BoundsOK

(* SUCCEEDED means that all of it happened: the Agent wrote the row, a     *)
(* change to the frozen state was logged after that, and the anchored      *)
(* evidence names this very log.                                           *)
SucceededIsProven ==
  \A r \in Requests : req[r].status = "SUCCEEDED" =>
    /\ command[r] = "written"
    /\ req[r].result > req[r].since /\ logs[req[r].result].state = req[r].desired
    /\ ev[r].pipeline = "ANCHORED"
    /\ ev[r].leaf = <<"SUCCEEDED", "CONFIRMED", req[r].result>>

(* An incident is closed by a recovery that succeeded, and by nothing else.*)
ClosedByRecovery ==
  \A i \in DOMAIN incidents :
    incidents[i].status = "RESOLVED"
      <=> \E r \in Requests : req[r].status = "SUCCEEDED" /\ req[r].incident = i

(* FAILED_VERIFICATION tells the client that its row was not touched: no   *)
(* command of the request has written it or ever will.                     *)
FailedVerificationNeverWrote ==
  \A r \in Requests :
    req[r].status = "FAILED_VERIFICATION" => command[r] \in {"none", "refused"}

(* Evidence does not change after it was sealed, although the event is     *)
(* rewritten by the reconciler: the leaf is its content, and without       *)
(* tampering no verification ever calls it tampered.                       *)
EvidenceIsFinal ==
  \A r \in Requests :
    /\ ev[r].pipeline # "HASHED" => ev[r].leaf = Content(ev[r])
    /\ ev[r].integrity # "TAMPERED"

(* An outcome once reported stays: no reconciler, handler or verification  *)
(* that comes late turns it into another.                                  *)
OutcomeIsFinal ==
  [][\A r \in Requests : req[r].status \in Terminal => req'[r].status = req[r].status]_vars

(* Nobody waits for ever: an execution ends and a wait for the change      *)
(* event ends, also when the gateway died in between.                      *)
Undecided(r) == req[r].status = "EXECUTING" \/ Waiting(r)

EventuallyDecided == \A r \in Requests : Undecided(r) ~> ~Undecided(r)
=============================================================================
