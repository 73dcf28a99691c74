----------------------- MODULE DirectRecovery_proofs -----------------------
(***************************************************************************)
(* Proofs about DirectRecovery, for any states of the row, any number of   *)
(* requests, gateways and users, and any number of faults.                 *)
(***************************************************************************)
EXTENDS DirectRecovery, FiniteSetTheorems, WellFoundedInduction, TLAPS

-----------------------------------------------------------------------------
(* The inductive invariant.                                                *)

Unsent == {"NONE", "DRAFT", "PENDING_EXECUTION"}
Applied == {"APPLIED_AWAITING_CDC", "APPLIED_CDC_TIMEOUT", "SUCCEEDED"}

(* What a handler believes of its command is true of the command, and a    *)
(* request that was reported on has no handler that could still send one.  *)
HandlerKnowsCommand ==
  \A r \in Requests :
    /\ req[r].status \in Unsent => exec[r] = "none"
    /\ exec[r] \in {"none", "claimed"} => command[r] = "none"
    /\ exec[r] = "replied" => command[r] = "written"
    /\ exec[r] = "fail_verification" => command[r] \in {"none", "refused"}
    /\ req[r].status \in Applied => exec[r] = "ended" /\ command[r] = "written"
    /\ req[r].status = "FAILED_VERIFICATION" =>
         exec[r] = "ended" /\ command[r] \in {"none", "refused"}

(* A log that the write of the request can have caused.                    *)
Proves(i, r) == i \in DOMAIN logs /\ i > req[r].since /\ logs[i].state = req[r].desired

(* Request and event tell the same story.                                  *)
EventFollowsRequest ==
  \A r \in Requests :
    /\ ev[r].result = "NONE" => req[r].status \in Unsent \cup {"EXECUTING"}
    /\ req[r].status \in Unsent \cup {"EXECUTING"} => ev[r] = NoEvent /\ req[r].cdc = "PENDING"
    /\ Waiting(r) => ev[r].cdc = "PENDING"
    /\ req[r].status = "APPLIED_AWAITING_CDC" => req[r].cdc \in {"PENDING", "CONFIRMED"}
    /\ req[r].status \in {"APPLIED_AWAITING_CDC", "SUCCEEDED"} /\ req[r].cdc = "CONFIRMED" =>
         /\ ev[r].result = "SUCCEEDED" /\ ev[r].cdc = "CONFIRMED" /\ ev[r].log = req[r].result
         /\ Proves(req[r].result, r)
    /\ req[r].status = "SUCCEEDED" => req[r].cdc = "CONFIRMED" /\ ev[r].pipeline = "ANCHORED"

(* Only a final event is read for a tree, and it does not change any more. *)
SealedIsFinal ==
  /\ \A r \in Requests :
       /\ ev[r].pipeline # "HASHED" => ev[r].cdc \in FinalCdc /\ ev[r].leaf = Content(ev[r])
       /\ ev[r].integrity # "TAMPERED"
  /\ \A g \in Pipelines : \A r \in DOMAIN sealing[g] :
       ev[r].cdc \in FinalCdc /\ sealing[g][r] = Content(ev[r])

(* What a verification holds of an anchored event is what it still is.     *)
ChecksAreCurrent ==
  \A v \in Pipelines \cup Users :
    /\ check[v].copy.pipeline # "HASHED" => check[v].copy.leaf = Content(check[v].copy)
    /\ check[v].pc = "finalize" => check[v].copy.pipeline = "ANCHORED"
    /\ \A r \in check[v].request :
         /\ ev[r].result # "NONE"
         /\ check[v].copy.pipeline = "ANCHORED" =>
              ev[r].pipeline = "ANCHORED" /\ Content(ev[r]) = Content(check[v].copy)

(* What a reconciler is about to confirm stays true until it does.         *)
DecisionStands ==
  \A g \in Reconcilers : \A r \in decision[g].request :
    /\ req[r].status \in Applied
    /\ decision[g].kind = "confirm" => Proves(decision[g].log, r)

RecoveryInv ==
  /\ TypeOK /\ HandlerKnowsCommand /\ EventFollowsRequest /\ SealedIsFinal
  /\ ChecksAreCurrent /\ DecisionStands /\ ClosedByRecovery

-----------------------------------------------------------------------------
(* The steps, by whom they are taken.                                      *)

WorldStep ==
  \/ \E s \in States, captured \in BOOLEAN : ClientWrites(s, captured)
  \/ Ingest \/ OpenIncident \/ \E i \in DOMAIN logs : AnchorLog(i)

RequestStep(r) ==
  \/ \E i \in DOMAIN incidents : Prepare(r, i)
  \/ InsertRequest(r) \/ Claim(r) \/ Handler(r) \/ AgentExecutes(r)
  \/ TimePasses(r) \/ GiveUp(r)

GatewayStep ==
  \/ \E g \in Reconcilers : Reconciler(g)
  \/ \E g \in Pipelines : ReadEvents(g) \/ SealEvents(g)
  \/ \E root \in SUBSET Requests : AnchorRoot(root)
  \/ \E g \in Reconcilers \cup Pipelines, handlers \in SUBSET Running : Crash(g, handlers)

VerifyStep == \E r \in Requests, v \in Pipelines \cup Users : Verify(v, r)

LEMMA Steps ==
  Next => WorldStep \/ (\E r \in Requests : RequestStep(r)) \/ GatewayStep \/ VerifyStep
BY DEF Next, WorldStep, RequestStep, GatewayStep, VerifyStep

-----------------------------------------------------------------------------
(* A set of natural numbers that is not empty has a smallest element: the  *)
(* reconciler takes the first log that matches.                            *)
LEMMA SmallestExists ==
  ASSUME NEW T \in SUBSET Nat, T # {}
  PROVE  \E x \in T : \A y \in T : x <= y
<1> DEFINE R == StrictSubsetOrdering(Nat)
           F == FiniteSubsetsOf(Nat)
           I == {0..x : x \in T}
<1>1. I \subseteq F /\ I # {}
  <2>1. ASSUME NEW x \in T PROVE (0..x) \subseteq Nat /\ IsFiniteSet(0..x)
    BY FS_Interval
  <2> QED BY <2>1 DEF FiniteSubsetsOf
<1>2. IsWellFoundedOn(R, F)
  BY FS_StrictSubsetOrderingWellFounded
<1>3. PICK s \in I : \A t \in I : ~(<<t, s>> \in R)
  <2> HIDE DEF R, F, I
  <2> QED BY <1>1, <1>2, WFMin
<1>4. PICK x \in T : s = 0..x
  OBVIOUS
<1>5. ASSUME NEW y \in T, y < x PROVE FALSE
  <2>1. 0..y \in I /\ 0..y \subseteq 0..x /\ 0..y # 0..x /\ 0..x \subseteq Nat
    BY <1>5
  <2> QED BY <2>1, <1>3, <1>4 DEF StrictSubsetOrdering
<1> QED BY <1>5

(* What a reconciler decides: to confirm the first log in the window that  *)
(* has the frozen state, or to report a timeout.                           *)
LEMMA DecidedChooses ==
  ASSUME WorldOK, RequestsOK, NEW r \in Requests
  PROVE  /\ Decided(r) \in [kind : {"none", "confirm", "timeout"}, request : SUBSET Requests,
                           log : 0..Len(logs)]
         /\ Decided(r).request \subseteq {r}
         /\ Decided(r).kind = "confirm" => Proves(Decided(r).log, r)
<1>1. Len(logs) \in Nat /\ DOMAIN logs = 1..Len(logs)
  BY DEF WorldOK
<1>2. req[r].since \in Nat /\ req[r].until \in Nat /\ req[r].until <= Len(logs)
  BY DEF RequestsOK, Request, PositionsOK
<1>3. \A i \in Candidates(r) : i \in Nat /\ Proves(i, r)
  BY <1>1, <1>2 DEF Candidates, Window, Proves
<1>4. CASE Candidates(r) # {}
  <2> DEFINE first == CHOOSE i \in Candidates(r) : \A k \in Candidates(r) : i <= k
  <2>1. Candidates(r) \in SUBSET Nat
    BY <1>3
  <2>2. first \in Candidates(r)
    BY <2>1, <1>4, SmallestExists
  <2>3. Proves(first, r) /\ first \in 0..Len(logs)
    BY <2>2, <1>1, <1>3 DEF Proves
  <2>4. Decided(r) = [kind |-> "confirm", request |-> {r}, log |-> first]
    BY <1>4 DEF Decided
  <2> HIDE DEF first
  <2> QED BY <2>3, <2>4
<1>5. CASE Candidates(r) = {}
  BY <1>1, <1>5 DEF Decided, NoDecision
<1> QED BY <1>4, <1>5

-----------------------------------------------------------------------------
(* Type correctness.                                                       *)

LEMMA SpendInBudget == BoundsOK /\ Spend => faults' \in 0..MaxFaults
BY RecoveryAssumption DEF BoundsOK, Spend

LEMMA EmptyTypes ==
  /\ NoRequest \in Request /\ NoEvent \in Event
  /\ NoDecision \in [kind : {"none", "confirm", "timeout"}, request : SUBSET Requests, log : {0}]
  /\ NoCheck \in [pc : {"idle", "verify", "finalize"}, request : SUBSET Requests, copy : Event]
  /\ DOMAIN NoBatch = {}
BY RecoveryAssumption DEF NoRequest, Request, Active, Terminal, Failed, Cdc, FinalCdc, NoEvent, Event,
   Results, NoDecision, NoCheck, NoBatch

LEMMA TypeInit == Init => TypeOK
<1> SUFFICES ASSUME Init PROVE TypeOK
  OBVIOUS
<1>1. logs \in Seq(Log) /\ Len(logs) = 1
  BY RecoveryAssumption DEF Init, Log
<1>2. WorldOK
  BY <1>1, RecoveryAssumption DEF Init, WorldOK
<1>3. RequestsOK
  <2>1. \A r \in Requests : req[r] = NoRequest
    BY DEF Init
  <2>2. PositionsOK(NoRequest)
    BY <1>1 DEF PositionsOK, NoRequest
  <2> QED BY <2>1, <2>2, EmptyTypes DEF Init, RequestsOK
<1>4. EventsOK /\ ExecutionsOK /\ ChecksOK
  BY EmptyTypes DEF Init, EventsOK, ExecutionsOK, ChecksOK
<1>5. DecisionsOK
  BY <1>1 DEF Init, NoDecision, DecisionsOK
<1>6. SealingOK
  BY EmptyTypes DEF Init, SealingOK
<1>7. BoundsOK
  BY RecoveryAssumption DEF Init, BoundsOK
<1> QED BY <1>2, <1>3, <1>4, <1>5, <1>6, <1>7 DEF TypeOK

(* A part of the state that a step leaves alone keeps its type; positions  *)
(* stay valid because logs and incidents are only added.                   *)
LEMMA TypeFrame ==
  /\ WorldOK /\ UNCHANGED <<world, incidents>> => WorldOK'
  /\ RequestsOK /\ UNCHANGED <<world, incidents, req>> => RequestsOK'
  /\ EventsOK /\ UNCHANGED ev => EventsOK'
  /\ ExecutionsOK /\ UNCHANGED <<exec, command>> => ExecutionsOK'
  /\ DecisionsOK /\ UNCHANGED <<world, decision>> => DecisionsOK'
  /\ SealingOK /\ UNCHANGED sealing => SealingOK'
  /\ ChecksOK /\ UNCHANGED check => ChecksOK'
  /\ BoundsOK /\ UNCHANGED <<writes, faults>> => BoundsOK'
  /\ BoundsOK /\ Spend /\ UNCHANGED writes => BoundsOK'
BY SpendInBudget DEF WorldOK, RequestsOK, PositionsOK, EventsOK, ExecutionsOK, DecisionsOK, SealingOK,
   ChecksOK, BoundsOK, world

LEMMA TypeGrow ==
  ASSUME WorldOK, WorldOK', Len(logs) <= Len(logs'), Len(incidents) <= Len(incidents')
  PROVE  /\ RequestsOK /\ UNCHANGED req => RequestsOK'
         /\ DecisionsOK /\ UNCHANGED decision => DecisionsOK'
<1>1. DOMAIN logs \subseteq DOMAIN logs' /\ DOMAIN incidents \subseteq DOMAIN incidents'
  BY DEF WorldOK
<1>2. Len(logs) \in Nat /\ Len(logs') \in Nat
  BY DEF WorldOK
<1>3. ASSUME NEW q \in Request, PositionsOK(q) PROVE PositionsOK(q)'
  BY <1>1, <1>2, <1>3 DEF PositionsOK, Request
<1>4. 0..Len(logs) \subseteq 0..Len(logs')
  BY <1>2
<1> QED BY <1>3, <1>4 DEF RequestsOK, DecisionsOK

LEMMA TypeWorld ==
  ASSUME TypeOK, WorldStep
  PROVE  TypeOK'
<1> USE DEF TypeOK
<1>1. ASSUME NEW s \in States, NEW captured \in BOOLEAN, ClientWrites(s, captured) PROVE TypeOK'
  <2> DEFINE change == [state |-> s, by |-> Client]
  <2>1. change \in Change
    BY DEF Change
  <2> HIDE DEF change
  <2>4. source' \in States /\ stream' \in {stream, Append(stream, change)}
        /\ UNCHANGED <<logs, incidents>>
    BY <1>1 DEF ClientWrites, change
  <2>5. WorldOK'
    BY <2>1, <2>4 DEF WorldOK
  <2>2. BoundsOK'
    BY <1>1, RecoveryAssumption DEF ClientWrites, BoundsOK
  <2>3. Len(logs) <= Len(logs') /\ Len(incidents) <= Len(incidents')
    BY <2>4 DEF WorldOK
  <2> QED BY <1>1, <2>5, <2>2, <2>3, TypeGrow, TypeFrame DEF ClientWrites, pipe
<1>2. CASE Ingest
  <2> DEFINE log == [state |-> Head(stream).state, by |-> Head(stream).by, anchored |-> FALSE]
  <2>1. Head(stream) \in Change /\ Tail(stream) \in Seq(Change)
    BY <1>2 DEF Ingest, WorldOK
  <2>2. log \in Log
    BY <2>1 DEF Change, Log
  <2> HIDE DEF log
  <2>3. Append(logs, log) \in Seq(Log) /\ Len(Append(logs, log)) = Len(logs) + 1
    BY <2>2 DEF WorldOK
  <2>4. logs' \in {logs, Append(logs, log)}
    BY <1>2 DEF Ingest, log
  <2>5. WorldOK' /\ Len(logs) <= Len(logs') /\ Len(incidents) <= Len(incidents')
    <3>4. logs \in Seq(Log) /\ Len(logs) \in Nat \ {0}
      BY DEF WorldOK
    <3>1. logs' \in Seq(Log) /\ Len(logs') \in {Len(logs), Len(logs) + 1}
      <4> HIDE DEF TypeOK
      <4> QED BY <2>3, <2>4, <3>4
    <3>2. DOMAIN logs \subseteq DOMAIN logs'
      BY <3>1, <3>4
    <3>3. UNCHANGED <<source, incidents>> /\ stream' \in Seq(Change) /\ Len(incidents) \in Nat
      BY <1>2, <2>1 DEF Ingest, WorldOK
    <3> QED BY <3>1, <3>2, <3>3, <3>4 DEF WorldOK
  <2> QED BY <1>2, <2>5, TypeGrow, TypeFrame DEF Ingest, pipe
<1>3. CASE OpenIncident
  <2> DEFINE entry == [status |-> "OPEN", ref |-> Len(logs)]
  <2>2. Len(logs) \in DOMAIN logs /\ Len(logs) \in Nat
    BY DEF WorldOK
  <2>3. entry \in Incident /\ entry.ref \in DOMAIN logs
    BY <2>2 DEF Incident
  <2>4. \/ /\ DOMAIN incidents' = DOMAIN incidents
           /\ incidents' = [i \in DOMAIN incidents |-> incidents'[i]]
           /\ \A i \in DOMAIN incidents : incidents'[i] \in {incidents[i], entry}
        \/ incidents' = Append(incidents, entry)
    BY <1>3 DEF OpenIncident, Latest
  <2>5. UNCHANGED world
    BY <1>3 DEF OpenIncident
  <2> HIDE DEF entry
  <2>1. WorldOK' /\ Len(logs) <= Len(logs') /\ Len(incidents) <= Len(incidents')
    <3>1. CASE incidents' # Append(incidents, entry)
      <4>4. \A i \in DOMAIN incidents : incidents[i] \in Incident /\ incidents[i].ref \in DOMAIN logs
        BY DEF WorldOK
      <4>1. incidents' = [i \in 1..Len(incidents) |-> incidents'[i]] /\ Len(incidents) \in Nat
        BY <2>4, <3>1 DEF WorldOK
      <4>2. \A i \in 1..Len(incidents) : incidents'[i] \in Incident /\ incidents'[i].ref \in DOMAIN logs
        <5> HIDE DEF TypeOK
        <5> QED BY <2>3, <2>4, <3>1, <4>1, <4>4
      <4>3. incidents' \in Seq(Incident) /\ Len(incidents') = Len(incidents)
        <5> HIDE DEF TypeOK
        <5>1. incidents' \in [1..Len(incidents) -> Incident]
          BY <4>1, <4>2
        <5> QED BY <5>1, <4>1
      <4> QED BY <4>2, <4>3, <2>5 DEF WorldOK, world
    <3>2. CASE incidents' = Append(incidents, entry)
      <4>3. incidents \in Seq(Incident) /\ Len(incidents) \in Nat
        BY DEF WorldOK
      <4>1. incidents' \in Seq(Incident) /\ Len(incidents') = Len(incidents) + 1
        <5> HIDE DEF TypeOK
        <5> QED BY <2>3, <3>2, <4>3
      <4>2. \A i \in DOMAIN incidents' : incidents'[i] \in {incidents[i], entry}
                                        /\ (incidents'[i] = entry \/ i \in DOMAIN incidents)
        <5> HIDE DEF TypeOK
        <5>1. /\ DOMAIN incidents = 1..Len(incidents) /\ DOMAIN incidents' = 1..(Len(incidents) + 1)
              /\ \A i \in 1..Len(incidents) : Append(incidents, entry)[i] = incidents[i]
              /\ Append(incidents, entry)[Len(incidents) + 1] = entry
          BY <2>3, <4>1, <4>3
        <5>2. \A i \in 1..(Len(incidents) + 1) : i \in 1..Len(incidents) \/ i = Len(incidents) + 1
          BY <4>3
        <5> QED BY <5>1, <5>2, <3>2
      <4> QED BY <4>1, <4>2, <4>3, <2>3, <2>5 DEF WorldOK, world
    <3> QED BY <2>4, <3>1, <3>2
  <2> QED BY <1>3, <2>1, TypeGrow, TypeFrame DEF OpenIncident, pipe
<1>4. ASSUME NEW i \in DOMAIN logs, AnchorLog(i) PROVE TypeOK'
  <2>1. logs[i] \in Log
    BY DEF WorldOK
  <2>2. [logs[i] EXCEPT !.anchored = TRUE] \in Log
    BY <2>1 DEF Log
  <2>3. logs' = [logs EXCEPT ![i] = [logs[i] EXCEPT !.anchored = TRUE]]
        /\ UNCHANGED <<source, stream, incidents>>
    BY <1>4 DEF AnchorLog
  <2>4. WorldOK' /\ Len(logs) <= Len(logs') /\ Len(incidents) <= Len(incidents')
    BY <2>2, <2>3 DEF WorldOK
  <2> QED BY <1>4, <2>4, TypeGrow, TypeFrame DEF AnchorLog, pipe
<1> QED BY <1>1, <1>2, <1>3, <1>4 DEF WorldStep

(* What failDirectRequest writes.                                          *)
LEMMA TypeFailAs ==
  ASSUME RequestsOK, EventsOK, NEW r \in Requests, NEW status \in Failed, FailAs(r, status),
         UNCHANGED <<world, incidents>>
  PROVE  RequestsOK' /\ EventsOK'
<1>1. [req[r] EXCEPT !.status = status] \in Request
  BY DEF RequestsOK, Request, Terminal
<1>2. [ev[r] EXCEPT !.result = status, !.cdc = "CONFLICT"] \in Event
  <2>1. status \in Results /\ "CONFLICT" \in Cdc
    BY DEF Results, Terminal, Cdc, FinalCdc
  <2>2. ev[r] \in Event
    BY DEF EventsOK
  <2> QED BY <2>1, <2>2 DEF Event
<1>3. req[r].status = "EXECUTING" => PositionsOK([req[r] EXCEPT !.status = status])
  BY DEF RequestsOK, PositionsOK, Request
<1> QED BY <1>1, <1>2, <1>3 DEF FailAs, RequestsOK, EventsOK, PositionsOK, world

LEMMA TypeRequest ==
  ASSUME TypeOK, NEW r \in Requests, RequestStep(r)
  PROVE  TypeOK'
<1> USE DEF TypeOK
<1>1. ASSUME NEW i \in DOMAIN incidents, Prepare(r, i) PROVE TypeOK'
  <2> DEFINE q == [NoRequest EXCEPT !.status = "DRAFT", !.incident = i, !.target = Latest,
                                    !.desired = logs[Latest].state, !.before = source]
  <2>3. Latest \in DOMAIN logs /\ Latest \in Nat /\ logs[Latest].state \in States
        /\ source \in States /\ i \in Nat
    <3>1. Latest \in DOMAIN logs /\ Latest \in Nat /\ i \in Nat /\ source \in States
      BY DEF WorldOK, Latest
    <3>2. logs[Latest] \in Log
      BY <3>1 DEF WorldOK
    <3> QED BY <3>1, <3>2 DEF Log
  <2>1. q \in Request /\ PositionsOK(q)
    <3>1. q \in Request
      BY <2>3, EmptyTypes DEF Request, NoRequest
    <3>2. Len(logs) \in Nat
      BY DEF WorldOK
    <3> QED BY <3>1, <3>2, <2>3 DEF PositionsOK, NoRequest
  <2>2. RequestsOK'
    BY <1>1, <2>1 DEF Prepare, RequestsOK, PositionsOK, world
  <2> QED BY <1>1, <2>2, TypeFrame DEF Prepare, pipe
<1>2. CASE InsertRequest(r)
  <2>1. [req[r] EXCEPT !.status = "PENDING_EXECUTION"] \in Request
    BY DEF RequestsOK, Request, Active
  <2>2. PositionsOK(NoRequest) /\ PositionsOK([req[r] EXCEPT !.status = "PENDING_EXECUTION"])
    BY <1>2 DEF InsertRequest, WorldOK, RequestsOK, PositionsOK, NoRequest, Request
  <2>3. RequestsOK'
    BY <1>2, <2>1, <2>2, EmptyTypes DEF InsertRequest, RequestsOK, PositionsOK, world
  <2> QED BY <1>2, <2>3, TypeFrame DEF InsertRequest, pipe
<1>3. CASE Claim(r)
  <2>1. [req[r] EXCEPT !.status = "EXECUTING"] \in Request
    BY DEF RequestsOK, Request, Active
  <2>2. RequestsOK'
    BY <1>3, <2>1 DEF Claim, RequestsOK, Request, PositionsOK, world
  <2>3. ExecutionsOK'
    BY <1>3 DEF Claim, Goto, ExecutionsOK
  <2> QED BY <1>3, <2>2, <2>3, TypeFrame DEF Claim, pipe
<1>4. CASE Revalidate(r)
  <2>1. ExecutionsOK' /\ (UNCHANGED faults \/ Spend)
    BY <1>4 DEF Revalidate, Goto, ExecutionsOK
  <2> QED BY <1>4, <2>1, TypeFrame DEF Revalidate, pipe
<1>5. CASE AgentReplies(r)
  <2>4. req[r] \in Request /\ Len(logs) \in Nat
    BY DEF RequestsOK, WorldOK
  <2>1. [req[r] EXCEPT !.since = Len(logs)] \in Request
    BY <2>4 DEF Request
  <2>5. PositionsOK([req[r] EXCEPT !.since = Len(logs)])
    BY <2>4 DEF RequestsOK, PositionsOK, Request
  <2>2. RequestsOK'
    BY <1>5, <2>1, <2>5 DEF AgentReplies, RequestsOK, PositionsOK, world
  <2>3. ExecutionsOK'
    BY <1>5 DEF AgentReplies, Goto, ExecutionsOK
  <2> QED BY <1>5, <2>2, <2>3, TypeFrame DEF AgentReplies, pipe
<1>6. CASE AgentUnreachable(r)
  <2>1. ExecutionsOK'
    BY <1>6 DEF AgentUnreachable, Goto, ExecutionsOK
  <2> QED BY <1>6, <2>1, TypeFrame DEF AgentUnreachable, pipe
<1>7. CASE Persist(r)
  <2>1. [req[r] EXCEPT !.status = "APPLIED_AWAITING_CDC"] \in Request
    BY DEF RequestsOK, Request, Active
  <2>2. [ev[r] EXCEPT !.result = "APPLIED_AWAITING_CDC"] \in Event
    BY DEF EventsOK, Event, Results
  <2>5. req[r].status = "EXECUTING" => PositionsOK([req[r] EXCEPT !.status = "APPLIED_AWAITING_CDC"])
    BY DEF RequestsOK, PositionsOK, Request
  <2>3. RequestsOK' /\ EventsOK'
    BY <1>7, <2>1, <2>2, <2>5 DEF Persist, RequestsOK, EventsOK, PositionsOK, world
  <2>4. ExecutionsOK'
    BY <1>7 DEF Persist, Goto, ExecutionsOK
  <2> QED BY <1>7, <2>3, <2>4, TypeFrame DEF Persist, pipe
<1>8. CASE PersistFails(r)
  <2>1. ExecutionsOK'
    BY <1>8 DEF PersistFails, Goto, ExecutionsOK
  <2> QED BY <1>8, <2>1, TypeFrame DEF PersistFails, pipe
<1>9. CASE FailRequest(r)
  <2>1. ExecutionsOK' /\ (UNCHANGED faults \/ Spend)
    BY <1>9 DEF FailRequest, Goto, ExecutionsOK
  <2>2. UNCHANGED <<req, ev>> \/ \E status \in Failed : FailAs(r, status)
    BY <1>9 DEF FailRequest, Failed
  <2>3. RequestsOK' /\ EventsOK'
    BY <1>9, <2>2, TypeFailAs, TypeFrame DEF FailRequest
  <2> QED BY <1>9, <2>1, <2>3, TypeFrame DEF FailRequest, pipe
<1>10. CASE AgentExecutes(r)
  <2> DEFINE change == [state |-> req[r].desired, by |-> r]
  <2>3. change \in Change /\ req[r].desired \in States
    BY DEF Change, RequestsOK, Request
  <2> HIDE DEF change
  <2>4. /\ UNCHANGED <<logs, incidents>> /\ source' \in {source, req[r].desired}
        /\ stream' \in {stream, Append(stream, change)}
    BY <1>10 DEF AgentExecutes, change
  <2>1. WorldOK' /\ UNCHANGED <<logs, incidents>>
    <3>2. stream \in Seq(Change) /\ source \in States
      BY DEF WorldOK
    <3>1. stream' \in Seq(Change) /\ source' \in States
      <4> HIDE DEF TypeOK
      <4> QED BY <2>3, <2>4, <3>2
    <3> QED BY <3>1, <2>4 DEF WorldOK
  <2>5. ExecutionsOK'
    BY <1>10 DEF AgentExecutes, ExecutionsOK
  <2>2. Len(logs) <= Len(logs') /\ Len(incidents) <= Len(incidents')
    BY <2>1 DEF WorldOK
  <2> QED BY <1>10, <2>1, <2>2, <2>5, TypeGrow, TypeFrame DEF AgentExecutes, pipe
<1>11. CASE Overdue(r)
  <2>1. [req[r] EXCEPT !.overdue = TRUE] \in Request
    BY DEF RequestsOK, Request
  <2>2. RequestsOK'
    BY <1>11, <2>1 DEF Overdue, RequestsOK, Request, PositionsOK, world
  <2>3. UNCHANGED faults \/ Spend
    BY <1>11 DEF Overdue
  <2> QED BY <1>11, <2>2, <2>3, TypeFrame DEF Overdue, pipe
<1>12. CASE DeadlinePasses(r)
  <2>3. req[r] \in Request /\ Len(logs) \in Nat
    BY DEF RequestsOK, WorldOK
  <2>1. [req[r] EXCEPT !.until = Len(logs)] \in Request
    BY <2>3 DEF Request
  <2>4. PositionsOK([req[r] EXCEPT !.until = Len(logs)])
    BY <2>3 DEF RequestsOK, PositionsOK, Request
  <2>2. RequestsOK'
    BY <1>12, <2>1, <2>4 DEF DeadlinePasses, RequestsOK, PositionsOK, world
  <2> QED BY <1>12, <2>2, TypeFrame DEF DeadlinePasses, pipe
<1>13. CASE GiveUp(r)
  <2>1. RequestsOK' /\ EventsOK'
    BY <1>13, TypeFailAs DEF GiveUp, Failed
  <2> QED BY <1>13, <2>1, TypeFrame DEF GiveUp, pipe
<1> QED BY <1>1, <1>2, <1>3, <1>4, <1>5, <1>6, <1>7, <1>8, <1>9, <1>10, <1>11, <1>12, <1>13
        DEF RequestStep, Handler, TimePasses

(* What a gateway keeps of a batch it has read.                            *)
LEMMA TypeBatch ==
  ASSUME SealingOK, NEW g \in Pipelines, NEW batch,
         DOMAIN batch \subseteq Requests, \A r \in DOMAIN batch : batch[r] \in Results \X Cdc \X Nat,
         sealing' = [sealing EXCEPT ![g] = batch]
  PROVE  SealingOK'
BY DEF SealingOK

LEMMA TypeDecide ==
  ASSUME DecisionsOK, NEW g, UNCHANGED world, Decide(g), Len(logs) \in Nat
  PROVE  DecisionsOK'
<1>1. NoDecision \in [kind : {"none", "confirm", "timeout"}, request : SUBSET Requests, log : 0..Len(logs)]
  BY DEF NoDecision
<1> QED BY <1>1 DEF DecisionsOK, Decide, world

LEMMA TypeGateway ==
  ASSUME TypeOK, GatewayStep
  PROVE  TypeOK'
<1> USE DEF TypeOK
<1>0. Len(logs) \in Nat
  BY DEF WorldOK
<1>1. ASSUME NEW g \in Reconcilers, NEW r \in Requests, Reconcile(g, r) PROVE TypeOK'
  <2>1. DecisionsOK'
    BY <1>1, DecidedChooses DEF Reconcile, DecisionsOK, world
  <2> QED BY <1>1, <2>1, TypeFrame DEF Reconcile, pipe
<1>2. ASSUME NEW g \in Reconcilers, NEW r \in Requests, MarkConfirmed(g, r) PROVE TypeOK'
  <2> DEFINE n == decision[g].log
  <2>1. n \in Nat /\ n <= Len(logs)
    BY <1>0 DEF DecisionsOK
  <2> HIDE DEF n
  <2>2. req[r] \in Request /\ ev[r] \in Event /\ PositionsOK(req[r])
    BY DEF RequestsOK, EventsOK
  <2>7. "CONFIRMED" \in Cdc /\ "SUCCEEDED" \in Results
    BY DEF Cdc, FinalCdc, Results, Terminal
  <2>3. [req[r] EXCEPT !.cdc = "CONFIRMED", !.result = n] \in Request
    BY <2>1, <2>2, <2>7 DEF Request
  <2>4. [ev[r] EXCEPT !.result = "SUCCEEDED", !.cdc = "CONFIRMED", !.log = n] \in Event
    BY <2>1, <2>2, <2>7 DEF Event
  <2>5. PositionsOK([req[r] EXCEPT !.cdc = "CONFIRMED", !.result = n])
    BY <2>1, <2>2 DEF PositionsOK, Request
  <2>6. RequestsOK' /\ EventsOK'
    BY <1>2, <2>3, <2>4, <2>5 DEF MarkConfirmed, RequestsOK, EventsOK, PositionsOK, world, n
  <2> QED BY <1>0, <1>2, <2>6, TypeDecide, TypeFrame DEF MarkConfirmed, pipe
<1>3. ASSUME NEW g \in Reconcilers, NEW r \in Requests, MarkTimeout(g, r) PROVE TypeOK'
  <2>2. req[r] \in Request /\ ev[r] \in Event /\ PositionsOK(req[r])
    BY DEF RequestsOK, EventsOK
  <2>7. "TIMEOUT" \in Cdc /\ "APPLIED_CDC_TIMEOUT" \in Results /\ "APPLIED_CDC_TIMEOUT" \in Terminal
    BY DEF Cdc, FinalCdc, Results, Terminal
  <2>3. [req[r] EXCEPT !.cdc = "TIMEOUT", !.status = "APPLIED_CDC_TIMEOUT"] \in Request
    BY <2>2, <2>7 DEF Request
  <2>4. [ev[r] EXCEPT !.result = "APPLIED_CDC_TIMEOUT", !.cdc = "TIMEOUT"] \in Event
    BY <2>2, <2>7 DEF Event
  <2>5. Waiting(r) => PositionsOK([req[r] EXCEPT !.cdc = "TIMEOUT", !.status = "APPLIED_CDC_TIMEOUT"])
    BY <2>2 DEF PositionsOK, Request, Waiting
  <2>6. RequestsOK' /\ EventsOK'
    BY <1>3, <2>3, <2>4, <2>5 DEF MarkTimeout, RequestsOK, EventsOK, PositionsOK, world
  <2> QED BY <1>0, <1>3, <2>6, TypeDecide, TypeFrame DEF MarkTimeout, pipe
<1>4. ASSUME NEW g \in Reconcilers, MarkFails(g) PROVE TypeOK'
  BY <1>0, <1>4, TypeDecide, TypeFrame DEF MarkFails, pipe
<1>5. ASSUME NEW g \in Pipelines, ReadEvents(g) PROVE TypeOK'
  <2>1. \A r \in SealableEvents : r \in Requests /\ Content(ev[r]) \in Results \X Cdc \X Nat
    BY DEF SealableEvents, EventsOK, Event, Content
  <2> DEFINE batch == [r \in SealableEvents |-> Content(ev[r])]
  <2>3. /\ sealing' = [sealing EXCEPT ![g] = batch]
        /\ DOMAIN batch \subseteq Requests
        /\ \A r \in DOMAIN batch : batch[r] \in Results \X Cdc \X Nat
    BY <1>5, <2>1 DEF ReadEvents
  <2> HIDE DEF batch
  <2>2. SealingOK'
    BY <2>3, TypeBatch
  <2> QED BY <1>5, <2>2, TypeFrame DEF ReadEvents
<1>6. ASSUME NEW g \in Pipelines, SealEvents(g) PROVE TypeOK'
  <2> DEFINE batch == DOMAIN sealing[g]
  <2>1. SealingOK' /\ batch \in SUBSET Requests
    BY <1>6, EmptyTypes, TypeBatch DEF SealEvents, SealingOK
  <2>2. ASSUME NEW r \in batch
        PROVE  [ev[r] EXCEPT !.pipeline = "AGGREGATED", !.root = batch, !.leaf = sealing[g][r]] \in Event
    <3>1. ev[r] \in Event /\ sealing[g][r] \in Results \X Cdc \X Nat
      BY <2>1, <2>2 DEF EventsOK, SealingOK
    <3> HIDE DEF batch
    <3> QED BY <2>1, <3>1 DEF Event
  <2>3. EventsOK'
    BY <1>6, <2>2 DEF SealEvents, EventsOK
  <2> QED BY <1>6, <2>1, <2>3, TypeFrame DEF SealEvents
<1>7. ASSUME NEW root \in SUBSET Requests, AnchorRoot(root) PROVE TypeOK'
  <2>1. \A r \in Requests : [ev[r] EXCEPT !.pipeline = "ANCHORED"] \in Event
    BY DEF EventsOK, Event
  <2>2. EventsOK'
    BY <1>7, <2>1 DEF AnchorRoot, EventsOK
  <2> QED BY <1>7, <2>2, TypeFrame DEF AnchorRoot, pipe
<1>8. ASSUME NEW g, NEW handlers, Crash(g, handlers) PROVE TypeOK'
  <2>1. ExecutionsOK'
    BY <1>8 DEF Crash, ExecutionsOK
  <2>2. DecisionsOK'
    BY <1>8, <1>0, EmptyTypes DEF Crash, DecisionsOK, Restarted, world
  <2>3. SealingOK'
    BY <1>8, EmptyTypes DEF Crash, SealingOK, Restarted
  <2>4. ChecksOK'
    BY <1>8, EmptyTypes DEF Crash, ChecksOK, Restarted
  <2> QED BY <1>8, <2>1, <2>2, <2>3, <2>4, TypeFrame DEF Crash
<1> QED BY <1>1, <1>2, <1>3, <1>4, <1>5, <1>6, <1>7, <1>8 DEF GatewayStep, Reconciler

LEMMA TypeVerify ==
  ASSUME TypeOK, VerifyStep
  PROVE  TypeOK'
<1> USE DEF TypeOK
<1> PICK r \in Requests, v \in Pipelines \cup Users : Verify(v, r)
  BY DEF VerifyStep
<1>1. ev[r] \in Event /\ check[v].copy \in Event /\ req[r] \in Request
  BY DEF EventsOK, ChecksOK, RequestsOK
<1>2. LeaveCheck(v) => ChecksOK'
  BY EmptyTypes DEF LeaveCheck, ChecksOK
<1>3. CASE ReadEvent(v, r)
  <2>1. [pc |-> "verify", request |-> {r}, copy |-> ev[r]] \in
          [pc : {"idle", "verify", "finalize"}, request : SUBSET Requests, copy : Event]
    BY <1>1
  <2>2. ChecksOK'
    BY <1>3, <2>1 DEF ReadEvent, ChecksOK
  <2> QED BY <1>3, <2>2, TypeFrame DEF ReadEvent
<1>4. CASE VerifyEvent(v, r)
  <2>1. Verdict(check[v].copy) \in {"PENDING", "VALID", "TAMPERED"}
    BY DEF Verdict
  <2>2. [ev[r] EXCEPT !.integrity = Verdict(check[v].copy)] \in Event
    BY <1>1, <2>1 DEF Event
  <2>3. EventsOK'
    BY <1>4, <2>2 DEF VerifyEvent, EventsOK
  <2>4. ChecksOK'
    BY <1>2, <1>4 DEF VerifyEvent, ChecksOK
  <2> QED BY <1>4, <2>3, <2>4, TypeFrame DEF VerifyEvent
<1>5. CASE VerifyFails(v, r)
  <2>1. [ev[r] EXCEPT !.integrity = "UNREACHABLE"] \in Event
    BY <1>1 DEF Event
  <2>2. EventsOK'
    BY <1>5, <2>1 DEF VerifyFails, EventsOK
  <2> QED BY <1>2, <1>5, <2>2, TypeFrame DEF VerifyFails
<1>6. CASE Finalize(v, r)
  <2> DEFINE q == [req[r] EXCEPT !.status = "SUCCEEDED", !.result = check[v].copy.log]
             i == req[r].incident
  <2>1. CASE Finalizable(v, r)
    <3>1. check[v].copy.log \in Nat
      BY <1>1 DEF Event
    <3>2. q \in Request
      BY <1>1, <3>1 DEF Request, Terminal
    <3>3. PositionsOK(req[r]) /\ req[r].status = "APPLIED_AWAITING_CDC"
      BY <2>1 DEF RequestsOK, Finalizable
    <3>4. PositionsOK(q) /\ i \in DOMAIN incidents
      BY <1>1, <3>3 DEF PositionsOK, Request
    <3>5. req' = [req EXCEPT ![r] = q] /\ UNCHANGED world
          /\ incidents' = [incidents EXCEPT ![i] = [incidents[i] EXCEPT !.status = "RESOLVED"]]
      BY <1>6, <2>1 DEF Finalize
    <3> HIDE DEF q, i
    <3>6. incidents[i] \in Incident
      BY <3>4 DEF WorldOK
    <3>7. [incidents[i] EXCEPT !.status = "RESOLVED"] \in Incident
      BY <3>6 DEF Incident
    <3>8. WorldOK' /\ Len(incidents') = Len(incidents)
      BY <3>4, <3>5, <3>7 DEF WorldOK, world
    <3>9. Len(logs') = Len(logs) /\ Len(incidents) \in Nat /\ Len(logs) \in Nat
      BY <3>5 DEF WorldOK, world
    <3>10. RequestsOK'
      <4>1. \A k \in Requests : PositionsOK(req[k])
        BY DEF RequestsOK
      <4>2. DOMAIN incidents' = DOMAIN incidents /\ logs' = logs
        BY <3>5 DEF world
      <4>3. ASSUME NEW k \in Requests PROVE req'[k] \in Request /\ PositionsOK(req[k])'
        <5>1. req[k] \in Request /\ req' = [req EXCEPT ![r] = q] /\ DOMAIN req = Requests
          BY <3>5 DEF RequestsOK
        <5>2. req'[k] \in {req[k], q} /\ req'[k] \in Request
          BY <5>1, <3>2
        <5>3. PositionsOK(req'[k])
          BY <5>2, <4>1, <3>4
        <5> QED BY <5>2, <5>3, <4>2 DEF PositionsOK
      <4>4. req' = [k \in Requests |-> req'[k]]
        BY <3>5 DEF RequestsOK
      <4> HIDE DEF TypeOK
      <4> QED BY <4>3, <4>4 DEF RequestsOK
    <3> QED BY <1>2, <1>6, <3>8, <3>9, <3>10, TypeGrow, TypeFrame DEF Finalize
  <2>2. CASE ~Finalizable(v, r)
    BY <1>2, <1>6, <2>2, TypeFrame DEF Finalize
  <2> QED BY <2>1, <2>2
<1>7. CASE FinalizeFails(v, r)
  BY <1>2, <1>7, TypeFrame DEF FinalizeFails
<1> QED BY <1>3, <1>4, <1>5, <1>6, <1>7 DEF Verify

(* Every variable of the recovery has its type, whatever is late or lost.  *)
THEOREM RecoveryTypeCorrect == Spec => []TypeOK
<1>1. ASSUME TypeOK, [Next]_vars PROVE TypeOK'
  <2>1. CASE UNCHANGED vars
    BY <1>1, <2>1, TypeFrame DEF vars, TypeOK, pipe
  <2> QED BY <1>1, <2>1, Steps, TypeWorld, TypeRequest, TypeGateway, TypeVerify
<1> QED BY <1>1, TypeInit, PTL DEF Spec

-----------------------------------------------------------------------------
(* The inductive invariant.  A part of it is kept by a step that leaves    *)
(* the variables it speaks of alone; logs are only added.                  *)

LogsKeep ==
  /\ DOMAIN logs \subseteq DOMAIN logs'
  /\ \A i \in DOMAIN logs : logs'[i].state = logs[i].state

LEMMA RecoveryInit == Init => RecoveryInv
<1> SUFFICES ASSUME Init PROVE RecoveryInv
  OBVIOUS
<1>1. TypeOK
  BY TypeInit
<1>2. \A r \in Requests : req[r] = NoRequest /\ ev[r] = NoEvent /\ exec[r] = "none" /\ command[r] = "none"
  BY DEF Init
<1>3. HandlerKnowsCommand
  BY <1>2 DEF HandlerKnowsCommand, NoRequest, Applied
<1>4. EventFollowsRequest
  BY <1>2 DEF EventFollowsRequest, NoRequest, NoEvent, Unsent, Waiting
<1>5. SealedIsFinal
  BY <1>2, EmptyTypes DEF SealedIsFinal, NoEvent, Init
<1>6. ChecksAreCurrent
  BY DEF ChecksAreCurrent, Init, NoCheck, NoEvent
<1>7. DecisionStands
  BY DEF DecisionStands, Init, NoDecision
<1>8. ClosedByRecovery
  BY DEF ClosedByRecovery, Init
<1> QED BY <1>1, <1>3, <1>4, <1>5, <1>6, <1>7, <1>8 DEF RecoveryInv

LEMMA Frame ==
  /\ HandlerKnowsCommand /\ UNCHANGED <<req, exec, command>> => HandlerKnowsCommand'
  /\ EventFollowsRequest /\ LogsKeep /\ UNCHANGED <<req, ev>> => EventFollowsRequest'
  /\ SealedIsFinal /\ UNCHANGED <<ev, sealing>> => SealedIsFinal'
  /\ ChecksAreCurrent /\ UNCHANGED <<ev, check>> => ChecksAreCurrent'
  /\ DecisionStands /\ LogsKeep /\ UNCHANGED <<req, decision>> => DecisionStands'
  /\ ClosedByRecovery /\ UNCHANGED <<req, incidents>> => ClosedByRecovery'
  /\ UNCHANGED logs => LogsKeep
<1>1. ASSUME LogsKeep, UNCHANGED req
      PROVE  \A r, i : Proves(i, r) => Proves(i, r)'
  BY <1>1 DEF LogsKeep, Proves
<1>2. HandlerKnowsCommand /\ UNCHANGED <<req, exec, command>> => HandlerKnowsCommand'
  BY DEF HandlerKnowsCommand
<1>3. EventFollowsRequest /\ LogsKeep /\ UNCHANGED <<req, ev>> => EventFollowsRequest'
  BY <1>1 DEF EventFollowsRequest, Waiting
<1>4. SealedIsFinal /\ UNCHANGED <<ev, sealing>> => SealedIsFinal'
  BY DEF SealedIsFinal, Content
<1>5. ChecksAreCurrent /\ UNCHANGED <<ev, check>> => ChecksAreCurrent'
  BY DEF ChecksAreCurrent, Content
<1>6. DecisionStands /\ LogsKeep /\ UNCHANGED <<req, decision>> => DecisionStands'
  BY <1>1 DEF DecisionStands
<1>7. ClosedByRecovery /\ UNCHANGED <<req, incidents>> => ClosedByRecovery'
  BY DEF ClosedByRecovery
<1> QED BY <1>2, <1>3, <1>4, <1>5, <1>6, <1>7 DEF LogsKeep

LEMMA KeepWorld ==
  ASSUME RecoveryInv, WorldStep
  PROVE  RecoveryInv'
<1> USE DEF RecoveryInv
<1>1. TypeOK'
  BY TypeWorld
<1>2. ASSUME NEW s \in States, NEW captured \in BOOLEAN, ClientWrites(s, captured) PROVE RecoveryInv'
  BY <1>1, <1>2, Frame DEF ClientWrites, pipe
<1>3. CASE Ingest
  <2>1. LogsKeep
    <3>1. logs \in Seq(Log) /\ Len(logs) \in Nat
      BY DEF TypeOK, WorldOK
    <3>2. logs' = logs \/ \E log : logs' = Append(logs, log)
      BY <1>3 DEF Ingest
    <3> HIDE DEF RecoveryInv
    <3> QED BY <3>1, <3>2 DEF LogsKeep
  <2> QED BY <1>1, <1>3, <2>1, Frame DEF Ingest, pipe
<1>4. CASE OpenIncident
  <2> DEFINE open == {i \in DOMAIN incidents : incidents[i].status = "OPEN"}
             entry == [status |-> "OPEN", ref |-> Latest]
  <2>1. /\ UNCHANGED <<req, logs>>
        /\ \/ incidents' = [i \in DOMAIN incidents |-> IF i \in open THEN entry ELSE incidents[i]]
           \/ incidents' = Append(incidents, entry)
    BY <1>4 DEF OpenIncident, world
  <2>2. incidents \in Seq(Incident)
    BY DEF TypeOK, WorldOK
  <2>3. \A i \in DOMAIN incidents' :
          \/ i \in DOMAIN incidents /\ incidents'[i].status = incidents[i].status
          \/ i \notin DOMAIN incidents /\ incidents'[i].status = "OPEN"
    <3> HIDE DEF RecoveryInv
    <3>1. CASE incidents' = [i \in DOMAIN incidents |-> IF i \in open THEN entry ELSE incidents[i]]
      BY <3>1
    <3>2. CASE incidents' = Append(incidents, entry)
      <4> HIDE DEF entry
      <4>1. /\ DOMAIN incidents = 1..Len(incidents) /\ Len(incidents) \in Nat
            /\ DOMAIN incidents' = 1..(Len(incidents) + 1)
            /\ \A i \in 1..Len(incidents) : incidents'[i] = incidents[i]
            /\ incidents'[Len(incidents) + 1] = entry
        BY <2>2, <3>2
      <4>2. entry.status = "OPEN"
        BY DEF entry
      <4> QED BY <4>1, <4>2
    <3> QED BY <2>1, <3>1, <3>2
  <2>4. \A r \in Requests : req[r].status = "SUCCEEDED" => req[r].incident \in DOMAIN incidents
    BY DEF TypeOK, RequestsOK, PositionsOK
  <2>5. ClosedByRecovery'
    BY <2>1, <2>3, <2>4 DEF ClosedByRecovery
  <2> QED BY <1>1, <1>4, <2>5, Frame DEF OpenIncident, pipe, world
<1>5. ASSUME NEW i \in DOMAIN logs, AnchorLog(i) PROVE RecoveryInv'
  <2>1. \A k \in DOMAIN logs : logs[k] \in Log
    BY DEF TypeOK, WorldOK
  <2>2. LogsKeep
    BY <1>5, <2>1 DEF AnchorLog, LogsKeep, Log
  <2> QED BY <1>1, <1>5, <2>2, Frame DEF AnchorLog, pipe
<1> QED BY <1>2, <1>3, <1>4, <1>5 DEF WorldStep

(* A step that concerns one request leaves the others alone.               *)
OthersKeep(r) ==
  \A k \in Requests \ {r} :
    req'[k] = req[k] /\ ev'[k] = ev[k] /\ exec'[k] = exec[k] /\ command'[k] = command[k]

(* Before its effect is reported, a request and its event change without   *)
(* any reconciler or verification noticing.                                *)
LEMMA KeepEarly ==
  ASSUME TypeOK, EventFollowsRequest, SealedIsFinal, ChecksAreCurrent, DecisionStands, ClosedByRecovery,
         NEW r \in Requests, OthersKeep(r), UNCHANGED <<logs, incidents, decision, pipe>>,
         req[r].status \notin Applied, req'[r].status # "SUCCEEDED",
         req'[r].status \in Unsent \cup {"EXECUTING"} =>
           ev'[r] = ev[r] /\ ev[r] = NoEvent /\ req'[r].cdc = "PENDING",
         ev'[r].result = "NONE" => req'[r].status \in Unsent \cup {"EXECUTING"},
         req'[r].status \in Applied =>
           /\ req'[r].status = "APPLIED_AWAITING_CDC" /\ req'[r].cdc = "PENDING" /\ ev'[r].cdc = "PENDING",
         \/ ev'[r] = ev[r]
         \/ /\ ev[r] = NoEvent /\ ev'[r].result # "NONE"
            /\ ev'[r].pipeline = "HASHED" /\ ev'[r].integrity = "NOT_CHECKED"
  PROVE  EventFollowsRequest' /\ SealedIsFinal' /\ ChecksAreCurrent' /\ DecisionStands' /\ ClosedByRecovery'
<1>0. \A k : Proves(req[k].result, k) /\ req'[k] = req[k] => Proves(req[k].result, k)'
  BY DEF Proves
<1>1. EventFollowsRequest'
  BY <1>0 DEF EventFollowsRequest, OthersKeep, Waiting, Applied
<1>2. SealedIsFinal'
  <2>1. \A g \in Pipelines : DOMAIN sealing[g] \subseteq Requests
    BY DEF TypeOK, SealingOK
  <2> QED BY <2>1 DEF SealedIsFinal, OthersKeep, NoEvent, FinalCdc, Content, pipe
<1>3. ChecksAreCurrent'
  <2>1. \A v \in Pipelines \cup Users : check[v].request \subseteq Requests
    BY DEF TypeOK, ChecksOK
  <2> QED BY <2>1 DEF ChecksAreCurrent, OthersKeep, NoEvent, Content, pipe
<1>4. DecisionStands'
  <2>1. \A g \in Reconcilers : decision[g].request \subseteq Requests
    BY DEF TypeOK, DecisionsOK
  <2>2. \A g \in Reconcilers : r \notin decision[g].request
    BY DEF DecisionStands
  <2>3. \A k, i : Proves(i, k) /\ req'[k] = req[k] => Proves(i, k)'
    BY DEF Proves
  <2> QED BY <2>1, <2>2, <2>3 DEF DecisionStands, OthersKeep
<1>5. ClosedByRecovery'
  BY DEF ClosedByRecovery, OthersKeep, Applied
<1> QED BY <1>1, <1>2, <1>3, <1>4, <1>5

(* A request only fails while it is EXECUTING.                             *)
LEMMA KeepFailAs ==
  ASSUME RecoveryInv, NEW r \in Requests, NEW status \in Failed, FailAs(r, status),
         UNCHANGED <<logs, incidents, decision, pipe, command>>,
         \A k \in Requests \ {r} : exec'[k] = exec[k]
  PROVE  EventFollowsRequest' /\ SealedIsFinal' /\ ChecksAreCurrent' /\ DecisionStands' /\ ClosedByRecovery'
<1> USE DEF RecoveryInv
<1>1. req[r] \in Request /\ ev[r] \in Event /\ DOMAIN req = Requests /\ DOMAIN ev = Requests
  BY DEF TypeOK, RequestsOK, EventsOK
<1>2. CASE req[r].status = "EXECUTING"
  <2>1. OthersKeep(r)
    BY <1>1, <1>2 DEF FailAs, OthersKeep
  <2>2. ev[r] = NoEvent
    BY <1>2 DEF EventFollowsRequest
  <2>3. req'[r].status = status /\ status # "SUCCEEDED" /\ status \notin Unsent \cup {"EXECUTING"} \cup Applied
    BY <1>1, <1>2 DEF FailAs, Failed, Unsent, Applied, Request
  <2>4. ev'[r] = [ev[r] EXCEPT !.result = status, !.cdc = "CONFLICT"]
    BY <1>1, <1>2 DEF FailAs
  <2>5. ev'[r].result # "NONE" /\ ev'[r].pipeline = "HASHED" /\ ev'[r].integrity = "NOT_CHECKED"
    BY <2>2, <2>4 DEF NoEvent, Failed
  <2>6. req[r].status \notin Applied
    BY <1>2 DEF Applied
  <2> QED BY <2>1, <2>2, <2>3, <2>5, <2>6, KeepEarly
<1>3. CASE req[r].status # "EXECUTING"
  BY <1>3, Frame DEF FailAs, pipe
<1> QED BY <1>2, <1>3

LEMMA KeepRequest ==
  ASSUME RecoveryInv, NEW r \in Requests, RequestStep(r)
  PROVE  RecoveryInv'
<1> USE DEF RecoveryInv
<1>0. TypeOK'
  BY TypeRequest
<1>1. /\ req[r] \in Request /\ ev[r] \in Event
      /\ DOMAIN req = Requests /\ DOMAIN ev = Requests /\ DOMAIN exec = Requests /\ DOMAIN command = Requests
  BY DEF TypeOK, RequestsOK, EventsOK, ExecutionsOK
<1>2. ASSUME NEW i \in DOMAIN incidents, Prepare(r, i) PROVE RecoveryInv'
  <2>1. OthersKeep(r) /\ UNCHANGED <<exec, command, ev>>
    BY <1>1, <1>2 DEF Prepare, OthersKeep
  <2>2. req[r].status = "NONE" /\ req'[r].status = "DRAFT" /\ req'[r].cdc = "PENDING"
    BY <1>1, <1>2 DEF Prepare, NoRequest
  <2>3. HandlerKnowsCommand'
    BY <2>1, <2>2 DEF HandlerKnowsCommand, OthersKeep, Unsent, Applied
  <2>4. EventFollowsRequest' /\ SealedIsFinal' /\ ChecksAreCurrent' /\ DecisionStands' /\ ClosedByRecovery'
    BY <1>2, <2>1, <2>2, KeepEarly DEF Prepare, world, Unsent, Applied, EventFollowsRequest
  <2> QED BY <1>0, <2>3, <2>4
<1>3. CASE InsertRequest(r)
  <2>1. OthersKeep(r) /\ UNCHANGED <<exec, command, ev>>
    BY <1>1, <1>3 DEF InsertRequest, OthersKeep
  <2>2. req[r].status = "DRAFT" /\ req'[r].status \in {"NONE", "PENDING_EXECUTION"} /\ req'[r].cdc = "PENDING"
    BY <1>1, <1>3 DEF InsertRequest, NoRequest, EventFollowsRequest, Unsent
  <2>3. HandlerKnowsCommand'
    BY <2>1, <2>2 DEF HandlerKnowsCommand, OthersKeep, Unsent, Applied
  <2>4. EventFollowsRequest' /\ SealedIsFinal' /\ ChecksAreCurrent' /\ DecisionStands' /\ ClosedByRecovery'
    BY <1>3, <2>1, <2>2, KeepEarly DEF InsertRequest, world, Unsent, Applied, EventFollowsRequest
  <2> QED BY <1>0, <2>3, <2>4
<1>4. CASE Claim(r)
  <2>1. OthersKeep(r) /\ UNCHANGED <<command, ev>>
    BY <1>1, <1>4 DEF Claim, Goto, OthersKeep
  <2>2. /\ req[r].status = "PENDING_EXECUTION" /\ req'[r].status = "EXECUTING" /\ req'[r].cdc = "PENDING"
        /\ exec'[r] \in {"claimed", "ended"}
    BY <1>1, <1>4 DEF Claim, Goto, EventFollowsRequest, Unsent, Request
  <2>3. HandlerKnowsCommand'
    BY <2>1, <2>2 DEF HandlerKnowsCommand, OthersKeep, Unsent, Applied
  <2>4. EventFollowsRequest' /\ SealedIsFinal' /\ ChecksAreCurrent' /\ DecisionStands' /\ ClosedByRecovery'
    BY <1>4, <2>1, <2>2, KeepEarly DEF Claim, world, Unsent, Applied, EventFollowsRequest
  <2> QED BY <1>0, <2>3, <2>4
<1>5. CASE Revalidate(r)
  <2>1. OthersKeep(r) /\ UNCHANGED <<req, ev>>
    BY <1>1, <1>5 DEF Revalidate, Goto, OthersKeep
  <2>2. /\ exec[r] = "claimed"
        /\ \/ exec'[r] = "sent" /\ command'[r] = "pending"
           \/ exec'[r] \in {"fail_verification", "fail_execution"} /\ command'[r] = command[r]
    BY <1>1, <1>5 DEF Revalidate, Goto
  <2>3. HandlerKnowsCommand'
    BY <2>1, <2>2 DEF HandlerKnowsCommand, OthersKeep
  <2> QED BY <1>0, <1>5, <2>3, Frame DEF Revalidate, world, pipe
<1>6. CASE AgentReplies(r)
  <2>1. OthersKeep(r) /\ UNCHANGED <<command, ev>>
    BY <1>1, <1>6 DEF AgentReplies, Goto, OthersKeep
  <2>2. /\ exec[r] = "sent"
        /\ \/ exec'[r] = "replied" /\ command[r] = "written"
           \/ exec'[r] = "fail_verification" /\ command[r] = "refused"
    BY <1>1, <1>6 DEF AgentReplies, Goto
  <2>5. req'[r].status = req[r].status /\ req'[r].cdc = req[r].cdc
    BY <1>1, <1>6 DEF AgentReplies, Request
  <2>6. req[r].status \notin Unsent \cup Applied
    BY <2>2 DEF HandlerKnowsCommand
  <2>3. HandlerKnowsCommand'
    BY <2>1, <2>2, <2>5 DEF HandlerKnowsCommand, OthersKeep
  <2>4. EventFollowsRequest' /\ SealedIsFinal' /\ ChecksAreCurrent' /\ DecisionStands' /\ ClosedByRecovery'
    BY <1>6, <2>1, <2>5, <2>6, KeepEarly DEF AgentReplies, world, EventFollowsRequest, Applied
  <2> QED BY <1>0, <2>3, <2>4
<1>7. CASE AgentUnreachable(r)
  <2>1. HandlerKnowsCommand'
    BY <1>1, <1>7 DEF HandlerKnowsCommand, AgentUnreachable, Goto
  <2> QED BY <1>0, <1>7, <2>1, Frame DEF AgentUnreachable, world, pipe
<1>8. CASE Persist(r)
  <2>1. CASE req[r].status = "EXECUTING" /\ ev[r] = NoEvent
    <3>1. OthersKeep(r) /\ UNCHANGED command
      BY <1>1, <1>8, <2>1 DEF Persist, Goto, OthersKeep
    <3>2. /\ exec[r] = "replied" /\ exec'[r] = "ended"
          /\ req'[r].status = "APPLIED_AWAITING_CDC" /\ req'[r].cdc = "PENDING"
      BY <1>1, <1>8, <2>1 DEF Persist, Goto, Request, EventFollowsRequest
    <3>3. HandlerKnowsCommand'
      BY <3>1, <3>2 DEF HandlerKnowsCommand, OthersKeep, Unsent
    <3>4. /\ ev'[r].result # "NONE" /\ ev'[r].cdc = "PENDING" /\ ev'[r].pipeline = "HASHED"
          /\ ev'[r].integrity = "NOT_CHECKED"
      BY <1>1, <1>8, <2>1 DEF Persist, NoEvent
    <3>5. EventFollowsRequest' /\ SealedIsFinal' /\ ChecksAreCurrent' /\ DecisionStands' /\ ClosedByRecovery'
      BY <1>8, <2>1, <3>1, <3>2, <3>4, KeepEarly DEF Persist, world, Unsent, Applied
    <3> QED BY <1>0, <3>3, <3>5
  <2>2. CASE ~(req[r].status = "EXECUTING" /\ ev[r] = NoEvent)
    <3>1. HandlerKnowsCommand'
      BY <1>1, <1>8, <2>2 DEF HandlerKnowsCommand, Persist, Goto
    <3> QED BY <1>0, <1>8, <2>2, <3>1, Frame DEF Persist, world, pipe
  <2> QED BY <2>1, <2>2
<1>9. CASE PersistFails(r)
  <2>1. HandlerKnowsCommand'
    BY <1>1, <1>9 DEF HandlerKnowsCommand, PersistFails, Goto
  <2> QED BY <1>0, <1>9, <2>1, Frame DEF PersistFails, world, pipe
<1>10. CASE FailRequest(r)
  <2>1. /\ exec[r] \in {"fail_verification", "fail_execution"} /\ exec' = [exec EXCEPT ![r] = "ended"]
        /\ UNCHANGED <<logs, incidents, decision, pipe, command>>
        /\ \/ UNCHANGED <<req, ev>>
           \/ exec[r] = "fail_verification" /\ FailAs(r, "FAILED_VERIFICATION")
           \/ FailAs(r, "FAILED_EXECUTION")
    BY <1>10 DEF FailRequest, Goto, world
  <2>2. HandlerKnowsCommand'
    BY <1>1, <2>1 DEF HandlerKnowsCommand, FailAs, Request, Unsent, Applied
  <2>3. EventFollowsRequest' /\ SealedIsFinal' /\ ChecksAreCurrent' /\ DecisionStands' /\ ClosedByRecovery'
    <3>1. CASE UNCHANGED <<req, ev>>
      BY <2>1, <3>1, Frame DEF pipe
    <3>2. CASE ~UNCHANGED <<req, ev>>
      <4>1. (\E status \in Failed : FailAs(r, status)) /\ \A k \in Requests \ {r} : exec'[k] = exec[k]
        BY <1>1, <2>1, <3>2 DEF Failed
      <4> QED BY <2>1, <4>1, KeepFailAs
    <3> QED BY <3>1, <3>2
  <2> QED BY <1>0, <2>2, <2>3
<1>11. CASE AgentExecutes(r)
  <2>1. /\ command[r] = "pending" /\ UNCHANGED <<req, ev, exec, logs, incidents, decision, pipe>>
        /\ \E c \in {"written", "refused"} : command' = [command EXCEPT ![r] = c]
    BY <1>11 DEF AgentExecutes
  <2>2. HandlerKnowsCommand'
    BY <1>1, <2>1 DEF HandlerKnowsCommand
  <2> QED BY <1>0, <2>1, <2>2, Frame DEF pipe
<1>12. CASE Overdue(r)
  <2>1. OthersKeep(r) /\ UNCHANGED <<exec, command, ev>>
    BY <1>1, <1>12 DEF Overdue, OthersKeep
  <2>2. req[r].status = "EXECUTING" /\ req'[r].status = "EXECUTING" /\ req'[r].cdc = req[r].cdc
    BY <1>1, <1>12 DEF Overdue, Request
  <2>3. HandlerKnowsCommand'
    BY <2>1, <2>2 DEF HandlerKnowsCommand, OthersKeep, Unsent, Applied
  <2>4. EventFollowsRequest' /\ SealedIsFinal' /\ ChecksAreCurrent' /\ DecisionStands' /\ ClosedByRecovery'
    BY <1>12, <2>1, <2>2, KeepEarly DEF Overdue, world, Unsent, Applied, EventFollowsRequest
  <2> QED BY <1>0, <2>3, <2>4
<1>13. CASE DeadlinePasses(r)
  <2>1. req' = [req EXCEPT ![r] = [req[r] EXCEPT !.until = Len(logs)]]
        /\ UNCHANGED <<exec, command, ev, logs, incidents, decision, pipe>>
    BY <1>13 DEF DeadlinePasses, world
  <2>2. \A k \in Requests :
          /\ req'[k].status = req[k].status /\ req'[k].cdc = req[k].cdc /\ req'[k].result = req[k].result
          /\ req'[k].since = req[k].since /\ req'[k].desired = req[k].desired
          /\ req'[k].incident = req[k].incident
    BY <1>1, <2>1 DEF Request
  <2>3. \A k \in Requests : \A i : Proves(i, k) => Proves(i, k)'
    BY <2>1, <2>2 DEF Proves
  <2>4. HandlerKnowsCommand'
    BY <2>1, <2>2 DEF HandlerKnowsCommand
  <2>5. EventFollowsRequest'
    BY <2>1, <2>2, <2>3 DEF EventFollowsRequest, Waiting
  <2>6. DecisionStands'
    <3>1. \A g \in Reconcilers : decision[g].request \subseteq Requests
      BY DEF TypeOK, DecisionsOK
    <3> QED BY <2>1, <2>2, <2>3, <3>1 DEF DecisionStands
  <2>7. ClosedByRecovery'
    BY <2>1, <2>2 DEF ClosedByRecovery
  <2> QED BY <1>0, <2>1, <2>4, <2>5, <2>6, <2>7, Frame DEF pipe
<1>14. CASE GiveUp(r)
  <2>1. HandlerKnowsCommand'
    BY <1>1, <1>14 DEF HandlerKnowsCommand, GiveUp, FailAs, Request, Unsent, Applied
  <2>2. "FAILED_EXECUTION" \in Failed
    BY DEF Failed
  <2> QED BY <1>0, <1>14, <2>1, <2>2, KeepFailAs DEF GiveUp, world
<1> QED BY <1>2, <1>3, <1>4, <1>5, <1>6, <1>7, <1>8, <1>9, <1>10, <1>11, <1>12, <1>13, <1>14
        DEF RequestStep, Handler, TimePasses

(* What a reconciler records of a request it finds waiting: the event has  *)
(* not been sealed, so nobody holds a copy of it that matters.             *)
LEMMA KeepMark ==
  ASSUME RecoveryInv, NEW g \in Reconcilers, NEW r \in decision[g].request,
         MarkConfirmed(g, r) \/ MarkTimeout(g, r), TypeOK'
  PROVE  RecoveryInv'
<1> USE DEF RecoveryInv
<1>1. /\ r \in Requests /\ req[r] \in Request /\ ev[r] \in Event
      /\ DOMAIN req = Requests /\ DOMAIN ev = Requests
      /\ \A h \in Reconcilers : decision[h].request \subseteq Requests
  BY DEF TypeOK, RequestsOK, EventsOK, DecisionsOK
<1>2. \A h \in Reconcilers : decision'[h] \in {decision[h], NoDecision}
  BY DEF TypeOK, DecisionsOK, MarkConfirmed, MarkTimeout, Decide
<1>3. UNCHANGED <<logs, incidents, exec, command, pipe>>
  BY DEF MarkConfirmed, MarkTimeout, world
<1>4. CASE ~Waiting(r)
  <2>1. UNCHANGED <<req, ev>>
    BY <1>4 DEF MarkConfirmed, MarkTimeout
  <2>2. DecisionStands'
    BY <1>2, <1>3, <2>1 DEF DecisionStands, NoDecision, Proves
  <2> QED BY <1>3, <2>1, <2>2, Frame DEF pipe
<1>5. CASE Waiting(r)
  <2>1. ev[r].cdc = "PENDING" /\ ev[r].pipeline = "HASHED" /\ req[r].status = "APPLIED_AWAITING_CDC"
    BY <1>1, <1>5 DEF EventFollowsRequest, SealedIsFinal, FinalCdc, Waiting
  <2>2. OthersKeep(r)
    BY <1>1, <1>3 DEF MarkConfirmed, MarkTimeout, OthersKeep
  <2>3. /\ req'[r].since = req[r].since /\ req'[r].desired = req[r].desired
        /\ ev'[r].pipeline = "HASHED" /\ ev'[r].integrity = ev[r].integrity
        /\ \/ /\ decision[g].kind = "confirm"
              /\ req'[r].status = "APPLIED_AWAITING_CDC" /\ req'[r].cdc = "CONFIRMED"
              /\ req'[r].result = decision[g].log
              /\ ev'[r].result = "SUCCEEDED" /\ ev'[r].cdc = "CONFIRMED" /\ ev'[r].log = decision[g].log
           \/ /\ req'[r].status = "APPLIED_CDC_TIMEOUT" /\ req'[r].cdc = "TIMEOUT"
              /\ ev'[r].result = "APPLIED_CDC_TIMEOUT" /\ ev'[r].cdc = "TIMEOUT"
    <3>1. CASE MarkConfirmed(g, r)
      BY <1>1, <1>5, <2>1, <3>1 DEF MarkConfirmed, Request, Event
    <3>2. CASE MarkTimeout(g, r)
      BY <1>1, <1>5, <2>1, <3>2 DEF MarkTimeout, Request, Event
    <3> QED BY <3>1, <3>2
  <2>4. \A k \in Requests : \A i : Proves(i, k) => Proves(i, k)'
    BY <1>3, <2>2, <2>3 DEF Proves, OthersKeep
  <2>5. HandlerKnowsCommand'
    BY <1>3, <2>1, <2>2, <2>3 DEF HandlerKnowsCommand, OthersKeep, Unsent, Applied
  <2>6. EventFollowsRequest'
    <3>1. decision[g].kind = "confirm" => Proves(decision[g].log, r)
      BY DEF DecisionStands
    <3>2. decision[g].kind = "confirm" /\ req'[r].result = decision[g].log => Proves(req[r].result, r)'
      <4>1. \A i : Proves(i, r) /\ i = req'[r].result => Proves(req[r].result, r)'
        BY <1>3, <2>3 DEF Proves
      <4> QED BY <3>1, <4>1
    <3>3. \A k \in Requests \ {r} : Proves(req[k].result, k) => Proves(req[k].result, k)'
      BY <1>3, <2>2 DEF Proves, OthersKeep
    <3> QED BY <2>1, <2>2, <2>3, <3>2, <3>3 DEF EventFollowsRequest, OthersKeep, Waiting, Unsent
  <2>7. SealedIsFinal'
    <3>1. \A h \in Pipelines : DOMAIN sealing[h] \subseteq Requests /\ r \notin DOMAIN sealing[h]
      BY <2>1 DEF TypeOK, SealingOK, SealedIsFinal, FinalCdc
    <3> QED BY <1>3, <2>2, <2>3, <3>1 DEF SealedIsFinal, OthersKeep, Content, pipe
  <2>8. ChecksAreCurrent'
    <3>1. \A v \in Pipelines \cup Users : check[v].request \subseteq Requests
      BY DEF TypeOK, ChecksOK
    <3> QED BY <1>3, <2>1, <2>2, <2>3, <3>1 DEF ChecksAreCurrent, OthersKeep, Content, pipe
  <2>9. DecisionStands'
    BY <1>1, <1>2, <2>2, <2>3, <2>4 DEF DecisionStands, NoDecision, OthersKeep, Applied
  <2>10. ClosedByRecovery'
    BY <1>1, <1>3, <2>1, <2>2, <2>3 DEF ClosedByRecovery, OthersKeep
  <2> QED BY <2>5, <2>6, <2>7, <2>8, <2>9, <2>10
<1> QED BY <1>4, <1>5

LEMMA KeepGateway ==
  ASSUME RecoveryInv, GatewayStep
  PROVE  RecoveryInv'
<1> USE DEF RecoveryInv
<1>0. TypeOK'
  BY TypeGateway
<1>1. /\ \A r \in Requests : ev[r] \in Event
      /\ \A g \in Reconcilers : decision[g].request \subseteq Requests
      /\ \A g \in Pipelines : DOMAIN sealing[g] \subseteq Requests
      /\ \A v \in Pipelines \cup Users : check[v].request \subseteq Requests
  BY DEF TypeOK, EventsOK, DecisionsOK, SealingOK, ChecksOK
<1>2. ASSUME NEW g \in Reconcilers, NEW r \in Requests, Reconcile(g, r) PROVE RecoveryInv'
  <2>1. \A h \in Reconcilers : decision'[h] \in {decision[h], Decided(r)}
    BY <1>2 DEF Reconcile, TypeOK, DecisionsOK
  <2>2. /\ Decided(r).request \subseteq {r}
        /\ Decided(r).kind = "confirm" => Proves(Decided(r).log, r)
    BY DecidedChooses DEF TypeOK
  <2>3. UNCHANGED <<req, logs>> /\ req[r].status \in Applied
    BY <1>2 DEF Reconcile, Waiting, Applied, world
  <2> HIDE DEF RecoveryInv
  <2>4. DecisionStands'
    <3>1. DecisionStands
      BY DEF RecoveryInv
    <3>2. \A i, k : Proves(i, k) => Proves(i, k)'
      BY <2>3 DEF Proves
    <3>3. ASSUME NEW h \in Reconcilers, NEW k \in decision'[h].request
          PROVE  req[k].status \in Applied /\ (decision'[h].kind = "confirm" => Proves(decision'[h].log, k))
      <4>1. CASE decision'[h] = decision[h]
        BY <3>1, <3>3, <4>1 DEF DecisionStands
      <4>2. CASE decision'[h] = Decided(r)
        BY <2>2, <2>3, <3>3, <4>2
      <4> QED BY <2>1, <4>1, <4>2
    <3> QED BY <2>3, <3>2, <3>3 DEF DecisionStands
  <2> QED BY <1>0, <1>2, <2>4, Frame DEF Reconcile, world, pipe, RecoveryInv
<1>3. ASSUME NEW g \in Reconcilers, NEW r \in Requests, MarkConfirmed(g, r) \/ MarkTimeout(g, r)
      PROVE  RecoveryInv'
  BY <1>0, <1>3, KeepMark DEF MarkConfirmed, MarkTimeout
<1>4. ASSUME NEW g \in Reconcilers, MarkFails(g) PROVE RecoveryInv'
  <2>1. \A h \in Reconcilers : decision'[h] \in {decision[h], NoDecision}
    BY <1>4 DEF MarkFails, Decide, TypeOK, DecisionsOK
  <2>2. DecisionStands'
    BY <1>4, <2>1 DEF DecisionStands, NoDecision, MarkFails, Proves, world
  <2> QED BY <1>0, <1>4, <2>2, Frame DEF MarkFails, world, pipe
<1>5. ASSUME NEW g \in Pipelines, ReadEvents(g) PROVE RecoveryInv'
  <2>1. \A h \in Pipelines : sealing'[h] \in {sealing[h], [r \in SealableEvents |-> Content(ev[r])]}
    BY <1>5 DEF ReadEvents, TypeOK, SealingOK
  <2>2. SealedIsFinal'
    BY <1>5, <2>1 DEF SealedIsFinal, SealableEvents, ReadEvents, Content
  <2> QED BY <1>0, <1>5, <2>2, Frame DEF ReadEvents, world
<1>6. ASSUME NEW g \in Pipelines, SealEvents(g) PROVE RecoveryInv'
  <2> DEFINE batch == DOMAIN sealing[g]
  <2>1. \A h \in Pipelines : sealing'[h] \in {sealing[h], NoBatch}
    BY <1>6 DEF SealEvents, TypeOK, SealingOK
  <2>2. CASE UNCHANGED ev
    <3>1. SealedIsFinal'
      BY <2>1, <2>2, EmptyTypes DEF SealedIsFinal, Content
    <3> QED BY <1>0, <1>6, <2>2, <3>1, Frame DEF SealEvents, world
  <2>3. CASE ~UNCHANGED ev
    <3>1. /\ \A r \in batch : ev[r].pipeline = "HASHED"
          /\ ev' = [r \in Requests |->
                      IF r \in batch THEN [ev[r] EXCEPT !.pipeline = "AGGREGATED", !.root = batch,
                                                        !.leaf = sealing[g][r]]
                      ELSE ev[r]]
      BY <1>6, <2>3 DEF SealEvents
    <3>2. \A r \in batch : ev[r].cdc \in FinalCdc /\ sealing[g][r] = Content(ev[r])
      BY DEF SealedIsFinal
    <3>3. \A r \in Requests :
            /\ r \in batch => ev'[r].pipeline = "AGGREGATED" /\ ev'[r].leaf = sealing[g][r]
            /\ r \notin batch => ev'[r] = ev[r]
            /\ ev'[r].result = ev[r].result /\ ev'[r].cdc = ev[r].cdc /\ ev'[r].log = ev[r].log
            /\ ev'[r].integrity = ev[r].integrity
      BY <1>1, <3>1 DEF Event
    <3>7. UNCHANGED <<logs, req, incidents, exec, command, decision, check>>
      BY <1>6 DEF SealEvents, world
    <3> HIDE DEF batch
    <3>4. EventFollowsRequest'
      <4>1. \A r \in batch : ev[r] # NoEvent
        BY <3>2 DEF FinalCdc, NoEvent
      <4>2. \A i, k : Proves(i, k) => Proves(i, k)'
        BY <3>7 DEF Proves
      <4>3. \A r \in batch : req[r].status \notin Unsent \cup {"EXECUTING", "SUCCEEDED"}
        BY <1>1, <3>1, <4>1 DEF EventFollowsRequest, batch
      <4>4. ASSUME NEW r \in Requests
            PROVE  req[r].status \in Unsent \cup {"EXECUTING", "SUCCEEDED"} => ev'[r] = ev[r]
        BY <3>3, <4>3
      <4> HIDE DEF RecoveryInv
      <4>5. EventFollowsRequest
        BY DEF RecoveryInv
      <4> QED BY <3>3, <3>7, <4>2, <4>4, <4>5 DEF EventFollowsRequest, Waiting
    <3>5. SealedIsFinal'
      BY <1>1, <2>1, <3>2, <3>3, EmptyTypes DEF SealedIsFinal, Content
    <3>6. ChecksAreCurrent'
      <4>1. ASSUME NEW r \in Requests
            PROVE  /\ ev'[r].result = ev[r].result /\ Content(ev'[r]) = Content(ev[r])
                   /\ ev[r].pipeline = "ANCHORED" => ev'[r].pipeline = "ANCHORED"
        <5> HIDE DEF RecoveryInv
        <5>1. r \in batch \/ ev'[r] = ev[r]
          BY <3>3
        <5>2. r \in batch => ev[r].pipeline = "HASHED"
          BY <3>1 DEF batch
        <5> QED BY <3>3, <5>1, <5>2 DEF Content
      <4> HIDE DEF RecoveryInv
      <4>2. ChecksAreCurrent /\ UNCHANGED check
        BY <3>7 DEF RecoveryInv
      <4> QED BY <1>1, <4>1, <4>2 DEF ChecksAreCurrent, Content
    <3> QED BY <1>0, <3>4, <3>5, <3>6, <3>7, Frame
  <2> QED BY <2>2, <2>3
<1>7. ASSUME NEW root \in SUBSET Requests, AnchorRoot(root) PROVE RecoveryInv'
  <2>1. \A r \in Requests : \/ ev'[r] = ev[r]
                            \/ ev[r].pipeline = "AGGREGATED" /\ ev'[r] = [ev[r] EXCEPT !.pipeline = "ANCHORED"]
    BY <1>7 DEF AnchorRoot, TypeOK, EventsOK
  <2>2. \A r \in Requests :
          /\ ev'[r].result = ev[r].result /\ ev'[r].cdc = ev[r].cdc /\ ev'[r].log = ev[r].log
          /\ ev'[r].integrity = ev[r].integrity /\ ev'[r].leaf = ev[r].leaf
          /\ ev[r].pipeline = "ANCHORED" => ev'[r].pipeline = "ANCHORED"
          /\ ev'[r].pipeline # "HASHED" => ev[r].pipeline # "HASHED"
          /\ ev[r] = NoEvent => ev'[r] = ev[r]
    <3> TAKE r \in Requests
    <3>1. CASE ev'[r] = ev[r]
      BY <3>1
    <3>2. CASE ev[r].pipeline = "AGGREGATED" /\ ev'[r] = [ev[r] EXCEPT !.pipeline = "ANCHORED"]
      <4> HIDE DEF RecoveryInv
      <4>1. ev[r] \in Event /\ ev[r] # NoEvent
        BY <1>1, <3>2 DEF NoEvent
      <4> QED BY <3>2, <4>1 DEF Event
    <3> QED BY <2>1, <3>1, <3>2
  <2>3. UNCHANGED <<logs, req, incidents, exec, command, decision, pipe>>
    BY <1>7 DEF AnchorRoot, world
  <2>4. EventFollowsRequest'
    <3>1. \A i, k : Proves(i, k) => Proves(i, k)'
      BY <2>3 DEF Proves
    <3> QED BY <2>2, <2>3, <3>1 DEF EventFollowsRequest, Waiting
  <2>5. SealedIsFinal'
    BY <1>1, <2>2, <2>3 DEF SealedIsFinal, Content, pipe
  <2>6. ChecksAreCurrent'
    BY <1>1, <2>2, <2>3 DEF ChecksAreCurrent, Content, pipe
  <2> QED BY <1>0, <2>3, <2>4, <2>5, <2>6, Frame DEF pipe
<1>8. ASSUME NEW g, NEW handlers \in SUBSET Running, Crash(g, handlers) PROVE RecoveryInv'
  <2>1. UNCHANGED <<logs, req, incidents, ev, command>>
    BY <1>8 DEF Crash, world
  <2>2. HandlerKnowsCommand'
    BY <1>8, <2>1 DEF HandlerKnowsCommand, Crash, Running
  <2>3. SealedIsFinal'
    <3>1. \A h \in Pipelines : sealing'[h] \in {sealing[h], NoBatch}
      BY <1>8 DEF Crash, Restarted, TypeOK, SealingOK
    <3> QED BY <2>1, <3>1, EmptyTypes DEF SealedIsFinal, Content
  <2>4. ChecksAreCurrent'
    <3>1. \A v \in Pipelines \cup Users : check'[v] \in {check[v], NoCheck}
      BY <1>8 DEF Crash, Restarted, TypeOK, ChecksOK
    <3> QED BY <2>1, <3>1 DEF ChecksAreCurrent, NoCheck, NoEvent, Content
  <2>5. DecisionStands'
    <3>1. \A h \in Reconcilers : decision'[h] \in {decision[h], NoDecision}
      BY <1>8 DEF Crash, Restarted, TypeOK, DecisionsOK
    <3> QED BY <2>1, <3>1 DEF DecisionStands, NoDecision, Proves
  <2> QED BY <1>0, <2>1, <2>2, <2>3, <2>4, <2>5, Frame
<1> QED BY <1>2, <1>3, <1>4, <1>5, <1>6, <1>7, <1>8 DEF GatewayStep, Reconciler

LEMMA KeepVerify ==
  ASSUME RecoveryInv, VerifyStep
  PROVE  RecoveryInv'
<1> USE DEF RecoveryInv
<1> PICK r \in Requests, v \in Pipelines \cup Users : Verify(v, r)
  BY DEF VerifyStep
<1>0. TypeOK'
  BY TypeVerify
<1>1. /\ req[r] \in Request /\ ev[r] \in Event /\ DOMAIN req = Requests /\ DOMAIN ev = Requests
      /\ DOMAIN check = Pipelines \cup Users
      /\ \A w \in Pipelines \cup Users : /\ check[w].request \subseteq Requests
                                        /\ check[w].copy \in Event
                                        /\ DOMAIN check[w] = {"pc", "request", "copy"}
  BY DEF TypeOK, RequestsOK, EventsOK, ChecksOK
<1>2. UNCHANGED logs => \A i, k : req'[k] = req[k] /\ Proves(i, k) => Proves(i, k)'
  BY DEF Proves
<1>3. UNCHANGED ev /\ LeaveCheck(v) => ChecksAreCurrent'
  <2>1. LeaveCheck(v) => \A w \in Pipelines \cup Users : check'[w] \in {check[w], NoCheck}
    BY <1>1 DEF LeaveCheck
  <2> QED BY <2>1 DEF ChecksAreCurrent, NoCheck, NoEvent, Content
<1>4. CASE ReadEvent(v, r)
  <2>1. /\ check' = [check EXCEPT ![v] = [pc |-> "verify", request |-> {r}, copy |-> ev[r]]]
        /\ ev[r] # NoEvent /\ UNCHANGED <<logs, req, ev, incidents, exec, command, decision, sealing>>
    BY <1>4 DEF ReadEvent, world
  <2>2. ev[r].result # "NONE" /\ (ev[r].pipeline # "HASHED" => ev[r].leaf = Content(ev[r]))
    BY <2>1 DEF EventFollowsRequest, SealedIsFinal
  <2>3. ChecksAreCurrent'
    <3> HIDE DEF RecoveryInv
    <3>1. ChecksAreCurrent
      BY DEF RecoveryInv
    <3>2. check'[v] = [pc |-> "verify", request |-> {r}, copy |-> ev[r]]
      BY <1>1, <2>1
    <3>3. \A w \in Pipelines \cup Users : w # v => check'[w] = check[w]
      BY <1>1, <2>1
    <3> QED BY <2>1, <2>2, <3>1, <3>2, <3>3 DEF ChecksAreCurrent, Content
  <2> QED BY <1>0, <2>1, <2>3, Frame
<1>5. CASE VerifyEvent(v, r)
  <2> DEFINE verdict == Verdict(check[v].copy)
  <2>1. verdict \in {"PENDING", "VALID"} /\ (verdict = "VALID" => check[v].copy.pipeline = "ANCHORED")
    BY <1>1 DEF Verdict, ChecksAreCurrent
  <2>2. /\ r \in check[v].request /\ ev' = [ev EXCEPT ![r].integrity = verdict]
        /\ UNCHANGED <<logs, req, incidents, exec, command, decision, sealing>>
        /\ IF verdict = "VALID" THEN check' = [check EXCEPT ![v].pc = "finalize"] ELSE LeaveCheck(v)
    BY <1>5 DEF VerifyEvent, world
  <2> HIDE DEF verdict
  <2>3. ev[r].result # "NONE" /\ ev[r] # NoEvent
    BY <2>2 DEF ChecksAreCurrent, NoEvent
  <2>4. \A k \in Requests :
          /\ k # r => ev'[k] = ev[k]
          /\ ev'[k].result = ev[k].result /\ ev'[k].cdc = ev[k].cdc /\ ev'[k].log = ev[k].log
          /\ ev'[k].pipeline = ev[k].pipeline /\ ev'[k].leaf = ev[k].leaf
          /\ ev'[k].integrity \in {ev[k].integrity, verdict}
    BY <1>1, <2>2 DEF Event
  <2> HIDE DEF RecoveryInv
  <2>5. EventFollowsRequest'
    <3>1. EventFollowsRequest
      BY DEF RecoveryInv
    <3>2. req[r].status \notin Unsent \cup {"EXECUTING"}
      BY <2>3, <3>1 DEF EventFollowsRequest
    <3> QED BY <1>2, <2>2, <2>4, <3>1, <3>2 DEF EventFollowsRequest, Waiting
  <2>6. SealedIsFinal'
    <3>1. SealedIsFinal /\ \A h \in Pipelines : DOMAIN sealing[h] \subseteq Requests
      BY DEF RecoveryInv, TypeOK, SealingOK
    <3> QED BY <2>1, <2>2, <2>4, <3>1 DEF SealedIsFinal, Content
  <2>7. ChecksAreCurrent'
    <3>1. ChecksAreCurrent
      BY DEF RecoveryInv
    <3>2. \A w \in Pipelines \cup Users :
            \/ check'[w] \in {check[w], NoCheck}
            \/ /\ w = v /\ verdict = "VALID"
               /\ check'[w].copy = check[w].copy /\ check'[w].request = check[w].request
      BY <1>1, <2>2 DEF LeaveCheck
    <3> QED BY <1>1, <2>1, <2>4, <3>1, <3>2 DEF ChecksAreCurrent, NoCheck, NoEvent, Content
  <2> QED BY <1>0, <2>2, <2>5, <2>6, <2>7, Frame DEF RecoveryInv
<1>6. CASE VerifyFails(v, r)
  <2>1. /\ r \in check[v].request /\ ev' \in {ev, [ev EXCEPT ![r].integrity = "UNREACHABLE"]}
        /\ UNCHANGED <<logs, req, incidents, exec, command, decision, sealing>> /\ LeaveCheck(v)
    BY <1>6 DEF VerifyFails, world
  <2>3. ev[r].result # "NONE" /\ ev[r] # NoEvent
    BY <2>1 DEF ChecksAreCurrent, NoEvent
  <2>4. \A k \in Requests :
          /\ k # r => ev'[k] = ev[k]
          /\ ev'[k].result = ev[k].result /\ ev'[k].cdc = ev[k].cdc /\ ev'[k].log = ev[k].log
          /\ ev'[k].pipeline = ev[k].pipeline /\ ev'[k].leaf = ev[k].leaf
          /\ ev'[k].integrity \in {ev[k].integrity, "UNREACHABLE"}
    BY <1>1, <2>1 DEF Event
  <2> HIDE DEF RecoveryInv
  <2>5. EventFollowsRequest'
    <3>1. EventFollowsRequest
      BY DEF RecoveryInv
    <3>2. req[r].status \notin Unsent \cup {"EXECUTING"}
      BY <2>3, <3>1 DEF EventFollowsRequest
    <3> QED BY <1>2, <2>1, <2>4, <3>1, <3>2 DEF EventFollowsRequest, Waiting
  <2>6. SealedIsFinal'
    <3>1. SealedIsFinal /\ \A h \in Pipelines : DOMAIN sealing[h] \subseteq Requests
      BY DEF RecoveryInv, TypeOK, SealingOK
    <3> QED BY <2>1, <2>4, <3>1 DEF SealedIsFinal, Content
  <2>7. ChecksAreCurrent'
    <3>1. ChecksAreCurrent
      BY DEF RecoveryInv
    <3>2. \A w \in Pipelines \cup Users : check'[w] \in {check[w], NoCheck}
      BY <1>1, <2>1 DEF LeaveCheck
    <3> QED BY <1>1, <2>4, <3>1, <3>2 DEF ChecksAreCurrent, NoCheck, NoEvent, Content
  <2> QED BY <1>0, <2>1, <2>5, <2>6, <2>7, Frame DEF RecoveryInv
<1>7. CASE Finalize(v, r)
  <2>1. /\ check[v].pc = "finalize" /\ r \in check[v].request /\ LeaveCheck(v)
        /\ UNCHANGED <<logs, ev, exec, command, decision, sealing>>
    BY <1>7 DEF Finalize, world
  <2>2. CASE ~Finalizable(v, r)
    BY <1>0, <1>3, <1>7, <2>1, <2>2, Frame DEF Finalize
  <2>3. CASE Finalizable(v, r)
    <3> DEFINE i == req[r].incident
    <3>1. /\ req' = [req EXCEPT ![r].status = "SUCCEEDED", ![r].result = check[v].copy.log]
          /\ incidents' = [incidents EXCEPT ![i].status = "RESOLVED"]
      BY <1>7, <2>3 DEF Finalize
    <3>2. req[r].status = "APPLIED_AWAITING_CDC" /\ req[r].cdc = "CONFIRMED"
      BY <2>3 DEF Finalizable
    <3>3. ev[r].pipeline = "ANCHORED" /\ Content(ev[r]) = Content(check[v].copy)
      BY <2>1 DEF ChecksAreCurrent
    <3>4. check[v].copy.log = req[r].result
      BY <3>2, <3>3 DEF Content, EventFollowsRequest
    <3>5. /\ req'[r].status = "SUCCEEDED" /\ req'[r].cdc = "CONFIRMED" /\ req'[r].result = req[r].result
          /\ req'[r].since = req[r].since /\ req'[r].desired = req[r].desired /\ req'[r].incident = i
          /\ \A k \in Requests \ {r} : req'[k] = req[k]
      BY <1>1, <3>1, <3>2, <3>4 DEF Request
    <3>6. \A k \in Requests : \A n : Proves(n, k) => Proves(n, k)'
      BY <2>1, <3>5 DEF Proves
    <3>7. HandlerKnowsCommand'
      BY <2>1, <3>2, <3>5 DEF HandlerKnowsCommand, Unsent, Applied
    <3>8. EventFollowsRequest'
      BY <2>1, <3>2, <3>3, <3>5, <3>6 DEF EventFollowsRequest, Unsent, Waiting
    <3>9. DecisionStands'
      <4>1. \A g \in Reconcilers : decision[g].request \subseteq Requests
        BY DEF TypeOK, DecisionsOK
      <4> QED BY <2>1, <3>5, <3>6, <4>1 DEF DecisionStands, Applied
    <3>10. ClosedByRecovery'
      <4>1. i \in DOMAIN incidents
        BY <3>2 DEF TypeOK, RequestsOK, PositionsOK
      <4>2. \A k \in DOMAIN incidents : incidents[k] \in Incident
        BY DEF TypeOK, WorldOK
      <4> HIDE DEF RecoveryInv, i
      <4>3. /\ DOMAIN incidents' = DOMAIN incidents /\ incidents'[i].status = "RESOLVED"
            /\ \A k \in DOMAIN incidents \ {i} : incidents'[k] = incidents[k]
        BY <3>1, <4>1, <4>2 DEF Incident
      <4>4. ClosedByRecovery
        BY DEF RecoveryInv
      <4> QED BY <3>2, <3>5, <4>3, <4>4 DEF ClosedByRecovery, i
    <3> QED BY <1>0, <1>3, <2>1, <3>7, <3>8, <3>9, <3>10, Frame
  <2> QED BY <2>2, <2>3
<1>8. CASE FinalizeFails(v, r)
  BY <1>0, <1>3, <1>8, Frame DEF FinalizeFails, world
<1> QED BY <1>4, <1>5, <1>6, <1>7, <1>8 DEF Verify

-----------------------------------------------------------------------------
(* The invariant, and what it says of the recovery.                        *)

(* The invariant: handler and command agree, events follow their requests, *)
(* what was read before a write is still so when it is written.            *)
THEOREM RecoveryInvariant == Spec => []RecoveryInv
<1>1. ASSUME RecoveryInv, [Next]_vars PROVE RecoveryInv'
  <2>1. CASE UNCHANGED vars
    <3>1. TypeOK'
      BY <1>1, <2>1, TypeFrame DEF vars, TypeOK, pipe, RecoveryInv
    <3> QED BY <1>1, <2>1, <3>1, Frame DEF vars, world, pipe, RecoveryInv
  <2> QED BY <1>1, <2>1, Steps, KeepWorld, KeepRequest, KeepGateway, KeepVerify
<1> QED BY <1>1, RecoveryInit, PTL DEF Spec

(* A request is SUCCEEDED only after its command wrote the row, a later    *)
(* log showed the frozen state, and anchored evidence names that log.      *)
THEOREM SuccessIsProven == Spec => []SucceededIsProven
<1>1. RecoveryInv => SucceededIsProven
  <2> SUFFICES ASSUME RecoveryInv, NEW r \in Requests, req[r].status = "SUCCEEDED"
               PROVE  /\ command[r] = "written"
                      /\ req[r].result > req[r].since /\ logs[req[r].result].state = req[r].desired
                      /\ ev[r].pipeline = "ANCHORED"
                      /\ ev[r].leaf = <<"SUCCEEDED", "CONFIRMED", req[r].result>>
    BY DEF SucceededIsProven
  <2>1. command[r] = "written"
    BY DEF RecoveryInv, HandlerKnowsCommand, Applied
  <2>2. /\ ev[r].result = "SUCCEEDED" /\ ev[r].cdc = "CONFIRMED" /\ ev[r].log = req[r].result
        /\ Proves(req[r].result, r) /\ ev[r].pipeline = "ANCHORED"
    BY DEF RecoveryInv, EventFollowsRequest
  <2>3. ev[r].leaf = Content(ev[r])
    BY <2>2 DEF RecoveryInv, SealedIsFinal
  <2> QED BY <2>1, <2>2, <2>3 DEF Proves, Content
<1> QED BY <1>1, RecoveryInvariant, PTL

(* An incident is RESOLVED exactly when a recovery of it SUCCEEDED.        *)
THEOREM IncidentsClosedByRecovery == Spec => []ClosedByRecovery
<1>1. RecoveryInv => ClosedByRecovery
  BY DEF RecoveryInv
<1> QED BY <1>1, RecoveryInvariant, PTL

(* FAILED_VERIFICATION is only reported when no command of the request has *)
(* written the row or can still do so.                                     *)
THEOREM FailedVerificationIsHarmless == Spec => []FailedVerificationNeverWrote
<1>1. RecoveryInv => FailedVerificationNeverWrote
  BY DEF RecoveryInv, HandlerKnowsCommand, FailedVerificationNeverWrote
<1> QED BY <1>1, RecoveryInvariant, PTL

(* Sealed evidence keeps its content, so no verification of it says        *)
(* TAMPERED.                                                               *)
THEOREM EvidenceStaysFinal == Spec => []EvidenceIsFinal
<1>1. RecoveryInv => EvidenceIsFinal
  BY DEF RecoveryInv, SealedIsFinal, EvidenceIsFinal
<1> QED BY <1>1, RecoveryInvariant, PTL

(* No step, however late it comes, changes an outcome that was reported.   *)
THEOREM OutcomesStay == Spec => OutcomeIsFinal
<1> DEFINE Stay == \A k \in Requests : req[k].status \in Terminal => req'[k].status = req[k].status
<1>1. ASSUME TypeOK, Next PROVE Stay
  <2> USE DEF Terminal, Failed
  <2>1. \A k \in Requests : req[k] \in Request
    BY <1>1 DEF TypeOK, RequestsOK
  <2>2. DOMAIN req = Requests
    BY <1>1 DEF TypeOK, RequestsOK
  <2>3. CASE WorldStep
    BY <2>3 DEF WorldStep, ClientWrites, Ingest, OpenIncident, AnchorLog
  <2>4. ASSUME NEW r \in Requests, RequestStep(r) PROVE Stay
    <3>1. ASSUME NEW i, Prepare(r, i) PROVE Stay
      BY <2>2, <3>1 DEF Prepare
    <3>2. CASE InsertRequest(r) \/ Claim(r)
      BY <2>2, <3>2 DEF InsertRequest, Claim
    <3>3. CASE Revalidate(r) \/ AgentUnreachable(r) \/ PersistFails(r) \/ AgentExecutes(r)
      <4>1. UNCHANGED req
        <5> HIDE DEF Stay
        <5> QED BY <3>3 DEF Revalidate, AgentUnreachable, PersistFails, AgentExecutes
      <4> QED BY <4>1
    <3>4. CASE AgentReplies(r)
      <4>1. req'[r].status = req[r].status
        BY <2>1, <2>2, <3>4 DEF AgentReplies, Request
      <4>2. \A k \in Requests \ {r} : req'[k] = req[k]
        BY <2>2, <3>4 DEF AgentReplies
      <4> QED BY <4>1, <4>2
    <3>5. CASE Persist(r)
      BY <2>2, <3>5 DEF Persist
    <3>6. CASE FailRequest(r) \/ GiveUp(r)
      BY <2>2, <3>6 DEF FailRequest, GiveUp, FailAs
    <3>7. CASE Overdue(r) \/ DeadlinePasses(r)
      BY <2>2, <3>7 DEF Overdue, DeadlinePasses, Waiting
    <3> QED BY <2>4, <3>1, <3>2, <3>3, <3>4, <3>5, <3>6, <3>7 DEF RequestStep, Handler, TimePasses
  <2>5. CASE GatewayStep
    <3>1. ASSUME NEW g, NEW r, Reconcile(g, r) \/ MarkConfirmed(g, r) \/ MarkTimeout(g, r) PROVE Stay
      BY <2>2, <3>1 DEF Reconcile, MarkConfirmed, MarkTimeout, Waiting
    <3>2. ASSUME UNCHANGED req PROVE Stay
      BY <3>2
    <3> HIDE DEF Stay
    <3> QED BY <2>5, <3>1, <3>2 DEF GatewayStep, Reconciler, MarkFails, ReadEvents, SealEvents, AnchorRoot, Crash
  <2>6. CASE VerifyStep
    BY <2>2, <2>6 DEF VerifyStep, Verify, ReadEvent, VerifyEvent, VerifyFails, Finalize, Finalizable, FinalizeFails
  <2> QED BY <1>1, <2>3, <2>4, <2>5, <2>6, Steps
<1>2. TypeOK /\ [Next]_vars =>
        [\A r \in Requests : req[r].status \in Terminal => req'[r].status = req[r].status]_vars
  BY <1>1
<1> QED BY <1>2, RecoveryTypeCorrect, PTL DEF Spec, OutcomeIsFinal
=============================================================================
