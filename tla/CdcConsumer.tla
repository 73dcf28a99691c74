----------------------------- MODULE CdcConsumer -----------------------------
(***************************************************************************)
(* The Kafka consumer of one client on one partition of its change         *)
(* stream.  The consumer group gives the partition to one member at a      *)
(* time, but Reconcile starts the goroutine of a changed configuration     *)
(* without waiting for the cancelled one, which still finishes the message *)
(* it has fetched.  Offsets are committed in the background, once a        *)
(* second; a message is acknowledged whether its processing failed or not. *)
(* Changes of the client's user table also fill client_users, from which   *)
(* the ID of a log's actor is translated; a cache of the process stands    *)
(* before it.  The model has one user, who makes every change.             *)
(***************************************************************************)
EXTENDS Integers, Sequences, FiniteSets

CONSTANTS
  Stream,       \* the partition: change events in offset order
  Consumers,    \* goroutines of startClientConsumer, over all restarts
  Nobody,       \* the partition is assigned to no consumer
  MaxRestarts,  \* bound on crashes, rejoins, takeovers and switches
  MaxFaults     \* bound on database errors

(* read: the event is a Debezium snapshot read, which is not audited.      *)
(* name: what a change of the user table calls the user; else NoName.      *)
NoName == "id"   \* the actor stays the ID in its column

ASSUME StreamAssumption ==
  /\ Stream \in Seq({Stream[e] : e \in DOMAIN Stream})
  /\ \A e \in DOMAIN Stream : Stream[e].time \in Int /\ Stream[e].read \in BOOLEAN

ASSUME ConsumerBounds ==
  /\ IsFiniteSet(Consumers) /\ Nobody \notin Consumers
  /\ MaxRestarts \in Nat /\ MaxFaults \in Nat

VARIABLES
  logs,       \* audit_logs in commit order: event, actor and is_latest
  directory,  \* the user's name in client_users
  cache,      \* and in actorCache
  active,     \* is_active of the Kafka configuration
  committed,  \* offset of the group that the broker has stored
  acked,      \* offset of CommitMessages, not yet flushed to the broker
  member,     \* the consumer that the partition is assigned to
  pc, pos,    \* where each consumer stands, and in which message
  actor,      \* of the message in hand
  view,       \* rows whose is_latest the open transaction resets
  restarts, faults,
  dropped,    \* history: events whose processing returned an error
  overlaps,   \* history: takeovers from a consumer with a message in hand
  blind,      \* history: duplicate checks that failed
  misled      \* history: writes and lookups of the user that failed

names == <<directory, cache, actor>>
cdcVars == <<logs, names, active, committed, acked, member, pc, pos, view,
             restarts, faults, dropped, overlaps, blind, misled>>

-----------------------------------------------------------------------------

Events == DOMAIN Stream

History == <<dropped, overlaps, blind, misled>>
Spend == faults < MaxFaults /\ faults' = faults + 1
Restart == restarts < MaxRestarts /\ restarts' = restarts + 1
Goto(c, p) == pc' = [pc EXCEPT ![c] = p]

LogsOf(e) == {i \in DOMAIN logs : logs[i].event = e}

Init ==
  /\ logs = <<>>
  /\ directory = NoName /\ cache = NoName
  /\ actor = [c \in Consumers |-> NoName]
  /\ active = TRUE
  /\ committed = 0 /\ acked = 0
  /\ member = Nobody
  /\ pc = [c \in Consumers |-> "stopped"]
  /\ pos = [c \in Consumers |-> 0]
  /\ view = [c \in Consumers |-> {}]
  /\ restarts = 0 /\ faults = 0
  /\ dropped = {} /\ overlaps = 0 /\ blind = 0 /\ misled = 0

-----------------------------------------------------------------------------
(* Reconcile starts a consumer; it joins the group and reads on from the   *)
(* committed offset.                                                       *)

Resume(c) ==
  /\ member' = c
  /\ pos' = [pos EXCEPT ![c] = committed]
  /\ acked' = committed

Start(c) ==
  /\ active /\ member = Nobody
  /\ pc[c] = "stopped"
  /\ Resume(c)
  /\ Goto(c, "fetch")
  /\ UNCHANGED <<logs, names, active, committed, view, restarts, faults, History>>

(* A cancelled consumer stops at once only if it has no message in hand.   *)
Cancelled(next) ==
  LET idle == pc[member] = "fetch" IN
  /\ pc' = [next EXCEPT ![member] = IF idle THEN "stopped" ELSE @]
  /\ overlaps' = IF idle THEN overlaps ELSE overlaps + 1

(* The configuration has changed: the running consumer is cancelled and    *)
(* another started.                                                        *)
TakeOver(c) ==
  /\ active /\ member \in Consumers \ {c}
  /\ pc[c] = "stopped"
  /\ Restart
  /\ Resume(c)
  /\ Cancelled([pc EXCEPT ![c] = "fetch"])
  /\ UNCHANGED <<logs, names, active, committed, view, faults, dropped, blind, misled>>

(* An administrator switches the configuration, or deletes and creates it. *)
SetActive(on) ==
  /\ Restart
  /\ active' = on
  /\ UNCHANGED <<logs, names, committed, acked, member, pc, pos, view, faults, History>>

ToggleKafkaConfig == SetActive(~active)
CreateKafkaConfig == ~active /\ SetActive(TRUE)
DeleteKafkaConfig == active /\ SetActive(FALSE)

(* Reconcile stops a consumer whose configuration is no longer active.     *)
StopInactive ==
  /\ ~active /\ member # Nobody
  /\ Cancelled(pc)
  /\ member' = Nobody /\ acked' = committed
  /\ UNCHANGED <<logs, names, active, committed, pos, view, restarts, faults, dropped, blind, misled>>

(* A new topic was discovered: the reader is closed and opened again, and  *)
(* the offsets it had not flushed are lost if the last commit fails.       *)
Rejoin(c) ==
  /\ member = c /\ pc[c] = "fetch"
  /\ Restart
  /\ Resume(c)
  /\ UNCHANGED <<logs, names, active, committed, pc, view, faults, History>>

Crash ==
  /\ member # Nobody
  /\ Restart
  /\ member' = Nobody
  /\ pc' = [c \in Consumers |-> "stopped"]
  /\ view' = [c \in Consumers |-> {}]
  /\ actor' = [c \in Consumers |-> NoName]
  /\ cache' = NoName
  /\ pos' = [c \in Consumers |-> 0]
  /\ acked' = committed
  /\ UNCHANGED <<logs, directory, active, committed, faults, History>>

(* The commit loop of the reader, every CommitInterval.                    *)
Flush ==
  /\ acked # committed
  /\ committed' = acked
  /\ UNCHANGED <<logs, names, active, acked, member, pc, pos, view, restarts, faults, History>>

-----------------------------------------------------------------------------
(* The loop of discoverAndConsume and processMessage.                      *)

(* Changes of the user table go to client_users first; snapshot reads go   *)
(* no further.                                                             *)
AfterUser(e) == IF Stream[e].read THEN "ack" ELSE "resolve"
FirstStep(e) == IF Stream[e].name # NoName THEN "user" ELSE AfterUser(e)

FetchCommitting(c) ==   \* a bug: the message is acknowledged when it is fetched
  /\ member = c /\ pc[c] = "fetch" /\ pos[c] < Len(Stream)
  /\ pos' = [pos EXCEPT ![c] = @ + 1]
  /\ acked' = pos[c] + 1
  /\ Goto(c, FirstStep(pos[c] + 1))
  /\ UNCHANGED <<logs, names, active, committed, member, view, restarts, faults, History>>

Fetch(c) ==
  /\ member = c /\ pc[c] = "fetch" /\ pos[c] < Len(Stream)
  /\ pos' = [pos EXCEPT ![c] = @ + 1]
  /\ Goto(c, FirstStep(pos[c] + 1))
  /\ UNCHANGED <<logs, names, active, committed, acked, member, view, restarts, faults, History>>

(* processClientUserCDC: the row is inserted or updated, without a look at *)
(* errors, and the cached name forgotten.                                  *)
KeepName(c) ==   \* a bug: the cached name survives a change of the user
  /\ pc[c] = "user"
  /\ directory' = Stream[pos[c]].name
  /\ Goto(c, AfterUser(pos[c]))
  /\ UNCHANGED <<logs, cache, actor, active, committed, acked, member, pos, view, restarts,
                 faults, History>>

WriteUser(c) ==
  /\ pc[c] = "user"
  /\ \/ directory' = Stream[pos[c]].name /\ UNCHANGED <<faults, misled>>
     \/ Spend /\ misled' = misled + 1 /\ UNCHANGED directory
  /\ cache' = NoName
  /\ Goto(c, AfterUser(pos[c]))
  /\ UNCHANGED <<logs, actor, active, committed, acked, member, pos, view, restarts,
                 dropped, overlaps, blind>>

(* resolveActorName: the cached name, or that of client_users, which is    *)
(* then cached; the actor stays an ID if there is none or the query fails. *)
Resolve(c) ==
  /\ pc[c] = "resolve"
  /\ Goto(c, "check")
  /\ \/ LET known == IF cache # NoName THEN cache ELSE directory
        IN actor' = [actor EXCEPT ![c] = known] /\ cache' = known
        /\ UNCHANGED <<faults, misled>>
     \/ /\ cache = NoName /\ Spend /\ misled' = misled + 1
        /\ UNCHANGED <<actor, cache>>
  /\ UNCHANGED <<logs, directory, active, committed, acked, member, pos, view, restarts,
                 dropped, overlaps, blind>>

(* The duplicate check compares client, resource and timestamp.            *)
AlwaysNew(e) == FALSE   \* a bug: no duplicate check

Duplicate(e) ==
  \E i \in DOMAIN logs :
    /\ Stream[logs[i].event].resource = Stream[e].resource
    /\ Stream[logs[i].event].time = Stream[e].time

Check(c) ==
  /\ pc[c] = "check"
  /\ Goto(c, IF Duplicate(pos[c]) THEN "ack" ELSE "begin")
  /\ UNCHANGED <<logs, names, active, committed, acked, member, pos, view, restarts, faults,
                 History>>

(* An error of the query is taken for "no duplicate".                      *)
CheckFails(c) ==
  /\ pc[c] = "check"
  /\ Spend
  /\ blind' = blind + 1
  /\ Goto(c, "begin")
  /\ UNCHANGED <<logs, names, active, committed, acked, member, pos, view, restarts, dropped,
                 overlaps, misled>>

(* The transaction first resets is_latest of the rows it can see, which is *)
(* what was committed before its UPDATE began.                             *)
NoReset(e) == {}   \* a bug: is_latest of the earlier logs is not reset

EarlierLogs(e) == {i \in DOMAIN logs : Stream[logs[i].event].resource = Stream[e].resource}

BeginTx(c) ==
  /\ pc[c] = "begin"
  /\ view' = [view EXCEPT ![c] = EarlierLogs(pos[c])]
  /\ Goto(c, "insert")
  /\ UNCHANGED <<logs, names, active, committed, acked, member, pos, restarts, faults, History>>

WithLog(e, by, reset) ==
  Append([i \in DOMAIN logs |-> [logs[i] EXCEPT !.latest = @ /\ i \notin reset]],
         [event |-> e, actor |-> by, latest |-> TRUE])

EndTx(c) == view' = [view EXCEPT ![c] = {}]

CommitTx(c) ==
  /\ pc[c] = "insert"
  /\ logs' = WithLog(pos[c], actor[c], view[c])
  /\ EndTx(c)
  /\ Goto(c, "ack")
  /\ UNCHANGED <<names, active, committed, acked, member, pos, restarts, faults, History>>

FailAndReturn(c) ==   \* a bug: an error ends the consumer instead of being logged
  /\ pc[c] \in {"begin", "insert"}
  /\ Spend
  /\ dropped' = dropped \cup {pos[c]}
  /\ EndTx(c)
  /\ Goto(c, "stopped")
  /\ UNCHANGED <<logs, names, active, committed, acked, member, pos, restarts, overlaps, blind,
                 misled>>

(* The snapshot builder or the transaction fails, or its COMMIT succeeds   *)
(* and the reply is lost; the error is logged and the message acknowledged.*)
ProcessingFails(c) ==
  /\ pc[c] \in {"begin", "insert"}
  /\ Spend
  /\ logs' \in {logs} \cup {WithLog(e, actor[c], view[c]) : e \in IF pc[c] = "insert" THEN {pos[c]} ELSE {}}
  /\ dropped' = dropped \cup {pos[c]}
  /\ EndTx(c)
  /\ Goto(c, "ack")
  /\ UNCHANGED <<names, active, committed, acked, member, pos, restarts, overlaps, blind, misled>>

(* CommitMessages; the offset of a consumer that lost the partition counts *)
(* for nothing, and that consumer stops.                                   *)
Acknowledge(c) ==
  /\ pc[c] = "ack"
  /\ IF member = c THEN acked' = pos[c] /\ Goto(c, "fetch")
                   ELSE Goto(c, "stopped") /\ UNCHANGED acked
  /\ actor' = [actor EXCEPT ![c] = NoName]
  /\ UNCHANGED <<logs, directory, cache, active, committed, member, pos, view, restarts,
                 faults, History>>

-----------------------------------------------------------------------------

Consume(c) ==
  \/ Start(c) \/ Fetch(c)
  \/ WriteUser(c) \/ Resolve(c)
  \/ Check(c) \/ CheckFails(c)
  \/ BeginTx(c) \/ CommitTx(c) \/ ProcessingFails(c)
  \/ Acknowledge(c)

Next ==
  \/ \E c \in Consumers : Consume(c) \/ TakeOver(c) \/ Rejoin(c)
  \/ ToggleKafkaConfig \/ CreateKafkaConfig \/ DeleteKafkaConfig \/ StopInactive
  \/ Crash \/ Flush

(* Reconcile runs every 15 seconds, the loops of consumer and reader for   *)
(* ever; nothing has to restart or to fail.                                *)
Fairness ==
  /\ WF_cdcVars(Flush) /\ WF_cdcVars(StopInactive)
  /\ \A c \in Consumers : WF_cdcVars(Consume(c))

Spec == Init /\ [][Next]_cdcVars /\ Fairness

-----------------------------------------------------------------------------
(* Properties.                                                             *)

Names == {NoName} \cup {Stream[e].name : e \in Events}
Log == [event : Events, actor : Names, latest : BOOLEAN]
Steps == {"stopped", "fetch", "user", "resolve", "check", "begin", "insert", "ack"}

NamesOK == {directory, cache} \subseteq Names /\ actor \in [Consumers -> Names]
LogsOK == logs \in Seq(Log) /\ view \in [Consumers -> SUBSET DOMAIN logs]
OffsetsOK == acked \in 0..Len(Stream) /\ committed \in 0..acked
ConsumersOK ==
  /\ active \in BOOLEAN /\ member \in Consumers \cup {Nobody}
  /\ pc \in [Consumers -> Steps] /\ pos \in [Consumers -> 0..Len(Stream)]
HistoryOK ==
  /\ restarts \in Nat /\ faults \in Nat /\ dropped \subseteq Events
  /\ overlaps \in Nat /\ blind \in Nat /\ misled \in Nat

(* Every variable has its type; acknowledged offsets run ahead of the      *)
(* committed one and never behind it.                                      *)
TypeOK == NamesOK /\ LogsOK /\ OffsetsOK /\ ConsumersOK /\ HistoryOK

(* A change event behind the committed offset has its log, unless its      *)
(* processing returned an error: no crash, rejoin or takeover loses one.   *)
NothingLostByRestarts ==
  \A e \in 1..committed : Stream[e].read \/ e \in dropped \/ LogsOf(e) # {}

(* A redelivered event is logged again only if its duplicate check failed  *)
(* or two consumers had the partition in their hands at once.              *)
DuplicatesExplained ==
  \A e \in Events : Cardinality(LogsOf(e)) <= 1 + blind + overlaps

(* Of the logs of a resource one is the latest, whatever was redelivered;  *)
(* each overlap of two consumers may leave one more behind.                *)
LatestOf(r) == {i \in DOMAIN logs : Stream[logs[i].event].resource = r /\ logs[i].latest}

LatestExplained ==
  \A i \in DOMAIN logs :
    Cardinality(LatestOf(Stream[logs[i].event].resource)) \in 1..(1 + overlaps)

(* The actor of a log is hashed and stays for ever: it is the name the     *)
(* stream had given the user by then, from the cache or not, through       *)
(* crashes and rejoins that replay older changes of the user.  Exceptions  *)
(* are logs written at a later delivery, two consumers at once, and errors *)
(* of the directory, which are ignored.                                    *)
NameAt(e) ==
  LET known == {n \in 1..e : Stream[n].name # NoName}
  IN IF known = {} THEN NoName ELSE Stream[CHOOSE n \in known : \A k \in known : k <= n].name

ActorsExplained ==
  \A i \in DOMAIN logs :
    \/ logs[i].actor = NameAt(logs[i].event)
    \/ logs[i].event \in dropped \/ overlaps + blind + misled > 0

(* The partition is consumed to its end, whatever errors occur, while its  *)
(* configuration is active, and no longer when it is not.                  *)
EventuallyConsumed ==
  <>[](IF active THEN committed = Len(Stream)
       ELSE member = Nobody /\ \A c \in Consumers : pc[c] = "stopped")
=============================================================================
