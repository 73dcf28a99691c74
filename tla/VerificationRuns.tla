--------------------------- MODULE VerificationRuns ---------------------------
(***************************************************************************)
(* Durable verification runs of one client: users and the schedulers of    *)
(* the gateways put time ranges into verification_runs, one worker per     *)
(* gateway claims the oldest queued run and verifies its logs page by      *)
(* page, and a starting gateway requeues what it finds RUNNING.            *)
(*                                                                         *)
(* Log l is the l-th of the client in the order of the pages (timestamp,   *)
(* log_id); it may be inserted up to MaxDelay after its timestamp.  Fields *)
(* due, seen, shared and abandoned of a run are history that the           *)
(* properties use; the code has no column for them.  Faults spend one unit *)
(* of MaxFaults.                                                           *)
(***************************************************************************)
EXTENDS Integers, Sequences, FiniteSets, FiniteSetsExt

CONSTANTS
  LogTime,      \* timestamps of the client's logs, in page order
  Gateways,     \* each with a worker
  Schedulers,   \* gateways with VERIFICATION_SCHEDULER_ENABLED
  BatchSize, Lookback, Overlap,
  UserRanges,   \* ranges users ask for
  AgentRanges,  \* ranges the Agent reports an audit of
  MaxDelay,     \* bound on the lateness of a log
  MaxTime, MaxRuns, MaxFaults

Logs == DOMAIN LogTime

ASSUME RunsAssumption ==
  /\ LogTime \in Seq(1..MaxTime)
  /\ \A k, l \in Logs : k <= l => LogTime[k] <= LogTime[l]
  /\ Schedulers \subseteq Gateways
  /\ BatchSize \in Nat \ {0} /\ Lookback \in Nat \ {0} /\ Overlap \in Nat
  /\ UserRanges \cup AgentRanges \subseteq Int \X Int
  /\ MaxDelay \in Nat /\ MaxTime \in Nat \ {0} /\ MaxRuns \in Nat /\ MaxFaults \in Nat

VARIABLES
  now,
  arrived,   \* when each log was inserted, 0 before
  runs,      \* verification_runs in the order of created_at
  worker,    \* the worker goroutine of each gateway
  plan,      \* range the scheduler of each gateway is about to enqueue
  faults

vars == <<now, arrived, runs, worker, plan, faults>>

-----------------------------------------------------------------------------

Present == {l \in Logs : arrived[l] > 0}
InRange(from, to) == {l \in Present : LogTime[l] \in from..to}
RunIds == DOMAIN runs
Active(r) == runs[r].status \in {"QUEUED", "RUNNING"}
Completed == {r \in RunIds : runs[r].status = "COMPLETED"}

Idle == [pc |-> "idle", run |-> 0, offset |-> 0, loaded |-> 0]
Down == [Idle EXCEPT !.pc = "down"]

Spend == faults < MaxFaults /\ faults' = faults + 1
Goto(g, pc) == worker' = [worker EXCEPT ![g].pc = pc]

NewRun(from, to, by, status) ==
  [by |-> by, from |-> from, to |-> to, status |-> status,
   total |-> Cardinality(InRange(from, to)), processed |-> 0, verified |-> 0,
   due |-> InRange(from, to), seen |-> {},
   shared |-> FALSE, abandoned |-> FALSE]

Init ==
  /\ now = 1
  /\ arrived = [l \in Logs |-> 0]
  /\ runs = <<>>
  /\ worker = [g \in Gateways |-> Idle]
  /\ plan = [g \in Gateways |-> <<>>]
  /\ faults = 0

(* A tick is long against the statements between Plan and Enqueue.         *)
Tick ==
  /\ now < MaxTime /\ \A g \in Gateways : plan[g] = <<>>
  /\ now' = now + 1
  /\ UNCHANGED <<arrived, runs, worker, plan, faults>>

Insert(l) ==
  /\ l \notin Present /\ now \in LogTime[l]..(LogTime[l] + MaxDelay)
  /\ arrived' = [arrived EXCEPT ![l] = now]
  /\ UNCHANGED <<now, runs, worker, plan, faults>>

-----------------------------------------------------------------------------
(* Creating runs.                                                          *)

Enqueue(range, by) ==
  IF \E r \in RunIds : Active(r) /\ <<runs[r].from, runs[r].to>> = range
  THEN UNCHANGED runs
  ELSE /\ Len(runs) < MaxRuns
       /\ runs' = Append(runs, NewRun(range[1], range[2], by, "QUEUED"))

UserRequest(range) ==
  /\ Enqueue(range, "user")
  /\ UNCHANGED <<now, arrived, worker, plan, faults>>

(* An Agent report is a run too: EXTERNAL, COMPLETED from the start.       *)
AgentReport(range) ==
  /\ Len(runs) < MaxRuns
  /\ runs' = Append(runs, NewRun(range[1], range[2], "agent", "COMPLETED"))
  /\ UNCHANGED <<now, arrived, worker, plan, faults>>

Cursor == Max({runs[r].to : r \in Completed})

DueRangeNoOverlap ==   \* a bug: the next range starts where the last one ended
  IF Completed = {} \/ Cursor >= now THEN <<now - Lookback, now>> ELSE <<Cursor, now>>

DueRange ==
  IF Completed = {} \/ Cursor - Overlap >= now
  THEN <<now - Lookback, now>>
  ELSE <<Cursor - Overlap, now>>

Plan(g) ==
  /\ g \in Schedulers /\ worker[g].pc # "down" /\ plan[g] = <<>>
  /\ \A r \in RunIds : ~Active(r)
  /\ Len(runs) < MaxRuns
  /\ plan' = [plan EXCEPT ![g] = DueRange]
  /\ UNCHANGED <<now, arrived, runs, worker, faults>>

EnqueuePlan(g) ==
  /\ plan[g] # <<>>
  /\ \/ Enqueue(plan[g], "scheduler")
     \/ Len(runs) = MaxRuns /\ UNCHANGED runs   \* the bound only
  /\ plan' = [plan EXCEPT ![g] = <<>>]
  /\ UNCHANGED <<now, arrived, worker, faults>>

-----------------------------------------------------------------------------
(* The worker.                                                             *)

WorkedOn(r) == \E g \in Gateways : worker[g].run = r

RequeueKeepingCounters(run, r) ==   \* a bug: the counters are not reset
  IF run.status = "RUNNING"
  THEN [run EXCEPT !.status = "QUEUED", !.shared = @ \/ WorkedOn(r)]
  ELSE run

Requeue(run, r) ==
  IF run.status = "RUNNING"
  THEN [run EXCEPT !.status = "QUEUED", !.processed = 0, !.verified = 0,
                   !.shared = @ \/ WorkedOn(r)]
  ELSE run

StartPlain(g) ==   \* a bug: a restarted gateway requeues nothing
  /\ worker[g].pc = "down"
  /\ Goto(g, "idle")
  /\ UNCHANGED <<now, arrived, runs, plan, faults>>

Start(g) ==
  /\ worker[g].pc = "down"
  /\ runs' = [r \in RunIds |-> Requeue(runs[r], r)]
  /\ Goto(g, "idle")
  /\ UNCHANGED <<now, arrived, plan, faults>>

(* The error of the requeue is logged and the worker starts all the same:  *)
(* a fault that the crash before it has paid for.                          *)
StartWithoutRequeue(g) ==
  /\ worker[g].pc = "down"
  /\ runs' = [r \in RunIds |->
       [runs[r] EXCEPT !.abandoned = @ \/ runs[r].status = "RUNNING"]]
  /\ Goto(g, "idle")
  /\ UNCHANGED <<now, arrived, plan, faults>>

Crash(g) ==
  /\ worker[g].pc # "down" /\ Spend
  /\ worker' = [worker EXCEPT ![g] = Down]
  /\ plan' = [plan EXCEPT ![g] = <<>>]
  /\ UNCHANGED <<now, arrived, runs>>

Queued == {r \in RunIds : runs[r].status = "QUEUED"}

Claim(g) ==
  /\ worker[g].pc = "idle" /\ Queued # {}
  /\ LET r == Min(Queued) IN
       /\ runs' = [runs EXCEPT ![r].status = "RUNNING"]
       /\ worker' = [worker EXCEPT ![g] = [Idle EXCEPT !.pc = "verify", !.run = r]]
  /\ UNCHANGED <<now, arrived, plan, faults>>

(* LIMIT BatchSize OFFSET offset over what the range holds now.            *)
Page(S, offset) ==
  {l \in S : Cardinality({k \in S : k < l}) \in offset..(offset + BatchSize - 1)}

FullPageIsLast(g) == worker[g].loaded <= BatchSize   \* a bug: off by one

(* VerifyRangeBatch: loads a page, checks its logs, marks each with the    *)
(* run and adds them to the cumulative dashboard counters.  Nothing reads  *)
(* a page half checked, and a run replayed after a crash checks all of it  *)
(* again.  That the counters' transaction may fail unnoticed is left out.  *)
VerifyPage(g) ==
  /\ worker[g].pc = "verify"
  /\ LET r == worker[g].run
         page == Page(InRange(runs[r].from, runs[r].to), worker[g].offset)
         n == Cardinality(page)
     IN /\ runs' = [runs EXCEPT ![r].seen = @ \cup page]
        /\ worker' = [worker EXCEPT ![g].loaded = n,
                                    ![g].pc = IF n = 0 THEN "complete" ELSE "progress"]
  /\ UNCHANGED <<now, arrived, plan, faults>>

LastPage(g) == worker[g].loaded < BatchSize

Progress(g) ==
  /\ worker[g].pc = "progress"
  /\ runs' = [runs EXCEPT ![worker[g].run].processed = @ + worker[g].loaded,
                          ![worker[g].run].verified = @ + worker[g].loaded]
  /\ worker' = [worker EXCEPT ![g].offset = @ + worker[g].loaded,
                              ![g].pc = IF LastPage(g) THEN "complete" ELSE "verify"]
  /\ UNCHANGED <<now, arrived, plan, faults>>

(* The status is written by id alone, whatever it is by now.               *)
Complete(g) ==
  /\ worker[g].pc = "complete"
  /\ runs' = [runs EXCEPT ![worker[g].run].status = "COMPLETED",
                ![worker[g].run].processed = Max({@, runs[worker[g].run].total})]
  /\ worker' = [worker EXCEPT ![g] = Idle]
  /\ UNCHANGED <<now, arrived, plan, faults>>

(* A failing statement ends the run; so does markFailed, unless it fails   *)
(* as well, which nobody notices.                                          *)
StatementFails(g) ==
  /\ worker[g].pc \in {"verify", "progress", "complete"} /\ Spend
  /\ Goto(g, "failed")
  /\ UNCHANGED <<now, arrived, runs, plan>>

MarkFailed(g) ==
  /\ worker[g].pc = "failed"
  /\ \/ runs' = [runs EXCEPT ![worker[g].run].status = "FAILED"]
     \/ runs' = [runs EXCEPT ![worker[g].run].abandoned = TRUE]
  /\ worker' = [worker EXCEPT ![g] = Idle]
  /\ UNCHANGED <<now, arrived, plan, faults>>

Work(g) ==
  \/ Claim(g) \/ VerifyPage(g) \/ Progress(g)
  \/ Complete(g) \/ MarkFailed(g)

Next ==
  \/ Tick
  \/ \E l \in Logs : Insert(l)
  \/ \E range \in UserRanges : UserRequest(range)
  \/ \E range \in AgentRanges : AgentReport(range)
  \/ \E g \in Gateways :
       \/ Plan(g) \/ EnqueuePlan(g)
       \/ Start(g) \/ StartWithoutRequeue(g) \/ Crash(g)
       \/ Work(g) \/ StatementFails(g)

(* Tickers drive the workers.  Nothing has to start a gateway again.       *)
Fairness == \A g \in Gateways : WF_vars(Work(g))

Spec == Init /\ [][Next]_vars /\ Fairness

-----------------------------------------------------------------------------
(* Properties.                                                             *)

RunStatus == {"QUEUED", "RUNNING", "COMPLETED", "FAILED"}
Run ==
  [by : {"user", "agent", "scheduler"}, from : Int, to : Int, status : RunStatus,
   total : Nat, processed : Nat, verified : Nat, due : SUBSET Logs, seen : SUBSET Logs,
   shared : BOOLEAN, abandoned : BOOLEAN]
Worker ==
  [pc : {"down", "idle", "verify", "progress", "complete", "failed"}, run : Nat,
   offset : Nat, loaded : 0..BatchSize]

HoldsRun(w) == IF w.pc \in {"down", "idle"} THEN w.run = 0 ELSE w.run \in RunIds

WorldOK == now \in 1..MaxTime /\ arrived \in [Logs -> 0..MaxTime] /\ faults \in 0..MaxFaults
RunsOK == runs \in Seq(Run)
WorkersOK == worker \in [Gateways -> Worker] /\ \A g \in Gateways : HoldsRun(worker[g])
PlansOK == plan \in [Gateways -> {<<>>} \cup (Int \X Int)]

(* Runs, workers and plans stay within their types; a worker that holds a  *)
(* run holds one that exists.                                              *)
TypeOK == WorldOK /\ RunsOK /\ WorkersOK /\ PlansOK

(* A COMPLETED run has checked every log that its range held when it was   *)
(* created, although late inserts shift the pages under the offset, the    *)
(* run may have been requeued half way, and two gateways may work on it.   *)
CompletedCoversRange ==
  \A r \in Completed : runs[r].by # "agent" => runs[r].due \subseteq runs[r].seen

(* Unless a starting gateway requeued a run that another one was working   *)
(* on, the counters of a COMPLETED run are those of one pass over its      *)
(* range, however often the run was interrupted.                           *)
CountersMatchRange ==
  \A r \in Completed :
    runs[r].by = "agent" \/ runs[r].shared
      \/ /\ runs[r].verified >= Cardinality(runs[r].due)
         /\ runs[r].verified <= Cardinality(InRange(runs[r].from, runs[r].to))
         /\ runs[r].processed = Max({runs[r].verified, runs[r].total})

CoveredBy(l) == {r \in Completed : l \in runs[r].seen}

(* Consecutive ranges of the scheduler leave no log out: one behind the    *)
(* cursor that no completed run checked came later than the overlap        *)
(* allows, or a run the scheduler did not create moved the cursor past it, *)
(* or two gateways worked on a run of its time or before, which may have   *)
(* ended as FAILED, been passed over, and ended again as COMPLETED.        *)
GapsExplained ==
  \A l \in Present :
    \/ CoveredBy(l) # {}
    \/ ~ \E r \in Completed : runs[r].by = "scheduler" /\ runs[r].from <= LogTime[l]
    \/ LogTime[l] >= Cursor - Overlap
    \/ arrived[l] > LogTime[l] + Overlap
    \/ \E r \in RunIds :
         /\ runs[r].by # "scheduler" /\ runs[r].to - Overlap > LogTime[l]
         /\ r \in Completed \/ runs[r].shared
    \/ \E r \in RunIds : runs[r].shared /\ runs[r].from <= LogTime[l]

(* When no further run is created, every run comes to an end: crashes are  *)
(* repaired by the requeue at the next start.  A run stays QUEUED only if  *)
(* no gateway is up, and RUNNING only after a lost markFailed or requeue,  *)
(* or until a gateway that is down starts again.                           *)
Up == {g \in Gateways : worker[g].pc # "down"}

EventuallyEnds ==
  <>[](\A r \in RunIds :
         /\ runs[r].status = "QUEUED" => Up = {}
         /\ runs[r].status = "RUNNING" => runs[r].abandoned \/ Up # Gateways)
=============================================================================
