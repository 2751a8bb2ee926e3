---------------------------- MODULE FactoryLoop -----------------------------
(***************************************************************************)
(* The factory's dispatch loop (orchestrator/runner.py), its worker tasks, *)
(* the operator's stop requests (run_control.py, flow_switch.py, the admin *)
(* routes), the hard stop of a shift (shift_boundary_scheduler.py) and the *)
(* recovery after a restart (run_recovery.py).                             *)
(*                                                                         *)
(* Everything runs on one asyncio event loop, so the code between two      *)
(* awaits is one step here, and another task may run at every await.  The  *)
(* first group of variables is the committed database, which survives a    *)
(* crash; the second is process memory, which does not.                    *)
(*                                                                         *)
(* A worker is abstracted to the await it is parked at (pc).  The steps of *)
(* a flow are not told apart (module FlowPipeline does that); pullers are  *)
(* only the reason a tick may dispatch fewer assignments than are pending. *)
(***************************************************************************)
EXTENDS Naturals, FiniteSets

CONSTANTS
  Assignments,    \* the assignments of the one shift plan in play
  Runs,           \* run ids; new_run_id() takes an unused one
  NoRun,          \* "no run yet"
  NoAssignment,   \* shift_assignment_id = None
  MaxCrashes,     \* bound: how often the process may go down
  MaxTriggers,    \* bound: how many POST /runs/trigger requests
  LockedCommits   \* may a commit find the database locked for 30 seconds?

ASSUME NoRunAssumption        == NoRun \notin Runs
ASSUME NoAssignmentAssumption == NoAssignment \notin Assignments
ASSUME BoundAssumption        == /\ MaxCrashes \in Nat
                                 /\ MaxTriggers \in Nat
                                 /\ LockedCommits \in BOOLEAN

VARIABLES
  plan,      \* ShiftPlan.status
  asg,       \* ShiftAssignment.status
  status,    \* FactoryRun.status; "none": no such row
  asgOf,     \* FactoryRun.shift_assignment_id
  article,   \* runs with a CompletedArticle row (run_id is unique)
  exec,      \* status of the run's latest StepExecution row
  ckpt,      \* is FactoryRun.pipeline_state set?
  up,        \* the process is up and the loop started
  tick,      \* where the dispatch tick is: between ticks, or awaiting pullers
  workers,   \* keys of FactoryLoop._run_workers
  pc,        \* the await every task is parked at; "none": no such task
  drives,    \* the run a task drives
  dying,     \* the cancelled task of a run that has yet to unwind, if any
  flag,      \* run_control._cancelled_run_ids
  handler,   \* runs whose test-run request is between commit and schedule_run
  triggered, \* runs a POST /runs/trigger created (history)
  crashes    \* how often the process went down

db     == <<plan, asg, status, asgOf, article, exec, ckpt>>
memory == <<up, tick, workers, pc, drives, dying, flag, handler>>
vars   == <<db, memory, triggered, crashes>>

-----------------------------------------------------------------------------
(* Task names are the keys of _run_workers; an inline execution has none.  *)

AsgKey(a)    == <<"assignment", a>>
RunKey(r)    == <<"run", r>>
InlineKey(r) == <<"inline", r>>

AsgTasks    == {AsgKey(a) : a \in Assignments}
RunTasks    == {RunKey(r) : r \in Runs}
InlineTasks == {InlineKey(r) : r \in Runs}
Tasks       == AsgTasks \cup RunTasks \cup InlineTasks

PlanStates == {"active", "complete"}
AsgStates  == {"pending", "running", "completed", "failed"}
RunStates  == {"none", "running", "completed", "failed", "cancelled"}
ExecStates == {"none", "inflight", "completed", "failed"}

\* Awaits inside _execute_pipeline, before its outcome is committed.
Working  == {"ready", "emit", "step", "headline"}
Unborn   == {"begin", "scheduled", "continue"}
PcStates == {"none", "publish"} \cup Unborn \cup Working

Unsettled == {"pending", "running"}

\* A cancelled task is out of _run_workers: a young one had yet to start.
DyingStates == {"no", "young", "working"}

TypeOK ==
  /\ plan \in PlanStates
  /\ asg \in [Assignments -> AsgStates]
  /\ status \in [Runs -> RunStates]
  /\ asgOf \in [Runs -> Assignments \cup {NoAssignment}]
  /\ article \in SUBSET Runs
  /\ exec \in [Runs -> ExecStates]
  /\ ckpt \in [Runs -> BOOLEAN]
  /\ up \in BOOLEAN
  /\ tick \in {"idle", "listing"}
  /\ workers \in SUBSET Tasks
  /\ pc \in [Tasks -> PcStates]
  /\ drives \in [Tasks -> Runs \cup {NoRun}]
  /\ dying \in [Runs -> DyingStates]
  /\ flag \in SUBSET Runs
  /\ handler \in SUBSET Runs
  /\ triggered \in SUBSET Runs
  /\ crashes \in 0 .. MaxCrashes

Init ==
  /\ plan = "active"
  /\ asg = [a \in Assignments |-> "pending"]
  /\ status = [r \in Runs |-> "none"]
  /\ asgOf = [r \in Runs |-> NoAssignment]
  /\ article = {}
  /\ exec = [r \in Runs |-> "none"]
  /\ ckpt = [r \in Runs |-> FALSE]
  /\ up = TRUE
  /\ tick = "idle"
  /\ workers = {}
  /\ pc = [t \in Tasks |-> "none"]
  /\ drives = [t \in Tasks |-> NoRun]
  /\ dying = [r \in Runs |-> "no"]
  /\ flag = {}
  /\ handler = {}
  /\ triggered = {}
  /\ crashes = 0

-----------------------------------------------------------------------------
(* What an action does to the task it runs in.  A definition whose comment *)
(* begins with "Variant" is a wrong version of the one below it, which no   *)
(* action uses: it serves to show that a property notices the mistake.     *)

Live(t)    == pc[t] # "none"
Stopped(r) == status[r] # "running" \/ r \in flag

\* Variant: the done callback is forgotten.
EndTaskKeepingKey(t) ==
  /\ pc' = [pc EXCEPT ![t] = "none"]
  /\ drives' = [drives EXCEPT ![t] = NoRun]
  /\ UNCHANGED <<workers, dying>>

\* The coroutine returns or raises; the done callback pops its key.
EndTask(t) ==
  /\ pc' = [pc EXCEPT ![t] = "none"]
  /\ drives' = [drives EXCEPT ![t] = NoRun]
  /\ workers' = workers \ {t}
  /\ UNCHANGED dying

ParkAt(t, where) ==
  /\ pc' = [pc EXCEPT ![t] = where]
  /\ UNCHANGED <<drives, workers, dying>>

\* _spawn_worker: every task of T starts at "where" and takes its key.
Spawn(T, where, run) ==
  /\ pc' = [t \in Tasks |-> IF t \in T THEN where ELSE pc[t]]
  /\ drives' = [t \in Tasks |-> IF t \in T THEN run[t] ELSE drives[t]]
  /\ workers' = workers \cup T
  /\ UNCHANGED dying

\* What cancelling does to the tasks in D: they are as good as gone, but for
\* the CancelledError each has yet to take.
Killed(D) ==
  /\ pc' = [t \in Tasks |-> IF t \in D THEN "none" ELSE pc[t]]
  /\ drives' = [t \in Tasks |-> IF t \in D THEN NoRun ELSE drives[t]]
  /\ dying' = [r \in Runs |-> IF RunKey(r) \notin D THEN dying[r]
                             ELSE IF pc[RunKey(r)] \in Unborn THEN "young" ELSE "working"]

\* Variant: the keys are looked up and not popped.
CancelKeepingKeys(R) ==
  /\ Killed({RunKey(r) : r \in R} \cap workers)
  /\ UNCHANGED workers

\* cancel_run_workers: only run-keyed workers are found and cancelled.
CancelRunWorkers(R) ==
  /\ Killed({RunKey(r) : r \in R} \cap workers)
  /\ workers' = workers \ {RunKey(r) : r \in R}

\* Variant: a stopped execution is given the status of its run.
CancelInFlight(R) ==
  [r \in Runs |-> IF r \in R /\ exec[r] = "inflight" THEN "cancelled" ELSE exec[r]]

\* fail_in_flight_steps for every run of R.
FailInFlight(R) ==
  [r \in Runs |-> IF r \in R /\ exec[r] = "inflight" THEN "failed" ELSE exec[r]]

\* mark_run_cancelled_in_db for every run of R.
CancelRows(R) ==
  /\ status' = [r \in Runs |-> IF r \in R THEN "cancelled" ELSE status[r]]
  /\ ckpt' = [r \in Runs |-> IF r \in R THEN FALSE ELSE ckpt[r]]
  /\ exec' = FailInFlight(R)

\* Variant: a closed plan's assignments are not touched.
MarkedWhileActive(r, outcome) ==
  IF asgOf[r] = NoAssignment \/ plan # "active" THEN asg
  ELSE [asg EXCEPT ![asgOf[r]] = outcome]

\* mark_assignment_status writes the row of the run's assignment ...
Marked(r, outcome) ==
  IF asgOf[r] = NoAssignment THEN asg ELSE [asg EXCEPT ![asgOf[r]] = outcome]

\* Variant: only pending assignments keep the plan open.
PlanJudgedOnPending(r, rows) ==
  IF /\ asgOf[r] # NoAssignment
     /\ plan = "active"
     /\ \A a \in Assignments : rows[a] # "pending"
  THEN "complete" ELSE plan

\* ... and completes the plan when the rows its query sees are all settled.
\* The session does not autoflush, so a first mark is judged on old rows.
PlanJudgedOn(r, rows) ==
  IF /\ asgOf[r] # NoAssignment
     /\ plan = "active"
     /\ \A a \in Assignments : rows[a] \notin Unsettled
  THEN "complete" ELSE plan

FreshRun(r) == status[r] = "none"

-----------------------------------------------------------------------------
(* The dispatch tick.                                                      *)

\* Variant: the scan looks for the run's own key only.
OrphansByRunKey ==
  {r \in Runs : status[r] = "running" /\ r \notin flag /\ RunKey(r) \notin workers}

\* Variant: only runs with a checkpoint are resumed.
OrphansWithCheckpoint ==
  {r \in Runs : /\ status[r] = "running" /\ ckpt[r]
                /\ r \notin flag
                /\ RunKey(r) \notin workers
                /\ asgOf[r] # NoAssignment => AsgKey(asgOf[r]) \notin workers}

\* Running runs that no worker key accounts for and nobody asked to stop.
Orphans ==
  {r \in Runs : /\ status[r] = "running"
                /\ r \notin flag
                /\ RunKey(r) \notin workers
                /\ asgOf[r] # NoAssignment => AsgKey(asgOf[r]) \notin workers}

\* The scan respawns orphans, then the tick awaits the list of pullers.
TickScan ==
  /\ up
  /\ tick = "idle"
  /\ Spawn({RunKey(r) : r \in Orphans}, "continue",
           [t \in Tasks |-> IF t \in RunTasks THEN t[2] ELSE NoRun])
  /\ tick' = IF plan = "active" THEN "listing" ELSE "idle"
  /\ UNCHANGED <<db, up, flag, handler, triggered, crashes>>

\* Variant: what is marked running but has no worker is dispatched again.
DispatchableUnsettled ==
  {a \in Assignments : asg[a] \in Unsettled /\ AsgKey(a) \notin workers}

\* Pending assignments that no worker has taken.
Dispatchable == {a \in Assignments : asg[a] = "pending" /\ AsgKey(a) \notin workers}

\* Dispatch to idle pullers: as many as there are, of what is pending now.
\* commit_with_retry rolls back before it retries, so on a locked database
\* the worker starts although its assignment stays pending (lost).
TickDispatch ==
  /\ up
  /\ tick = "listing"
  /\ plan = "active"
  /\ \E S \in SUBSET Dispatchable :
       \E lost \in SUBSET S :
         /\ LockedCommits \/ lost = {}
         /\ asg' = [a \in Assignments |-> IF a \in S \ lost THEN "running" ELSE asg[a]]
         /\ Spawn({AsgKey(a) : a \in S}, "begin", [t \in Tasks |-> NoRun])
  /\ tick' = "idle"
  /\ UNCHANGED <<plan, status, asgOf, article, exec, ckpt, up, flag, handler,
                 triggered, crashes>>

\* The control plane is unreachable, nobody is idle, or the shift is over.
TickGivesUp ==
  /\ up
  /\ tick = "listing"
  /\ tick' = "idle"
  /\ UNCHANGED <<db, up, workers, pc, drives, dying, flag, handler, triggered, crashes>>

-----------------------------------------------------------------------------
(* A run begins: by an assignment's worker, a desk's test run, a trigger.  *)

NewRow(r, a) ==
  /\ status' = [status EXCEPT ![r] = "running"]
  /\ asgOf' = [asgOf EXCEPT ![r] = a]
  /\ UNCHANGED <<plan, asg, article, exec, ckpt>>

\* Neither the assignment nor the plan is looked at again.
Begin(a, r) ==
  /\ pc[AsgKey(a)] = "begin"
  /\ FreshRun(r)
  /\ NewRow(r, a)
  /\ pc' = [pc EXCEPT ![AsgKey(a)] = "ready"]
  /\ drives' = [drives EXCEPT ![AsgKey(a)] = r]
  /\ UNCHANGED <<up, tick, workers, dying, flag, handler, triggered, crashes>>

\* The flow cannot be read: no run, and the assignment stays "running".
BeginFails(a) ==
  /\ pc[AsgKey(a)] = "begin"
  /\ EndTask(AsgKey(a))
  /\ UNCHANGED <<db, up, tick, flag, handler, triggered, crashes>>

\* POST /desks/test-run commits the run and awaits the run_started event ...
BeginAdhoc(r) ==
  /\ up
  /\ FreshRun(r)
  /\ NewRow(r, NoAssignment)
  /\ handler' = handler \cup {r}
  /\ UNCHANGED <<up, tick, workers, pc, drives, dying, flag, triggered, crashes>>

\* ... then schedules it, unless its key is taken: the tick may have found the
\* run by now.  If that worker was cancelled since, its key is free again and
\* a second task is started, which will find the run stopped.
ScheduleRun(r) ==
  /\ r \in handler
  /\ handler' = handler \ {r}
  /\ IF RunKey(r) \in workers
     THEN UNCHANGED <<workers, pc, drives, dying>>
     ELSE Spawn({RunKey(r)}, "scheduled", [t \in Tasks |-> r])
  /\ UNCHANGED <<db, up, tick, flag, triggered, crashes>>

\* POST /runs/trigger executes the whole run inside the request.
BeginTrigger(r) ==
  /\ up
  /\ FreshRun(r)
  /\ Cardinality(triggered) < MaxTriggers
  /\ NewRow(r, NoAssignment)
  /\ pc' = [pc EXCEPT ![InlineKey(r)] = "ready"]
  /\ drives' = [drives EXCEPT ![InlineKey(r)] = r]
  /\ triggered' = triggered \cup {r}
  /\ UNCHANGED <<up, tick, workers, dying, flag, handler, crashes>>

-----------------------------------------------------------------------------
(* A worker starts on a run that already exists.                           *)

\* The run was stopped before its worker took its first step.
StartTooLate(t) ==
  /\ pc[t] \in {"scheduled", "continue"}
  /\ status[drives[t]] # "running"
  /\ EndTask(t)
  /\ UNCHANGED <<db, up, tick, flag, handler, triggered, crashes>>

StartScheduled(t) ==
  /\ pc[t] = "scheduled"
  /\ status[drives[t]] = "running"
  /\ ParkAt(t, "ready")
  /\ UNCHANGED <<db, up, tick, flag, handler, triggered, crashes>>

\* continue_active_run: resume from the checkpoint, from one rebuilt out of
\* the completed executions, or from the step whose execution is open.
StartContinue(t) ==
  LET r == drives[t] IN
  /\ pc[t] = "continue"
  /\ status[r] = "running"
  /\ ParkAt(t, "ready")
  /\ \/ ckpt' = [ckpt EXCEPT ![r] = @ \/ exec[r] = "completed"]
     \/ LockedCommits /\ UNCHANGED ckpt
  /\ UNCHANGED <<plan, asg, status, asgOf, article, exec>>
  /\ UNCHANGED <<up, tick, flag, handler, triggered, crashes>>

\* Its last execution is complete but the flow can no longer be read.  The
\* assignment is not marked.
ContinueGivesUp(t) ==
  LET r == drives[t] IN
  /\ pc[t] = "continue"
  /\ status[r] = "running"
  /\ ~ckpt[r]
  /\ exec[r] = "completed"
  /\ \/ status' = [status EXCEPT ![r] = "failed"]
     \/ LockedCommits /\ UNCHANGED status
  /\ EndTask(t)
  /\ UNCHANGED <<plan, asg, asgOf, article, exec, ckpt>>
  /\ UNCHANGED <<up, tick, flag, handler, triggered, crashes>>

-----------------------------------------------------------------------------
(* A worker executes the flow.                                             *)

\* The check before a step; the step_started event is awaited next.
CheckStep(t) ==
  /\ pc[t] = "ready"
  /\ ~Stopped(drives[t])
  /\ ParkAt(t, "emit")
  /\ UNCHANGED <<db, up, tick, flag, handler, triggered, crashes>>

\* The tracer opens an execution and the task is submitted: no check here.
OpenStep(t) ==
  /\ pc[t] = "emit"
  /\ exec' = [exec EXCEPT ![drives[t]] = "inflight"]
  /\ ParkAt(t, "step")
  /\ UNCHANGED <<plan, asg, status, asgOf, article, ckpt>>
  /\ UNCHANGED <<up, tick, flag, handler, triggered, crashes>>

\* A step is answered and another follows (forward or by a rejecting
\* review).  An error answer marks the execution failed and still advances.
NextStep(t) ==
  LET r == drives[t] IN
  /\ pc[t] = "step"
  /\ ~Stopped(r)
  /\ \E outcome \in {"completed", "failed"} : exec' = [exec EXCEPT ![r] = outcome]
  /\ \/ ckpt' = [ckpt EXCEPT ![r] = TRUE]
     \/ LockedCommits /\ UNCHANGED ckpt
  /\ ParkAt(t, "emit")
  /\ UNCHANGED <<plan, asg, status, asgOf, article>>
  /\ UNCHANGED <<up, tick, flag, handler, triggered, crashes>>

\* The last step accepts an article; its headline is awaited.
AcceptStep(t) ==
  LET r == drives[t] IN
  /\ pc[t] = "step"
  /\ ~Stopped(r)
  /\ exec' = [exec EXCEPT ![r] = "completed"]
  /\ ParkAt(t, "headline")
  /\ UNCHANGED <<plan, asg, status, asgOf, article, ckpt>>
  /\ UNCHANGED <<up, tick, flag, handler, triggered, crashes>>

\* The last step accepts, but the draft is empty.  The assignment is marked
\* twice, so the second mark's query sees the first.
EmptyArticle(t) ==
  LET r == drives[t] IN
  /\ pc[t] = "step"
  /\ ~Stopped(r)
  /\ exec' = [exec EXCEPT ![r] = "completed"]
  /\ status' = [status EXCEPT ![r] = "failed"]
  /\ ckpt' = [ckpt EXCEPT ![r] = FALSE]
  /\ asg' = Marked(r, "failed")
  /\ plan' = PlanJudgedOn(r, asg')
  /\ EndTask(t)
  /\ UNCHANGED <<asgOf, article>>
  /\ UNCHANGED <<up, tick, flag, handler, triggered, crashes>>

\* No verdict, no loop target, or too many iterations: the run is failed ...
FlowFailed(t) ==
  LET r == drives[t] IN
  /\ pc[t] = "step"
  /\ ~Stopped(r)
  /\ \E outcome \in {"completed", "failed"} : exec' = [exec EXCEPT ![r] = outcome]
  /\ status' = [status EXCEPT ![r] = "failed"]
  /\ UNCHANGED <<asgOf, article, ckpt>>

\* ... and its assignment is marked by a second commit, which may be lost.
FlowFails(t) ==
  LET r == drives[t] IN
  /\ FlowFailed(t)
  /\ \/ asg' = Marked(r, "failed") /\ plan' = PlanJudgedOn(r, asg)
     \/ LockedCommits /\ UNCHANGED <<asg, plan>>
  /\ EndTask(t)
  /\ UNCHANGED <<up, tick, flag, handler, triggered, crashes>>

\* RunCancelledError, raised by the check, by the poll loop (which only looks
\* at the flag) or when the answer of a stopped run arrives, whose execution
\* is complete by then.  A run that was only flagged is cancelled here; the
\* assignment is not marked.
NoticesStop(t) ==
  LET r == drives[t] IN
  /\ pc[t] \in {"ready", "step"}
  /\ Stopped(r)
  /\ status' = [status EXCEPT ![r] = IF @ = "running" THEN "cancelled" ELSE @]
  /\ ckpt' = [ckpt EXCEPT ![r] = IF status[r] = "running" THEN FALSE ELSE @]
  /\ \/ exec' = FailInFlight({r})
     \/ pc[t] = "step" /\ exec' = [exec EXCEPT ![r] = "completed"]
  /\ flag' = flag \ {r}
  /\ EndTask(t)
  /\ UNCHANGED <<plan, asg, asgOf, article>>
  /\ UNCHANGED <<up, tick, handler, triggered, crashes>>

\* Any other exception: the row is overwritten whatever it says.
Fails(t) ==
  LET r == drives[t] IN
  /\ status' = [status EXCEPT ![r] = "failed"]
  /\ asg' = Marked(r, "failed")
  /\ plan' = PlanJudgedOn(r, asg)
  /\ EndTask(t)
  /\ UNCHANGED <<asgOf, article, ckpt>>
  /\ UNCHANGED <<up, tick, flag, handler, triggered, crashes>>

Raises(t) ==
  /\ pc[t] \in Working
  /\ exec' = FailInFlight({drives[t]})
  /\ Fails(t)

\* ... and when that cannot be persisted either, only the worker is gone.
WorkerDies(t) ==
  /\ pc[t] \in Working
  /\ LockedCommits
  /\ EndTask(t)
  /\ UNCHANGED <<db, up, tick, flag, handler, triggered, crashes>>

\* The headline is there.  The run is not looked at again: it is completed
\* whatever happened to it during the await.
CompleteRun(t) ==
  LET r == drives[t] IN
  /\ pc[t] = "headline"
  /\ r \notin article
  /\ article' = article \cup {r}
  /\ status' = [status EXCEPT ![r] = "completed"]
  /\ ckpt' = [ckpt EXCEPT ![r] = FALSE]
  /\ asg' = Marked(r, "completed")
  /\ plan' = PlanJudgedOn(r, asg)
  /\ ParkAt(t, "publish")
  /\ UNCHANGED <<asgOf, exec>>
  /\ UNCHANGED <<up, tick, flag, handler, triggered, crashes>>

\* A second CompletedArticle row for the run violates its unique key.
CompleteTwice(t) ==
  /\ pc[t] = "headline"
  /\ drives[t] \in article
  /\ UNCHANGED exec
  /\ Fails(t)

\* Showroom answered, or refused: both are caught and committed.
PublishDone(t) ==
  /\ pc[t] = "publish"
  /\ EndTask(t)
  /\ UNCHANGED <<db, up, tick, flag, handler, triggered, crashes>>

\* The commit after the publish is locked out: the handler of the whole
\* pipeline fails the run that was complete.
PublishCommitFails(t) ==
  /\ pc[t] = "publish"
  /\ LockedCommits
  /\ UNCHANGED exec
  /\ Fails(t)

\* A cancelled worker takes its CancelledError; one that never started has no
\* handler to run.  Its done callback pops the key of the run, by now perhaps
\* that of another task.
KilledUnwinds(r) ==
  /\ dying[r] # "no"
  /\ dying' = [dying EXCEPT ![r] = "no"]
  /\ IF dying[r] = "young"
     THEN UNCHANGED <<exec, flag>>
     ELSE exec' = FailInFlight({r}) /\ flag' = flag \ {r}
  /\ workers' = workers \ {RunKey(r)}
  /\ UNCHANGED <<plan, asg, status, asgOf, article, ckpt>>
  /\ UNCHANGED <<up, tick, pc, drives, handler, triggered, crashes>>

-----------------------------------------------------------------------------
(* Stop requests.                                                          *)

\* Variant: the query forgets its status filter.
EveryRun == {r \in Runs : status[r] # "none"}

Running == {r \in Runs : status[r] = "running"}

\* POST /runs/{id}/stop
StopRun(r) ==
  /\ up
  /\ status[r] = "running"
  /\ r \notin flag
  /\ CancelRows({r})
  /\ CancelRunWorkers({r})
  /\ flag' = IF RunKey(r) \in workers THEN flag \cup {r} ELSE flag
  /\ UNCHANGED <<plan, asg, asgOf, article>>
  /\ UNCHANGED <<up, tick, handler, triggered, crashes>>

\* stop_all_runs without requeue
StopAllHard ==
  /\ up
  /\ Running # {}
  /\ CancelRows(Running)
  /\ CancelRunWorkers(Running)
  /\ flag' = flag \ Running
  /\ UNCHANGED <<plan, asg, asgOf, article>>
  /\ UNCHANGED <<up, tick, handler, triggered, crashes>>

\* stop_all_runs with requeue: the workers are to notice at the next step.
StopAllRequeue ==
  /\ up
  /\ Running \ flag # {}
  /\ flag' = flag \cup Running
  /\ UNCHANGED <<db, up, tick, workers, pc, drives, dying, handler, triggered, crashes>>

\* hard_stop_shift_plan: the window ends, or the shift is completed by hand.
HardStop ==
  LET R == {r \in Running : asgOf[r] \in Assignments} IN
  /\ up
  /\ plan = "active"
  /\ plan' = "complete"
  /\ asg' = [a \in Assignments |-> IF asg[a] \in Unsettled THEN "failed" ELSE asg[a]]
  /\ CancelRows(R)
  /\ CancelRunWorkers(R)
  /\ flag' = flag \ R
  /\ UNCHANGED <<asgOf, article>>
  /\ UNCHANGED <<up, tick, handler, triggered, crashes>>

-----------------------------------------------------------------------------
(* The process goes down, and comes up again.                              *)

GoDown ==
  /\ up
  /\ crashes < MaxCrashes
  /\ crashes' = crashes + 1
  /\ up' = FALSE
  /\ tick' = "idle"
  /\ workers' = {}
  /\ pc' = [t \in Tasks |-> "none"]
  /\ drives' = [t \in Tasks |-> NoRun]
  /\ dying' = [r \in Runs |-> "no"]
  /\ flag' = {}
  /\ handler' = {}
  /\ UNCHANGED triggered

Crash == GoDown /\ UNCHANGED db

\* The process goes down between the two commits of a failing flow.
CrashBeforeMark(t) == FlowFailed(t) /\ GoDown /\ UNCHANGED <<asg, plan>>

\* reconcile_orphaned_runs keeps what has a checkpoint or an open execution,
\* rebuilds a checkpoint from completed executions when the flow can be read,
\* and fails the rest.  Assignments are not marked.
Rebuildable == {r \in Running : ~ckpt[r] /\ exec[r] = "completed"}

Hopeless(rebuilt) == {r \in Running \ rebuilt : ~ckpt[r] /\ exec[r] # "inflight"}

Restart ==
  /\ ~up
  /\ \E rebuilt \in SUBSET Rebuildable : \E lost \in SUBSET Hopeless(rebuilt) :
       /\ LockedCommits \/ lost = {}
       /\ ckpt' = [r \in Runs |-> ckpt[r] \/ r \in rebuilt]
       /\ status' = [r \in Runs |-> IF r \in Hopeless(rebuilt) \ lost
                                    THEN "failed" ELSE status[r]]
  /\ up' = TRUE
  /\ UNCHANGED <<plan, asg, asgOf, article, exec>>
  /\ UNCHANGED <<tick, workers, pc, drives, dying, flag, handler, triggered, crashes>>

-----------------------------------------------------------------------------
Tick == TickScan \/ TickDispatch \/ TickGivesUp

Work(t) ==
  \/ StartTooLate(t) \/ StartScheduled(t) \/ StartContinue(t) \/ ContinueGivesUp(t)
  \/ CheckStep(t) \/ OpenStep(t) \/ NextStep(t) \/ AcceptStep(t) \/ EmptyArticle(t)
  \/ FlowFails(t) \/ NoticesStop(t) \/ Raises(t) \/ WorkerDies(t)
  \/ CompleteRun(t) \/ CompleteTwice(t) \/ PublishDone(t) \/ PublishCommitFails(t)

Births ==
  \/ \E a \in Assignments, r \in Runs : Begin(a, r)
  \/ \E a \in Assignments : BeginFails(a)
  \/ \E r \in Runs : BeginAdhoc(r) \/ ScheduleRun(r) \/ BeginTrigger(r)

Stops == (\E r \in Runs : StopRun(r)) \/ StopAllHard \/ StopAllRequeue \/ HardStop

Unwinding == \E r \in Runs : KilledUnwinds(r)

Down == Crash \/ \E t \in Tasks : CrashBeforeMark(t)

Next ==
  Tick \/ Births \/ (\E t \in Tasks : Work(t)) \/ Unwinding \/ Stops \/ Down \/ Restart

Spec == Init /\ [][Next]_vars

\* The loop ticks for as long as the process is up, a supervisor restarts it,
\* and the event loop runs every task that can run.  Nothing is assumed of
\* operators or of the control plane beyond that an await returns.
FairSpec ==
  /\ Spec
  /\ WF_vars(TickScan)
  /\ WF_vars(TickDispatch \/ TickGivesUp)
  /\ WF_vars(Restart)
  /\ \A t \in Tasks : WF_vars(Work(t))
  /\ \A r \in Runs : WF_vars(ScheduleRun(r)) /\ WF_vars(KilledUnwinds(r))
  /\ \A a \in Assignments : WF_vars(BeginFails(a) \/ \E r \in Runs : Begin(a, r))

-----------------------------------------------------------------------------
(* Safety.                                                                 *)

Driving(t, r) == Live(t) /\ drives[t] = r

\* No run is executed by two workers at once: the keys the scan looks at, the
\* hard stop, the restart and test runs racing the tick all leave at most one.
\* Runs executed inside a trigger request are exempt (see TriggeredAlone).
OneDriverPerRun ==
  \A r \in Runs \ triggered :
    \A t, u \in Tasks : Driving(t, r) /\ Driving(u, r) => t = u

\* An assignment gets one run in its life, however often the process dies
\* between marking it, starting its worker and creating the run.
OneRunPerAssignment ==
  \A r, q \in Runs :
    (asgOf[r] # NoAssignment /\ asgOf[r] = asgOf[q]) => r = q

\* A complete shift has nothing left that could be dispatched or is thought
\* to be running, though its plan is completed from three places.
CompletePlanIsSettled ==
  plan = "complete" => \A a \in Assignments : asg[a] \notin Unsettled

\* The run table and the article table agree, after every stop and crash.
ArticleIffCompleted ==
  \A r \in Runs \ triggered : r \in article <=> status[r] = "completed"

\* A run that has an article is never shown as running or stopped, though two
\* workers may drive a triggered run and a locked commit may fail a run.
ArticleMeansEnded ==
  \A r \in article : status[r] \in {"completed", "failed"}

\* A key of _run_workers stands for a task that is not finished, and a task
\* that lost its key (the late callback of a cancelled one pops it) has a
\* stopped run and nothing to do but end: otherwise the scan would respawn a
\* run that is executing, or skip for ever one that is not.
WorkerKeysAreLive ==
  LET keyed == {t \in AsgTasks \cup RunTasks : Live(t)} IN
  /\ workers \subseteq keyed
  /\ \A t \in keyed \ workers : pc[t] = "scheduled" /\ status[drives[t]] # "running"

\* The shift as its editors see it.
StoryOf(row) ==
  CASE row = "pending"   -> "waiting"
    [] row = "running"   -> "working"
    [] row = "completed" -> "published"
    [] row = "failed"    -> "dropped"

storyState == [a \in Assignments |-> StoryOf(asg[a])]

articlesOf == [a \in Assignments |-> {r \in article : asgOf[r] = a}]

Board ==
  INSTANCE ShiftBoard WITH
    Stories  <- Assignments,
    Ids      <- Runs,
    open     <- plan = "active",
    board    <- storyState,
    articles <- articlesOf

\* Workers, ticks, stops and crashes implement the abstract shift: a story is
\* commissioned once, while the shift is open, and yields at most one article.
ImplementsBoard == Board!Spec

-----------------------------------------------------------------------------
(* Liveness.                                                               *)

Driven(r) == \E t \in Tasks : Driving(t, r)

\* A running run nobody drives (its process died, its worker died, its
\* request never scheduled it) is picked up, unless somebody stops it.
UndrivenRunIsPickedUp ==
  \A r \in Runs :
    (status[r] = "running" /\ ~Driven(r)) ~>
      (Driven(r) \/ Stopped(r))

-----------------------------------------------------------------------------
(* What the repository's texts say and the code does not do.               *)

\* "in-flight work cancelled at window boundary": a cancelled run stays so.
CancelledIsFinal ==
  [][\A r \in Runs : status[r] = "cancelled" => status'[r] = "cancelled"]_vars

\* A run is kept completed when its publication to Showroom fails.
CompletedIsFinal ==
  [][\A r \in Runs : status[r] = "completed" => status'[r] = "completed"]_vars

\* The tick resumes runs after a restart, not runs that are executing.
TriggeredAlone ==
  \A r \in triggered :
    \A t, u \in Tasks : Driving(t, r) /\ Driving(u, r) => t = u

\* "active runs will halt at the next step boundary": a requested stop ends
\* the run, unless the process restarts and forgets the request.
StopRequestIsHeeded ==
  \A r \in Runs :
    (status[r] = "running" /\ r \in flag) ~> (status[r] # "running" \/ r \notin flag)

=============================================================================
