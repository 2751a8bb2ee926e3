------------------------- MODULE FactoryLoopProofs --------------------------
(***************************************************************************)
(* Proofs about FactoryLoop for any sets of assignments and runs and any   *)
(* bounds, and that it implements ShiftBoard.  Task names are used only    *)
(* through the facts of TaskNames.                                         *)
(***************************************************************************)
EXTENDS FactoryLoop, TLAPS

\* The three kinds of task names are distinct and name their run.
LEMMA TaskNames ==
  /\ \A a, b \in Assignments : AsgKey(a) = AsgKey(b) => a = b
  /\ \A r, q \in Runs : RunKey(r) = RunKey(q) => r = q
  /\ \A r, q \in Runs : InlineKey(r) = InlineKey(q) => r = q
  /\ \A a \in Assignments, r \in Runs : AsgKey(a) # RunKey(r) /\ AsgKey(a) # InlineKey(r)
  /\ \A r, q \in Runs : RunKey(r) # InlineKey(q)
  /\ \A a \in Assignments : AsgKey(a) \in Tasks
  /\ \A r \in Runs : RunKey(r) \in Tasks /\ InlineKey(r) \in Tasks
  /\ \A r \in Runs : RunKey(r) \in RunTasks /\ RunKey(r)[2] = r
  /\ \A t \in RunTasks : t[2] \in Runs
  /\ \A t \in Tasks : \/ \E a \in Assignments : t = AsgKey(a)
                      \/ \E r \in Runs : t = RunKey(r) \/ t = InlineKey(r)
BY DEF AsgKey, RunKey, InlineKey, Tasks, AsgTasks, RunTasks, InlineTasks

-----------------------------------------------------------------------------
(* Type correctness.  CompleteRun adds drives[t] to the articles, so the   *)
(* types are inductive only together with "a parked worker drives a run".  *)

Placed == \A t \in Tasks : pc[t] \notin {"none", "begin"} => drives[t] \in Runs

TypeInv == TypeOK /\ Placed

\* The factory starts with typed variables and no worker.
LEMMA TypeInit == Init => TypeInv
BY BoundAssumption DEF Init, TypeInv, TypeOK, Placed, PlanStates, AsgStates, RunStates, ExecStates,
   PcStates, DyingStates

\* Cancelling rows keeps the run table typed.
LEMMA CancelRowsTypes ==
  ASSUME TypeInv, NEW R, CancelRows(R)
  PROVE  /\ status' \in [Runs -> RunStates]
         /\ ckpt' \in [Runs -> BOOLEAN]
         /\ exec' \in [Runs -> ExecStates]
<1> USE DEF TypeInv, TypeOK, CancelRows
<1>1. status' \in [Runs -> RunStates]
  BY DEF RunStates
<1>2. ckpt' \in [Runs -> BOOLEAN]
  OBVIOUS
<1>3. exec' \in [Runs -> ExecStates]
  BY DEF FailInFlight, ExecStates
<1> QED
  BY <1>1, <1>2, <1>3

\* Cancelling workers removes tasks and keys and remembers what has to unwind.
LEMMA CancelWorkersTypes ==
  ASSUME TypeInv, NEW R \in SUBSET Runs, CancelRunWorkers(R)
  PROVE  /\ workers' \in SUBSET Tasks
         /\ dying' \in [Runs -> DyingStates]
         /\ pc' \in [Tasks -> PcStates]
         /\ drives' \in [Tasks -> Runs \cup {NoRun}]
         /\ Placed'
BY TaskNames DEF TypeInv, TypeOK, Placed, CancelRunWorkers, Killed, DyingStates, PcStates

\* Every step of a worker, from its start to its publication, keeps the types.
LEMMA TypeWork ==
  ASSUME TypeInv, NEW t \in Tasks, Work(t)
  PROVE  TypeInv'
<1> USE DEF TypeInv, TypeOK, Placed, PlanStates, AsgStates, RunStates, ExecStates,
            PcStates, Unborn, Working, db, EndTask, ParkAt, Live
<1>1. CASE StartTooLate(t)
  BY <1>1 DEF StartTooLate
<1>2. CASE StartScheduled(t)
  BY <1>2 DEF StartScheduled
<1>3. CASE StartContinue(t)
  BY <1>3 DEF StartContinue
<1>4. CASE ContinueGivesUp(t)
  BY <1>4 DEF ContinueGivesUp
<1>5. CASE CheckStep(t)
  BY <1>5 DEF CheckStep
<1>6. CASE OpenStep(t)
  BY <1>6 DEF OpenStep
<1>7. CASE NextStep(t)
  BY <1>7 DEF NextStep
<1>8. CASE AcceptStep(t)
  BY <1>8 DEF AcceptStep
<1>9. CASE EmptyArticle(t)
  BY <1>9 DEF EmptyArticle, Marked, PlanJudgedOn
<1>10. CASE FlowFails(t)
  BY <1>10 DEF FlowFails, FlowFailed, Marked, PlanJudgedOn
<1>11. CASE NoticesStop(t)
  <2>1. status' \in [Runs -> RunStates] /\ ckpt' \in [Runs -> BOOLEAN]
    BY <1>11 DEF NoticesStop
  <2>2. exec' \in [Runs -> ExecStates]
    BY <1>11 DEF NoticesStop, FailInFlight
  <2>3. /\ EndTask(t)
        /\ flag' \in SUBSET Runs
        /\ UNCHANGED <<plan, asg, asgOf, article, up, tick, handler, triggered, crashes>>
    BY <1>11 DEF NoticesStop
  <2> QED
    BY <2>1, <2>2, <2>3
<1>12. CASE Raises(t)
  BY <1>12 DEF Raises, Fails, Marked, PlanJudgedOn, FailInFlight
<1>13. CASE WorkerDies(t)
  BY <1>13 DEF WorkerDies
<1>14. CASE CompleteRun(t)
  BY <1>14 DEF CompleteRun, Marked, PlanJudgedOn
<1>15. CASE CompleteTwice(t)
  BY <1>15 DEF CompleteTwice, Fails, Marked, PlanJudgedOn
<1>16. CASE PublishDone(t)
  BY <1>16 DEF PublishDone
<1>17. CASE PublishCommitFails(t)
  BY <1>17 DEF PublishCommitFails, Fails, Marked, PlanJudgedOn
<1> QED
  BY <1>1, <1>2, <1>3, <1>4, <1>5, <1>6, <1>7, <1>8, <1>9, <1>10, <1>11, <1>12,
     <1>13, <1>14, <1>15, <1>16, <1>17 DEF Work

\* A cancelled task that unwinds keeps the types.
LEMMA TypeUnwinding == ASSUME TypeInv, Unwinding PROVE TypeInv'
<1> USE DEF TypeInv, TypeOK, Placed, DyingStates, ExecStates
<1>1. PICK r \in Runs : KilledUnwinds(r)
  BY DEF Unwinding
<1>2. exec' \in [Runs -> ExecStates] /\ flag' \in SUBSET Runs
  BY <1>1 DEF KilledUnwinds, FailInFlight
<1>3. dying' \in [Runs -> DyingStates] /\ workers' \in SUBSET Tasks
  BY <1>1 DEF KilledUnwinds
<1>4. /\ UNCHANGED <<plan, asg, status, asgOf, article, ckpt>>
      /\ UNCHANGED <<up, tick, pc, drives, handler, triggered, crashes>>
  BY <1>1 DEF KilledUnwinds
<1> QED
  BY <1>2, <1>3, <1>4

\* Spawning keeps the worker variables typed and every worker placed.
LEMMA SpawnTypes ==
  ASSUME TypeInv, NEW T \in SUBSET Tasks, NEW where \in PcStates,
         NEW run \in [Tasks -> Runs \cup {NoRun}],
         where \in {"none", "begin"} \/ \A t \in T : run[t] \in Runs,
         Spawn(T, where, run)
  PROVE  /\ pc' \in [Tasks -> PcStates]
         /\ drives' \in [Tasks -> Runs \cup {NoRun}]
         /\ workers' \in SUBSET Tasks
         /\ dying' = dying
         /\ Placed'
BY DEF TypeInv, TypeOK, Placed, Spawn

\* The scan and the dispatch hand out typed workers.
LEMMA TypeTick == ASSUME TypeInv, Tick PROVE TypeInv'
<1> USE DEF TypeInv, TypeOK, db
<1>1. CASE TickScan
  <2> DEFINE T   == {RunKey(r) : r \in Orphans}
             run == [t \in Tasks |-> IF t \in RunTasks THEN t[2] ELSE NoRun]
  <2>1. /\ T \in SUBSET Tasks
        /\ run \in [Tasks -> Runs \cup {NoRun}]
        /\ \A t \in T : run[t] \in Runs
    BY TaskNames DEF Orphans
  <2>2. Spawn(T, "continue", run)
    BY <1>1 DEF TickScan
  <2> QED
    BY <1>1, <2>1, <2>2, SpawnTypes DEF TickScan, PcStates, Unborn
<1>2. CASE TickDispatch
  <2> DEFINE run == [t \in Tasks |-> NoRun]
  <2>1. PICK S \in SUBSET Dispatchable, lost \in SUBSET Dispatchable :
          /\ asg' = [a \in Assignments |-> IF a \in S \ lost THEN "running" ELSE asg[a]]
          /\ Spawn({AsgKey(a) : a \in S}, "begin", run)
    BY <1>2 DEF TickDispatch
  <2>2. /\ {AsgKey(a) : a \in S} \in SUBSET Tasks
        /\ run \in [Tasks -> Runs \cup {NoRun}]
    BY TaskNames DEF Dispatchable
  <2>3. asg' \in [Assignments -> AsgStates]
    BY <2>1 DEF AsgStates
  <2> QED
    BY <1>2, <2>1, <2>2, <2>3, SpawnTypes DEF TickDispatch, PcStates, Unborn
<1>3. CASE TickGivesUp
  BY <1>3 DEF TickGivesUp, Placed
<1> QED
  BY <1>1, <1>2, <1>3 DEF Tick

\* A new run is typed, and its worker drives it.
LEMMA TypeBirths == ASSUME TypeInv, Births PROVE TypeInv'
<1> USE DEF TypeInv, TypeOK, Placed, PcStates, Unborn, Working, RunStates, db
<1>1. ASSUME NEW a \in Assignments, NEW r \in Runs, Begin(a, r) PROVE TypeInv'
  BY <1>1 DEF Begin, NewRow
<1>2. ASSUME NEW a \in Assignments, BeginFails(a) PROVE TypeInv'
  BY <1>2 DEF BeginFails, EndTask
<1>3. ASSUME NEW r \in Runs, BeginAdhoc(r) PROVE TypeInv'
  BY <1>3 DEF BeginAdhoc, NewRow
<1>4. ASSUME NEW r \in Runs, ScheduleRun(r) PROVE TypeInv'
  BY <1>4, TaskNames DEF ScheduleRun, Spawn
<1>5. ASSUME NEW r \in Runs, BeginTrigger(r) PROVE TypeInv'
  BY <1>5 DEF BeginTrigger, NewRow
<1> QED
  BY <1>1, <1>2, <1>3, <1>4, <1>5 DEF Births

\* Stopping runs and shifts keeps the types.
LEMMA TypeStops == ASSUME TypeInv, Stops PROVE TypeInv'
<1> USE CancelRowsTypes, CancelWorkersTypes DEF TypeInv, TypeOK, Placed, db
<1>1. ASSUME NEW r \in Runs, StopRun(r) PROVE TypeInv'
  BY <1>1 DEF StopRun
<1>2. CASE StopAllHard
  BY <1>2 DEF StopAllHard, Running
<1>3. CASE StopAllRequeue
  BY <1>3 DEF StopAllRequeue, Running
<1>4. CASE HardStop
  <2> DEFINE R == {r \in Running : asgOf[r] \in Assignments}
  <2>1. CancelRows(R) /\ CancelRunWorkers(R) /\ R \in SUBSET Runs
    BY <1>4 DEF HardStop, Running
  <2>2. asg' \in [Assignments -> AsgStates]
    BY <1>4 DEF HardStop, AsgStates
  <2>3. plan' \in PlanStates
    BY <1>4 DEF HardStop, PlanStates
  <2> HIDE DEF R
  <2> QED
    BY <1>4, <2>1, <2>2, <2>3 DEF HardStop
<1> QED
  BY <1>1, <1>2, <1>3, <1>4 DEF Stops

\* Nothing drives a run after a crash; recovery writes typed rows.
LEMMA TypeCrash == ASSUME TypeInv, Down \/ Restart PROVE TypeInv'
<1> USE DEF TypeInv, TypeOK, Placed, db
<1>1. CASE Down
  <2>1. GoDown /\ UNCHANGED <<asg, plan, asgOf, article, ckpt>>
    BY <1>1 DEF Down, Crash, CrashBeforeMark, FlowFailed
  <2>2. status' \in [Runs -> RunStates] /\ exec' \in [Runs -> ExecStates]
    <3>1. CASE Crash
      BY <3>1 DEF Crash
    <3>2. ASSUME NEW t \in Tasks, CrashBeforeMark(t)
          PROVE  status' \in [Runs -> RunStates] /\ exec' \in [Runs -> ExecStates]
      BY <3>2 DEF CrashBeforeMark, FlowFailed, RunStates, ExecStates
    <3> QED
      BY <1>1, <3>1, <3>2 DEF Down
  <2>3. crashes' \in 0 .. MaxCrashes
    BY <2>1, BoundAssumption DEF GoDown
  <2>4. pc' \in [Tasks -> PcStates] /\ drives' \in [Tasks -> Runs \cup {NoRun}]
    BY <2>1 DEF GoDown, PcStates
  <2>5. dying' \in [Runs -> DyingStates]
    BY <2>1 DEF GoDown, DyingStates
  <2>6. Placed'
    BY <2>1 DEF GoDown
  <2> QED
    BY <2>1, <2>2, <2>3, <2>4, <2>5, <2>6 DEF GoDown
<1>2. CASE Restart
  <2>1. \E rebuilt \in SUBSET Rebuildable : \E lost \in SUBSET Hopeless(rebuilt) :
          /\ ckpt' = [r \in Runs |-> ckpt[r] \/ r \in rebuilt]
          /\ status' = [r \in Runs |-> IF r \in Hopeless(rebuilt) \ lost
                                       THEN "failed" ELSE status[r]]
    <3> USE <1>2 DEF Restart
    <3> HIDE DEF TypeInv, TypeOK, Placed, db
    <3> QED
      OBVIOUS
  <2>2. status' \in [Runs -> RunStates]
    BY <2>1 DEF RunStates
  <2>3. ckpt' \in [Runs -> BOOLEAN]
    BY <2>1
  <2> QED
    BY <1>2, <2>2, <2>3 DEF Restart
<1> QED
  BY <1>1, <1>2

\* The types and the placement of workers are invariant.
THEOREM TypeInvariant == Spec => []TypeInv
<1>1. TypeInv /\ [Next]_vars => TypeInv'
  <2> SUFFICES ASSUME TypeInv, [Next]_vars PROVE TypeInv'
    OBVIOUS
  <2>1. CASE Next
    BY <2>1, TypeTick, TypeBirths, TypeWork, TypeUnwinding, TypeStops, TypeCrash DEF Next
  <2>2. CASE UNCHANGED vars
    BY <2>2 DEF TypeInv, TypeOK, Placed, vars, db, memory
  <2> QED
    BY <2>1, <2>2
<1> QED
  BY <1>1, TypeInit, PTL DEF Spec

\* Rows, worker keys, stop flags and tasks always have their types.
THEOREM TypeCorrect == Spec => []TypeOK
BY TypeInvariant, PTL DEF TypeInv

-----------------------------------------------------------------------------
(* The inductive invariant.  Its parts say what the keys of _run_workers,  *)
(* the cancelled tasks and the rows of the run table know of each other.   *)

\* A task drives what its name says: a run's own task that run, a triggered
\* request its run, an assignment's task a run of that assignment.
TasksDriveTheirRun ==
  /\ \A r \in Runs : pc[RunKey(r)] # "none" =>
                       drives[RunKey(r)] = r /\ pc[RunKey(r)] # "begin"
  /\ \A r \in Runs : pc[InlineKey(r)] # "none" =>
                       /\ drives[InlineKey(r)] = r
                       /\ pc[InlineKey(r)] # "begin"
                       /\ r \in triggered
  /\ \A a \in Assignments : /\ pc[AsgKey(a)] # "scheduled"
                            /\ drives[AsgKey(a)] # NoRun => asgOf[drives[AsgKey(a)]] = a
  /\ \A t \in Tasks : pc[t] \in {"none", "begin"} => drives[t] = NoRun

\* The run of a cancelled task no longer runs: the scan will not start a task
\* of the same name while one unwinds, and one that is scheduled cannot start.
DyingAreStopped ==
  \A r \in Runs : dying[r] # "no" =>
    status[r] # "running" /\ pc[RunKey(r)] \in {"none", "scheduled"}

\* A run that is driven exists, and one that does not has left no trace.
RowsExist ==
  /\ \A t \in Tasks : drives[t] # NoRun => status[drives[t]] # "none"
  /\ \A r \in Runs : status[r] = "none" =>
       /\ asgOf[r] = NoAssignment
       /\ r \notin handler /\ r \notin triggered /\ dying[r] = "no"
  /\ \A r \in handler : asgOf[r] = NoAssignment

\* While its assignment's task drives a run, it has no task of its own.
NoSecondDriver ==
  \A a \in Assignments : \A r \in Runs :
    drives[AsgKey(a)] = r => pc[RunKey(r)] = "none"

DriverInv ==
  /\ TypeInv
  /\ WorkerKeysAreLive
  /\ TasksDriveTheirRun
  /\ DyingAreStopped
  /\ RowsExist
  /\ NoSecondDriver

\* No step but a birth makes a run running or removes its row.
RowsOnlyEnd ==
  \A r \in Runs : /\ status[r] # "none" => status'[r] # "none"
                  /\ status[r] # "running" => status'[r] # "running"

\* Without rows, tasks and keys the driver invariant holds.
LEMMA DriverInit == Init => DriverInv
<1> SUFFICES ASSUME Init PROVE DriverInv
  OBVIOUS
<1>1. TypeInv
  BY TypeInit
<1>2. WorkerKeysAreLive
  BY TaskNames DEF Init, WorkerKeysAreLive, Live, Tasks
<1>3. TasksDriveTheirRun /\ DyingAreStopped /\ RowsExist /\ NoSecondDriver
  BY TaskNames, NoRunAssumption
  DEF Init, TasksDriveTheirRun, DyingAreStopped, RowsExist, NoSecondDriver
<1> QED
  BY <1>1, <1>2, <1>3 DEF DriverInv

\* What a worker's step does to its task: it ends it, or parks it elsewhere.
LEMMA WorkOnTasks ==
  ASSUME NEW t \in Tasks, Work(t)
  PROVE  /\ UNCHANGED <<asgOf, handler, triggered>>
         /\ Live(t) /\ pc[t] # "begin"
         /\ \/ EndTask(t)
            \/ /\ pc[t] = "scheduled" => status[drives[t]] = "running"
               /\ \E where \in Working \cup {"publish"} : ParkAt(t, where)
BY DEF Work, StartTooLate, StartScheduled, StartContinue, ContinueGivesUp, CheckStep,
       OpenStep, NextStep, AcceptStep, EmptyArticle, FlowFails, NoticesStop, Raises,
       WorkerDies, CompleteRun, CompleteTwice, PublishDone, PublishCommitFails,
       FlowFailed, Fails, db, Live, Working

\* What a worker's step does to the run table.
LEMMA WorkOnRows ==
  ASSUME TypeInv, NEW t \in Tasks, Work(t)
  PROVE  RowsOnlyEnd
BY DEF Work, StartTooLate, StartScheduled, StartContinue, ContinueGivesUp, CheckStep,
       OpenStep, NextStep, AcceptStep, EmptyArticle, FlowFails, NoticesStop, Raises,
       WorkerDies, CompleteRun, CompleteTwice, PublishDone, PublishCommitFails,
       FlowFailed, Fails, db, RowsOnlyEnd, TypeInv, TypeOK

\* A task that ends takes nothing with it but its key.
LEMMA DriverEnd ==
  ASSUME DriverInv, TypeInv', NEW t \in Tasks, EndTask(t), RowsOnlyEnd,
         UNCHANGED <<asgOf, handler, triggered>>
  PROVE  DriverInv'
<1> USE DEF DriverInv, TypeInv, TypeOK, EndTask, RowsOnlyEnd
<1>1. WorkerKeysAreLive'
  BY TaskNames DEF WorkerKeysAreLive, Live, Placed, Tasks
<1>2. TasksDriveTheirRun'
  BY TaskNames DEF TasksDriveTheirRun
<1>3. DyingAreStopped'
  BY DEF DyingAreStopped
<1>4. RowsExist'
  BY DEF RowsExist
<1>5. NoSecondDriver'
  BY NoRunAssumption, TaskNames DEF NoSecondDriver
<1> QED
  BY <1>1, <1>2, <1>3, <1>4, <1>5

\* A live worker that moves on stays the same worker of the same run.
LEMMA DriverPark ==
  ASSUME DriverInv, TypeInv', NEW t \in Tasks, Live(t), pc[t] # "begin",
         pc[t] = "scheduled" => status[drives[t]] = "running",
         NEW where \in Working \cup {"publish"}, ParkAt(t, where), RowsOnlyEnd,
         UNCHANGED <<asgOf, handler, triggered>>
  PROVE  DriverInv'
<1> USE DEF DriverInv, TypeInv, TypeOK, ParkAt, RowsOnlyEnd, Working, Live
<1>1. WorkerKeysAreLive'
  BY TaskNames, NoRunAssumption DEF WorkerKeysAreLive, Placed, RowsExist, Tasks
<1>2. TasksDriveTheirRun'
  BY TaskNames DEF TasksDriveTheirRun
<1>3. DyingAreStopped'
  BY TaskNames DEF DyingAreStopped, TasksDriveTheirRun
<1>4. RowsExist'
  BY DEF RowsExist
<1>5. NoSecondDriver'
  BY TaskNames DEF NoSecondDriver
<1> QED
  BY <1>1, <1>2, <1>3, <1>4, <1>5

\* Every step of a worker ends its task or parks it; both keep the invariant.
LEMMA DriverWork ==
  ASSUME DriverInv, NEW t \in Tasks, Work(t)
  PROVE  DriverInv'
<1>1. TypeInv' /\ RowsOnlyEnd
  BY TypeWork, WorkOnRows DEF DriverInv
<1>2. UNCHANGED <<asgOf, handler, triggered>> /\ Live(t) /\ pc[t] # "begin"
  BY WorkOnTasks
<1>3. CASE EndTask(t)
  BY <1>1, <1>2, <1>3, DriverEnd
<1>4. CASE /\ pc[t] = "scheduled" => status[drives[t]] = "running"
           /\ \E where \in Working \cup {"publish"} : ParkAt(t, where)
  BY <1>1, <1>2, <1>4, DriverPark
<1> QED
  BY <1>3, <1>4, WorkOnTasks

\* The task that unwinds pops the key of its run, whose new task, if any, can
\* only find that the run was stopped.
LEMMA DriverUnwinding == ASSUME DriverInv, Unwinding PROVE DriverInv'
<1> USE DEF DriverInv, TypeInv, TypeOK
<1>0. TypeInv'
  BY TypeUnwinding
<1>1. PICK r \in Runs : KilledUnwinds(r)
  BY DEF Unwinding
<1>2. /\ dying[r] # "no" /\ dying' = [dying EXCEPT ![r] = "no"]
      /\ workers' = workers \ {RunKey(r)}
      /\ UNCHANGED <<status, asgOf, pc, drives, handler, triggered>>
  BY <1>1 DEF KilledUnwinds
<1>3. WorkerKeysAreLive'
  <2>1. Live(RunKey(r)) => pc[RunKey(r)] = "scheduled" /\ status[drives[RunKey(r)]] # "running"
    BY <1>2 DEF DyingAreStopped, TasksDriveTheirRun, Live
  <2> QED
    BY <1>2, <2>1 DEF WorkerKeysAreLive, Live
<1>4. TasksDriveTheirRun' /\ RowsExist' /\ NoSecondDriver'
  BY <1>2 DEF TasksDriveTheirRun, RowsExist, NoSecondDriver
<1>5. DyingAreStopped'
  BY <1>2 DEF DyingAreStopped
<1> QED
  BY <1>0, <1>3, <1>4, <1>5

\* A stop: the runs of R are cancelled, and so are their run-keyed workers.
LEMMA DriverCancel ==
  ASSUME DriverInv, TypeInv', NEW R \in SUBSET Runs, CancelRows(R), CancelRunWorkers(R),
         \A r \in R : status[r] = "running",
         UNCHANGED <<asgOf, handler, triggered>>
  PROVE  DriverInv'
<1> USE DEF DriverInv, TypeInv, TypeOK
<1> DEFINE D == {RunKey(r) : r \in R} \cap workers
<1>1. /\ RowsOnlyEnd
      /\ \A r \in R : status'[r] # "running"
  BY DEF CancelRows, RowsOnlyEnd
<1>2. /\ \A t \in Tasks : IF t \in D THEN pc'[t] = "none" /\ drives'[t] = NoRun
                         ELSE pc'[t] = pc[t] /\ drives'[t] = drives[t]
      /\ workers' = workers \ {RunKey(r) : r \in R}
      /\ \A r \in Runs : RunKey(r) \notin D => dying'[r] = dying[r]
  BY DEF CancelRunWorkers, Killed
<1>3. /\ \A r \in Runs : RunKey(r) \in D => r \in R
      /\ \A a \in Assignments : AsgKey(a) \notin D
      /\ \A r \in Runs : InlineKey(r) \notin D
      /\ \A r \in R : RunKey(r) \in workers => RunKey(r) \in D
  BY TaskNames
<1>4. workers' = workers \ D
  BY <1>2
<1> HIDE DEF D
<1>5. WorkerKeysAreLive'
  BY <1>1, <1>2, <1>4, TaskNames, NoRunAssumption
  DEF WorkerKeysAreLive, Live, RowsOnlyEnd, Placed, Tasks
<1>6. TasksDriveTheirRun'
  BY <1>2, <1>3, TaskNames DEF TasksDriveTheirRun
<1>7. DyingAreStopped'
  BY <1>1, <1>2, <1>3, TaskNames DEF DyingAreStopped, RowsOnlyEnd
<1>8. RowsExist'
  BY <1>1, <1>2, <1>3, TaskNames, NoRunAssumption DEF RowsExist, RowsOnlyEnd, CancelRows
<1>9. NoSecondDriver'
  BY <1>2, <1>3, TaskNames DEF NoSecondDriver
<1> QED
  BY <1>5, <1>6, <1>7, <1>8, <1>9

\* Stops cancel rows and run-keyed workers together, or only set flags.
LEMMA DriverStops == ASSUME DriverInv, Stops PROVE DriverInv'
<1>0. TypeInv'
  BY TypeStops DEF DriverInv
<1>1. ASSUME NEW r \in Runs, StopRun(r) PROVE DriverInv'
  BY <1>0, <1>1, DriverCancel DEF StopRun
<1>2. CASE StopAllHard
  BY <1>0, <1>2, DriverCancel DEF StopAllHard, Running
<1>3. CASE StopAllRequeue
  BY <1>0, <1>3 DEF StopAllRequeue, DriverInv, WorkerKeysAreLive, Live,
     TasksDriveTheirRun, DyingAreStopped, RowsExist, NoSecondDriver, db
<1>4. CASE HardStop
  <2> DEFINE R == {r \in Running : asgOf[r] \in Assignments}
  <2>1. /\ CancelRows(R) /\ CancelRunWorkers(R) /\ UNCHANGED <<asgOf, handler, triggered>>
        /\ R \in SUBSET Runs /\ \A r \in R : status[r] = "running"
    BY <1>4 DEF HardStop, Running
  <2> HIDE DEF R
  <2> QED
    BY <1>0, <2>1, DriverCancel
<1> QED
  BY <1>1, <1>2, <1>3, <1>4 DEF Stops

\* The scan starts workers for orphans only, the dispatch for free keys only.
LEMMA DriverTick == ASSUME DriverInv, Tick PROVE DriverInv'
<1> USE DEF DriverInv, TypeInv, TypeOK, db
<1>0. TypeInv'
  BY TypeTick
<1>1. CASE TickScan
  <2> DEFINE T   == {RunKey(r) : r \in Orphans}
             run == [t \in Tasks |-> IF t \in RunTasks THEN t[2] ELSE NoRun]
  <2>1. Spawn(T, "continue", run) /\ UNCHANGED <<db, handler, triggered>>
    BY <1>1 DEF TickScan
  <2>2. \A r \in Runs :
          /\ RunKey(r) \in T <=> r \in Orphans
          /\ run[RunKey(r)] = r
          /\ InlineKey(r) \notin T
    <3>1. \A r \in Runs : run[RunKey(r)] = r
      BY TaskNames
    <3>2. \A r \in Runs : InlineKey(r) \notin T
      BY TaskNames DEF Orphans
    <3>3. \A r \in Runs : RunKey(r) \in T <=> r \in Orphans
      BY TaskNames DEF Orphans
    <3> QED
      BY <3>1, <3>2, <3>3
  <2>3. \A a \in Assignments : AsgKey(a) \notin T
    BY TaskNames DEF Orphans
  <2>4. \A t \in T : t \in RunTasks /\ t \in Tasks
    BY TaskNames DEF Orphans
  <2>5. \A t \in T : \E r \in Orphans : t = RunKey(r)
    OBVIOUS
  <2> HIDE DEF T, run
  <2>6. WorkerKeysAreLive'
    <3>1. \A t \in T : t \in AsgTasks \cup RunTasks /\ Live(t)' /\ t \in workers'
      BY <2>1, <2>4 DEF Spawn, Live
    <3>2. \A t \in Tasks \ T : pc'[t] = pc[t] /\ drives'[t] = drives[t]
      BY <2>1 DEF Spawn
    <3>3. workers' = workers \cup T /\ status' = status
      BY <2>1 DEF Spawn
    <3> QED
      BY <3>1, <3>2, <3>3 DEF WorkerKeysAreLive, Live, Tasks
  <2>7. TasksDriveTheirRun'
    BY <2>1, <2>2, <2>3, <2>5, TaskNames DEF TasksDriveTheirRun, Spawn
  <2>8. DyingAreStopped'
    BY <2>1, <2>2, TaskNames DEF DyingAreStopped, Spawn, Orphans
  <2>9. RowsExist'
    BY <2>1, <2>2, <2>5 DEF RowsExist, Spawn, Orphans
  <2>10. NoSecondDriver'
    <3> SUFFICES ASSUME NEW a \in Assignments, NEW r \in Runs,
                        drives'[AsgKey(a)] = r
                 PROVE  pc'[RunKey(r)] = "none"
      BY DEF NoSecondDriver
    <3>1. drives[AsgKey(a)] = r
      BY <2>1, <2>3, TaskNames DEF Spawn
    <3>2. asgOf[r] = a /\ AsgKey(a) \in workers
      BY <3>1, NoRunAssumption, NoAssignmentAssumption, TaskNames
      DEF TasksDriveTheirRun, WorkerKeysAreLive, Live, AsgTasks, NoSecondDriver
    <3>3. r \notin Orphans
      BY <3>2, NoAssignmentAssumption DEF Orphans
    <3> QED
      BY <2>1, <2>2, <3>1, <3>3, TaskNames DEF NoSecondDriver, Spawn
  <2> QED
    BY <1>0, <2>6, <2>7, <2>8, <2>9, <2>10
<1>2. CASE TickDispatch
  <2> DEFINE run == [t \in Tasks |-> NoRun]
  <2>1. PICK S \in SUBSET Dispatchable : Spawn({AsgKey(a) : a \in S}, "begin", run)
    BY <1>2 DEF TickDispatch
  <2> DEFINE T == {AsgKey(a) : a \in S}
  <2>2. UNCHANGED <<status, asgOf, handler, triggered>>
    BY <1>2 DEF TickDispatch
  <2>3. \A t \in T : /\ t \in AsgTasks /\ t \in Tasks
                     /\ t \notin workers
                     /\ drives'[t] = NoRun /\ pc'[t] = "begin"
    BY <2>1, TaskNames DEF Dispatchable, AsgTasks, Spawn
  <2>4. \A t \in Tasks \ T : drives'[t] = drives[t] /\ pc'[t] = pc[t]
    BY <2>1 DEF Spawn
  <2>5. \A r \in Runs : RunKey(r) \notin T /\ InlineKey(r) \notin T
    BY TaskNames DEF Dispatchable
  <2>6. workers' = workers \cup T /\ dying' = dying
    BY <2>1 DEF Spawn
  <2> HIDE DEF T
  <2>7. WorkerKeysAreLive'
    BY <2>2, <2>3, <2>4, <2>6 DEF WorkerKeysAreLive, Live, Tasks
  <2>8. TasksDriveTheirRun'
    BY <2>2, <2>3, <2>4, <2>5, TaskNames DEF TasksDriveTheirRun
  <2>9. DyingAreStopped'
    BY <2>2, <2>4, <2>5, <2>6, TaskNames DEF DyingAreStopped
  <2>10. RowsExist'
    BY <2>2, <2>3, <2>4, <2>6 DEF RowsExist
  <2>11. NoSecondDriver'
    BY <2>3, <2>4, <2>5, <2>6, NoRunAssumption, TaskNames DEF NoSecondDriver
  <2> QED
    BY <1>0, <2>7, <2>8, <2>9, <2>10, <2>11
<1>3. CASE TickGivesUp
  BY <1>0, <1>3 DEF TickGivesUp, WorkerKeysAreLive, Live, TasksDriveTheirRun,
     DyingAreStopped, RowsExist, NoSecondDriver
<1> QED
  BY <1>1, <1>2, <1>3 DEF Tick


\* A new run is driven by the task that created it, or by none.
LEMMA DriverBirths == ASSUME DriverInv, Births PROVE DriverInv'
<1> USE DEF DriverInv, TypeInv, TypeOK, db
<1>0. TypeInv'
  BY TypeBirths
<1>1. ASSUME NEW a \in Assignments, NEW r \in Runs, Begin(a, r) PROVE DriverInv'
  <2>1. /\ pc[AsgKey(a)] = "begin" /\ status[r] = "none" /\ drives[AsgKey(a)] = NoRun
        /\ status' = [status EXCEPT ![r] = "running"]
        /\ asgOf' = [asgOf EXCEPT ![r] = a]
        /\ pc' = [pc EXCEPT ![AsgKey(a)] = "ready"]
        /\ drives' = [drives EXCEPT ![AsgKey(a)] = r]
        /\ UNCHANGED <<workers, dying, handler, triggered>>
    BY <1>1, TaskNames DEF Begin, NewRow, FreshRun, TasksDriveTheirRun
  <2>2. \A t \in Tasks : drives[t] # r
    BY <2>1, NoRunAssumption DEF RowsExist
  <2>3. WorkerKeysAreLive'
    BY <2>1, <2>2, TaskNames, NoRunAssumption DEF WorkerKeysAreLive, Live, Placed, Tasks
  <2>4. TasksDriveTheirRun'
    BY <2>1, <2>2, NoRunAssumption, TaskNames DEF TasksDriveTheirRun
  <2>5. DyingAreStopped'
    BY <2>1, TaskNames DEF DyingAreStopped, RowsExist
  <2>6. RowsExist'
    BY <2>1, <2>2, TaskNames DEF RowsExist
  <2>7. pc[RunKey(r)] = "none"
    BY <2>2, TaskNames DEF TasksDriveTheirRun
  <2>8. NoSecondDriver'
    BY <2>1, <2>7, TaskNames DEF NoSecondDriver
  <2> QED
    BY <1>0, <2>3, <2>4, <2>5, <2>6, <2>8
<1>2. ASSUME NEW a \in Assignments, BeginFails(a) PROVE DriverInv'
  BY <1>0, <1>2, DriverEnd, TaskNames DEF BeginFails, RowsOnlyEnd
<1>3. ASSUME NEW r \in Runs, BeginAdhoc(r) PROVE DriverInv'
  <2>1. /\ status[r] = "none"
        /\ status' = [status EXCEPT ![r] = "running"]
        /\ asgOf' = [asgOf EXCEPT ![r] = NoAssignment]
        /\ handler' = handler \cup {r}
        /\ UNCHANGED <<workers, pc, drives, dying, triggered>>
    BY <1>3 DEF BeginAdhoc, NewRow, FreshRun
  <2>2. \A t \in Tasks : drives[t] # r
    BY <2>1, NoRunAssumption DEF RowsExist
  <2>3. asgOf' = asgOf
    BY <2>1 DEF RowsExist
  <2>4. WorkerKeysAreLive' /\ NoSecondDriver'
    BY <2>1, <2>2, TaskNames DEF WorkerKeysAreLive, Live, NoSecondDriver, Placed, Tasks
  <2>5. TasksDriveTheirRun'
    BY <2>1, <2>3 DEF TasksDriveTheirRun
  <2>6. DyingAreStopped'
    BY <2>1, TaskNames DEF DyingAreStopped, RowsExist
  <2>7. RowsExist'
    BY <2>1, <2>2, <2>3 DEF RowsExist
  <2> QED
    BY <1>0, <2>4, <2>5, <2>6, <2>7
<1>4. ASSUME NEW r \in Runs, ScheduleRun(r) PROVE DriverInv'
  <2>1. /\ r \in handler /\ handler' = handler \ {r}
        /\ UNCHANGED <<status, asgOf, triggered>>
    BY <1>4 DEF ScheduleRun
  <2>2. CASE RunKey(r) \in workers
    BY <1>0, <1>4, <2>1, <2>2
    DEF ScheduleRun, WorkerKeysAreLive, Live, TasksDriveTheirRun, DyingAreStopped,
        RowsExist, NoSecondDriver
  <2>3. CASE RunKey(r) \notin workers
    <3>1. /\ pc' = [pc EXCEPT ![RunKey(r)] = "scheduled"]
          /\ drives' = [drives EXCEPT ![RunKey(r)] = r]
          /\ workers' = workers \cup {RunKey(r)} /\ dying' = dying
      BY <1>4, <2>3 DEF ScheduleRun, Spawn
    <3>2. WorkerKeysAreLive'
      BY <2>1, <3>1, TaskNames DEF WorkerKeysAreLive, Live, Tasks
    <3>3. TasksDriveTheirRun'
      BY <2>1, <3>1, TaskNames DEF TasksDriveTheirRun
    <3>4. DyingAreStopped'
      BY <2>1, <3>1, TaskNames DEF DyingAreStopped
    <3>5. RowsExist'
      BY <2>1, <3>1, TaskNames DEF RowsExist
    <3>6. NoSecondDriver'
      BY <2>1, <3>1, NoRunAssumption, NoAssignmentAssumption, TaskNames
      DEF NoSecondDriver, TasksDriveTheirRun, RowsExist
    <3> QED
      BY <1>0, <3>2, <3>3, <3>4, <3>5, <3>6
  <2> QED
    BY <2>2, <2>3
<1>5. ASSUME NEW r \in Runs, BeginTrigger(r) PROVE DriverInv'
  <2>1. /\ status[r] = "none"
        /\ status' = [status EXCEPT ![r] = "running"]
        /\ asgOf' = [asgOf EXCEPT ![r] = NoAssignment]
        /\ pc' = [pc EXCEPT ![InlineKey(r)] = "ready"]
        /\ drives' = [drives EXCEPT ![InlineKey(r)] = r]
        /\ triggered' = triggered \cup {r}
        /\ UNCHANGED <<workers, dying, handler>>
    BY <1>5 DEF BeginTrigger, NewRow, FreshRun
  <2>2. \A t \in Tasks : drives[t] # r
    BY <2>1, NoRunAssumption DEF RowsExist
  <2>3. asgOf' = asgOf
    BY <2>1 DEF RowsExist
  <2>4. WorkerKeysAreLive'
    BY <2>1, <2>2, TaskNames DEF WorkerKeysAreLive, Live, AsgTasks, RunTasks, Placed, Tasks
  <2>5. TasksDriveTheirRun'
    BY <2>1, <2>3, TaskNames DEF TasksDriveTheirRun
  <2>6. DyingAreStopped'
    BY <2>1, TaskNames DEF DyingAreStopped, RowsExist
  <2>7. RowsExist'
    BY <2>1, <2>2, <2>3, TaskNames DEF RowsExist
  <2>8. NoSecondDriver'
    BY <2>1, TaskNames DEF NoSecondDriver
  <2> QED
    BY <1>0, <2>4, <2>5, <2>6, <2>7, <2>8
<1> QED
  BY <1>1, <1>2, <1>3, <1>4, <1>5 DEF Births

\* A crash takes every task and key; recovery only ends rows.
LEMMA DriverCrash == ASSUME DriverInv, Down \/ Restart PROVE DriverInv'
<1> USE DEF DriverInv, TypeInv, TypeOK, db
<1>0. TypeInv'
  BY TypeCrash
<1>1. CASE Down
  <2>1. GoDown /\ UNCHANGED asgOf
    BY <1>1 DEF Down, Crash, CrashBeforeMark, FlowFailed
  <2>2. \A r \in Runs : status'[r] = "none" => status[r] = "none"
    BY <1>1 DEF Down, Crash, CrashBeforeMark, FlowFailed
  <2> QED
    BY <1>0, <2>1, <2>2, NoRunAssumption, TaskNames
    DEF GoDown, WorkerKeysAreLive, Live, TasksDriveTheirRun, DyingAreStopped, RowsExist,
        NoSecondDriver, Tasks
<1>2. CASE Restart
  <2>1. RowsOnlyEnd
    BY <1>2 DEF Restart, RowsOnlyEnd
  <2>2. UNCHANGED <<asgOf, workers, pc, drives, dying, handler, triggered>>
    BY <1>2 DEF Restart
  <2> QED
    BY <1>0, <2>1, <2>2, NoRunAssumption, TaskNames
    DEF WorkerKeysAreLive, Live, TasksDriveTheirRun, DyingAreStopped, RowsExist,
        NoSecondDriver, RowsOnlyEnd, Placed, Tasks
<1> QED
  BY <1>1, <1>2

\* Keys, tasks, cancellations and rows agree in every state of the factory.
THEOREM DriverInvariant == Spec => []DriverInv
<1>1. DriverInv /\ [Next]_vars => DriverInv'
  <2> SUFFICES ASSUME DriverInv, [Next]_vars PROVE DriverInv'
    OBVIOUS
  <2>1. CASE Next
    BY <2>1, DriverTick, DriverBirths, DriverWork, DriverUnwinding, DriverStops, DriverCrash
    DEF Next
  <2>2. CASE UNCHANGED vars
    BY <2>2 DEF DriverInv, TypeInv, TypeOK, Placed, WorkerKeysAreLive, Live,
       TasksDriveTheirRun, DyingAreStopped, RowsExist, NoSecondDriver, vars, db, memory
  <2> QED
    BY <2>1, <2>2
<1> QED
  BY <1>1, DriverInit, PTL DEF Spec

\* The keys of _run_workers are those of live tasks, and a live task without
\* one can only end.
THEOREM WorkerKeysCorrect == Spec => []WorkerKeysAreLive
BY DriverInvariant, PTL DEF DriverInv

\* The keys leave a run one driver: its own task, or its assignment's.
LEMMA DriverOne == DriverInv => OneDriverPerRun
<1> SUFFICES ASSUME DriverInv, NEW r \in Runs, r \notin triggered,
                    NEW t \in Tasks, NEW u \in Tasks, Driving(t, r), Driving(u, r)
             PROVE  t = u
  BY DEF OneDriverPerRun
<1>1. \A v \in Tasks : Driving(v, r) =>
        \/ v = RunKey(r)
        \/ asgOf[r] \in Assignments /\ v = AsgKey(asgOf[r])
  <2> SUFFICES ASSUME NEW v \in Tasks, Driving(v, r)
               PROVE  \/ v = RunKey(r)
                      \/ asgOf[r] \in Assignments /\ v = AsgKey(asgOf[r])
    OBVIOUS
  <2> USE DEF DriverInv, TasksDriveTheirRun, Driving, Live
  <2>1. CASE \E a \in Assignments : v = AsgKey(a)
    BY <2>1, NoRunAssumption
  <2>2. CASE \E q \in Runs : v = RunKey(q) \/ v = InlineKey(q)
    BY <2>2
  <2> QED
    BY <2>1, <2>2, TaskNames
<1>2. ~(asgOf[r] \in Assignments /\ Driving(AsgKey(asgOf[r]), r) /\ Driving(RunKey(r), r))
  BY TaskNames DEF DriverInv, NoSecondDriver, Driving, Live
<1> QED
  BY <1>1, <1>2

\* Two workers never execute the same run, unless a trigger request does.
THEOREM OneDriver == Spec => []OneDriverPerRun
BY DriverOne, DriverInvariant, PTL

-----------------------------------------------------------------------------
(* Outcomes.  A worker's step is quiet, a failure or a delivery.           *)

Quiet(t) ==
  /\ UNCHANGED <<plan, asg, article, asgOf, triggered>>
  /\ \A r \in Runs : \/ status'[r] = status[r]
                     \/ status[r] = "running" /\ status'[r] \in {"failed", "cancelled"}
  /\ \/ EndTask(t)
     \/ /\ Live(t)
        /\ pc[t] \in Working \/ status[drives[t]] = "running"
        /\ pc[t] # "begin"
        /\ \E where \in Working : ParkAt(t, where)

Failure(t) ==
  /\ Live(t)
  /\ pc[t] \in Working \/ (LockedCommits /\ pc[t] = "publish")
  /\ UNCHANGED <<article, asgOf, triggered>>
  /\ status' = [status EXCEPT ![drives[t]] = "failed"]
  /\ asg' = Marked(drives[t], "failed")
  /\ \/ plan' = PlanJudgedOn(drives[t], asg)
     \/ plan' = PlanJudgedOn(drives[t], asg')
  /\ EndTask(t)

Delivery(t) ==
  /\ Live(t)
  /\ pc[t] = "headline"
  /\ drives[t] \notin article
  /\ UNCHANGED <<asgOf, triggered>>
  /\ article' = article \cup {drives[t]}
  /\ status' = [status EXCEPT ![drives[t]] = "completed"]
  /\ asg' = Marked(drives[t], "completed")
  /\ plan' = PlanJudgedOn(drives[t], asg)
  /\ ParkAt(t, "publish")

\* Each of the worker's seventeen steps is one of the three.
LEMMA WorkOutcome ==
  ASSUME TypeInv, NEW t \in Tasks, Work(t)
  PROVE  Quiet(t) \/ Failure(t) \/ Delivery(t)
<1> USE DEF Live, Working, db, TypeInv, TypeOK
<1>1. CASE \/ StartTooLate(t) \/ StartScheduled(t) \/ StartContinue(t) \/ CheckStep(t)
           \/ OpenStep(t) \/ NextStep(t) \/ AcceptStep(t) \/ WorkerDies(t) \/ PublishDone(t)
  BY <1>1 DEF Quiet, StartTooLate, StartScheduled, StartContinue, CheckStep, OpenStep,
     NextStep, AcceptStep, WorkerDies, PublishDone
<1>2. CASE ContinueGivesUp(t)
  BY <1>2 DEF Quiet, ContinueGivesUp
<1>3. CASE NoticesStop(t)
  <2>1. /\ UNCHANGED <<plan, asg, article, asgOf, triggered>>
        /\ EndTask(t)
    BY <1>3 DEF NoticesStop
  <2>2. CASE status[drives[t]] = "running"
    BY <1>3, <2>1, <2>2 DEF Quiet, NoticesStop, CancelRows
  <2>3. CASE status[drives[t]] # "running"
    BY <1>3, <2>1, <2>3 DEF Quiet, NoticesStop
  <2> QED
    BY <2>2, <2>3
<1>4. CASE EmptyArticle(t)
  <2>1. plan' = PlanJudgedOn(drives[t], asg')
    BY <1>4 DEF EmptyArticle
  <2> QED
    BY <1>4, <2>1 DEF Failure, EmptyArticle
<1>5. CASE FlowFails(t)
  <2>1. CASE asg' = Marked(drives[t], "failed") /\ plan' = PlanJudgedOn(drives[t], asg)
    BY <1>5, <2>1 DEF Failure, FlowFails, FlowFailed
  <2>2. CASE UNCHANGED <<asg, plan>>
    BY <1>5, <2>2 DEF Quiet, FlowFails, FlowFailed, Stopped
  <2> QED
    BY <1>5, <2>1, <2>2 DEF FlowFails
<1>6. CASE Raises(t) \/ CompleteTwice(t) \/ PublishCommitFails(t)
  <2>1. plan' = PlanJudgedOn(drives[t], asg)
    BY <1>6 DEF Raises, CompleteTwice, PublishCommitFails, Fails
  <2> QED
    BY <1>6, <2>1 DEF Failure, Raises, CompleteTwice, PublishCommitFails, Fails
<1>7. CASE CompleteRun(t)
  BY <1>7 DEF Delivery, CompleteRun
<1> QED
  BY <1>1, <1>2, <1>3, <1>4, <1>5, <1>6, <1>7 DEF Work

OutcomeInv == DriverInv /\ CompletePlanIsSettled /\ ArticleMeansEnded

\* A new shift is active and has no article.
LEMMA OutcomeInit == Init => OutcomeInv
BY DriverInit DEF Init, OutcomeInv, CompletePlanIsSettled, ArticleMeansEnded

\* However a mark is judged, a plan it completes is settled, and one that was
\* complete stays settled.
LEMMA MarkSettles ==
  ASSUME TypeInv, CompletePlanIsSettled, NEW r, NEW outcome \in {"completed", "failed"},
         asg' = Marked(r, outcome),
         plan' = PlanJudgedOn(r, asg) \/ plan' = PlanJudgedOn(r, asg')
  PROVE  CompletePlanIsSettled'
BY DEF TypeInv, TypeOK, CompletePlanIsSettled, Marked, PlanJudgedOn, Unsettled

\* A worker completes a plan only when it is settled, and a run with its article.
LEMMA OutcomeWork ==
  ASSUME OutcomeInv, NEW t \in Tasks, Work(t)
  PROVE  OutcomeInv'
<1> USE DEF OutcomeInv, DriverInv, TypeInv, TypeOK
<1>0. DriverInv'
  BY DriverWork
<1>1. CASE Quiet(t)
  BY <1>0, <1>1 DEF Quiet, CompletePlanIsSettled, ArticleMeansEnded
<1>2. CASE Failure(t)
  <2>1. CompletePlanIsSettled'
    BY <1>2, MarkSettles DEF Failure
  <2>2. ArticleMeansEnded'
    BY <1>2 DEF Failure, ArticleMeansEnded
  <2> QED
    BY <1>0, <2>1, <2>2
<1>3. CASE Delivery(t)
  <2>1. CompletePlanIsSettled'
    BY <1>3, MarkSettles DEF Delivery
  <2>2. ArticleMeansEnded'
    BY <1>3 DEF Delivery, ArticleMeansEnded, Placed
  <2> QED
    BY <1>0, <2>1, <2>2
<1> QED
  BY <1>1, <1>2, <1>3, WorkOutcome

\* Ticks, births, stops and recovery respect settled plans and ended runs.
LEMMA OutcomeOthers ==
  ASSUME OutcomeInv, Tick \/ Births \/ Unwinding \/ Stops \/ Down \/ Restart
  PROVE  OutcomeInv'
<1> USE DEF OutcomeInv, DriverInv, TypeInv, TypeOK, CompletePlanIsSettled,
            ArticleMeansEnded, db
<1>0. DriverInv'
  BY DriverTick, DriverBirths, DriverUnwinding, DriverStops, DriverCrash
<1>1. CASE Tick
  <2>1. UNCHANGED <<plan, status, article>>
    BY <1>1 DEF Tick, TickScan, TickDispatch, TickGivesUp
  <2>2. CASE TickDispatch
    BY <1>0, <2>1, <2>2 DEF TickDispatch
  <2>3. CASE TickScan \/ TickGivesUp
    BY <1>0, <2>1, <2>3 DEF TickScan, TickGivesUp
  <2> QED
    BY <1>1, <2>2, <2>3 DEF Tick
<1>2. CASE Births
  <2>1. UNCHANGED <<plan, asg, article>>
    BY <1>2 DEF Births, Begin, BeginFails, BeginAdhoc, ScheduleRun, BeginTrigger, NewRow
  <2>2. \A r \in Runs : status'[r] = status[r] \/ status[r] = "none"
    BY <1>2 DEF Births, Begin, BeginFails, BeginAdhoc, ScheduleRun, BeginTrigger,
       NewRow, FreshRun
  <2> QED
    BY <1>0, <2>1, <2>2
<1>3. CASE Stops
  <2>1. /\ article' = article
        /\ \A r \in Runs : status'[r] = status[r] \/ status[r] = "running"
    BY <1>3 DEF Stops, StopRun, StopAllHard, StopAllRequeue, HardStop, CancelRows, Running
  <2>2. CASE HardStop
    BY <1>0, <2>1, <2>2 DEF HardStop, Unsettled
  <2>3. CASE ~HardStop
    <3>1. UNCHANGED <<plan, asg>>
      BY <1>3, <2>3 DEF Stops, StopRun, StopAllHard, StopAllRequeue
    <3> QED
      BY <1>0, <2>1, <3>1
  <2> QED
    BY <2>2, <2>3
<1>4. CASE Down
  <2>1. UNCHANGED <<plan, asg, article>>
    BY <1>4 DEF Down, Crash, CrashBeforeMark, FlowFailed
  <2>2. \A r \in Runs : status'[r] = status[r] \/ status[r] = "running"
    BY <1>4 DEF Down, Crash, CrashBeforeMark, FlowFailed, Stopped
  <2> QED
    BY <1>0, <2>1, <2>2
<1>5. CASE Restart
  BY <1>0, <1>5 DEF Restart, Hopeless, Running
<1>6. CASE Unwinding
  BY <1>0, <1>6 DEF Unwinding, KilledUnwinds
<1> QED
  BY <1>1, <1>2, <1>3, <1>4, <1>5, <1>6

\* Settled plans and ended runs, with the driver invariant, are invariant.
THEOREM OutcomeInvariant == Spec => []OutcomeInv
<1>1. OutcomeInv /\ [Next]_vars => OutcomeInv'
  <2> SUFFICES ASSUME OutcomeInv, [Next]_vars PROVE OutcomeInv'
    OBVIOUS
  <2>1. CASE Next
    BY <2>1, OutcomeWork, OutcomeOthers DEF Next
  <2>2. CASE UNCHANGED vars
    BY <2>2 DEF OutcomeInv, DriverInv, TypeInv, TypeOK, Placed, WorkerKeysAreLive, Live,
       TasksDriveTheirRun, DyingAreStopped, RowsExist, NoSecondDriver,
       CompletePlanIsSettled, ArticleMeansEnded, vars, db, memory
  <2> QED
    BY <2>1, <2>2
<1> QED
  BY <1>1, OutcomeInit, PTL DEF Spec

\* A complete shift has no pending and no running assignment.
THEOREM CompletePlanSettled == Spec => []CompletePlanIsSettled
BY OutcomeInvariant, PTL DEF OutcomeInv

\* A run with an article is completed, or failed while it was published.
THEOREM ArticleEnded == Spec => []ArticleMeansEnded
BY OutcomeInvariant, PTL DEF OutcomeInv

-----------------------------------------------------------------------------
(* The shift as its editors see it, on a database that is never locked for *)
(* longer than a commit waits: an assignment has one run, the run table    *)
(* and the article table agree, and FactoryLoop implements ShiftBoard.     *)
(*                                                                         *)
(* A lost dispatch (LockedCommits) gives an assignment a second run and a  *)
(* lost publication fails a completed one, so none of this holds without   *)
(* the assumption.                                                         *)

\* Nothing of a pending assignment exists yet, nor any run of one whose
\* worker has yet to create it.
Untouched ==
  \A a \in Assignments :
    /\ asg[a] = "pending" => pc[AsgKey(a)] = "none"
    /\ (asg[a] = "pending" \/ pc[AsgKey(a)] = "begin") => \A r \in Runs : asgOf[r] # a

\* Triggered runs belong to no assignment.
TriggeredAreFree == \A r \in triggered : asgOf[r] = NoAssignment

\* An assignment is completed exactly when a run of it has an article.
ArticleMarks ==
  /\ \A r \in article : asgOf[r] # NoAssignment => asg[asgOf[r]] = "completed"
  /\ \A a \in Assignments : asg[a] = "completed" => \E r \in article : asgOf[r] = a

\* A worker that may still deliver drives a run that has no article yet.
WorkersHaveNoArticle ==
  \A t \in Tasks :
    (Live(t) /\ pc[t] \in Working /\ drives[t] \notin triggered) => drives[t] \notin article

BoardInv ==
  /\ OutcomeInv
  /\ OneRunPerAssignment
  /\ ArticleIffCompleted
  /\ Untouched
  /\ TriggeredAreFree
  /\ ArticleMarks
  /\ WorkersHaveNoArticle

\* A shift starts with pending assignments and no run.
LEMMA BoardInit == Init => BoardInv
<1> SUFFICES ASSUME Init PROVE BoardInv
  OBVIOUS
<1>1. OutcomeInv
  BY OutcomeInit
<1>2. OneRunPerAssignment /\ ArticleIffCompleted /\ TriggeredAreFree
  BY DEF Init, OneRunPerAssignment, ArticleIffCompleted, TriggeredAreFree
<1>3. Untouched /\ ArticleMarks /\ WorkersHaveNoArticle
  BY TaskNames, NoAssignmentAssumption
  DEF Init, Untouched, ArticleMarks, WorkersHaveNoArticle, Working
<1> QED
  BY <1>1, <1>2, <1>3 DEF BoardInv

\* A worker that still works and belongs to an assignment drives its only run,
\* which has no article; so the assignment is neither pending nor completed.
LEMMA WorkingAssignment ==
  ASSUME BoardInv, NEW t \in Tasks, Live(t), pc[t] \in Working,
         NEW a \in Assignments, asgOf[drives[t]] = a
  PROVE  /\ drives[t] \in Runs
         /\ drives[t] \notin triggered
         /\ drives[t] \notin article
         /\ \A q \in Runs : asgOf[q] = a => q = drives[t]
         /\ asg[a] \in {"running", "failed"}
<1> USE DEF BoardInv, OutcomeInv, DriverInv, TypeInv, TypeOK
<1>1. drives[t] \in Runs
  BY DEF Placed, Working
<1>2. drives[t] \notin triggered
  BY <1>1, NoAssignmentAssumption DEF TriggeredAreFree
<1>3. drives[t] \notin article
  BY <1>2 DEF WorkersHaveNoArticle
<1>4. \A q \in Runs : asgOf[q] = a => q = drives[t]
  BY <1>1, NoAssignmentAssumption DEF OneRunPerAssignment
<1>5. asg[a] # "pending"
  BY <1>1 DEF Untouched
<1>6. asg[a] # "completed"
  BY <1>3, <1>4 DEF ArticleMarks
<1> QED
  BY <1>1, <1>2, <1>3, <1>4, <1>5, <1>6 DEF AsgStates

-----------------------------------------------------------------------------
(* A worker's step.                                                        *)

\* A step without an outcome leaves a worker only where its run may still deliver.
LEMMA BoardQuiet ==
  ASSUME BoardInv, OutcomeInv', NEW t \in Tasks, Quiet(t)
  PROVE  BoardInv'
<1> USE DEF BoardInv, OutcomeInv, DriverInv, TypeInv, TypeOK, Quiet
<1>1. OneRunPerAssignment' /\ TriggeredAreFree' /\ ArticleMarks'
  BY DEF OneRunPerAssignment, TriggeredAreFree, ArticleMarks
<1>2. ArticleIffCompleted'
  BY DEF ArticleIffCompleted
<1>3. Untouched'
  <2> SUFFICES ASSUME NEW a \in Assignments
               PROVE  /\ asg[a] = "pending" => pc'[AsgKey(a)] = "none"
                      /\ pc'[AsgKey(a)] = "begin" => pc[AsgKey(a)] = "begin"
    BY DEF Untouched
  <2>1. CASE EndTask(t)
    BY <2>1, TaskNames DEF EndTask, Untouched
  <2>2. CASE Live(t) /\ \E where \in Working : ParkAt(t, where)
    BY <2>2, TaskNames DEF ParkAt, Untouched, Live, Working
  <2> QED
    BY <2>1, <2>2
<1>4. WorkersHaveNoArticle'
  <2> SUFFICES ASSUME NEW u \in Tasks, Live(u)', pc'[u] \in Working, drives'[u] \notin triggered
               PROVE  drives'[u] \notin article
    BY DEF WorkersHaveNoArticle
  <2>1. CASE EndTask(t)
    BY <2>1 DEF EndTask, Live, Working, WorkersHaveNoArticle
  <2>2. CASE /\ Live(t)
             /\ pc[t] \in Working \/ status[drives[t]] = "running"
             /\ \E where \in Working : ParkAt(t, where)
    <3>1. drives' = drives /\ \A v \in Tasks : v # t => pc'[v] = pc[v]
      BY <2>2 DEF ParkAt
    <3>2. CASE u = t /\ status[drives[t]] = "running"
      BY <3>1, <3>2 DEF ArticleMeansEnded
    <3>3. CASE u # t \/ pc[t] \in Working
      BY <2>2, <3>1, <3>3 DEF Live, WorkersHaveNoArticle
    <3> QED
      BY <2>2, <3>2, <3>3
  <2> QED
    BY <2>1, <2>2
<1> QED
  BY <1>1, <1>2, <1>3, <1>4

\* A run that fails while it is worked on has no article yet.
LEMMA BoardFailure ==
  ASSUME ~LockedCommits, BoardInv, OutcomeInv', NEW t \in Tasks, Failure(t)
  PROVE  BoardInv'
<1> USE DEF BoardInv, OutcomeInv, DriverInv, TypeInv, TypeOK
<1> DEFINE r == drives[t]
<1>1. /\ Live(t) /\ pc[t] \in Working /\ r \in Runs
      /\ UNCHANGED <<article, asgOf, triggered>>
      /\ status' = [status EXCEPT ![r] = "failed"]
      /\ asg' = Marked(r, "failed")
      /\ EndTask(t)
  BY DEF Failure, Placed, Working
<1>2. OneRunPerAssignment' /\ TriggeredAreFree'
  BY <1>1 DEF OneRunPerAssignment, TriggeredAreFree
<1>3. ArticleIffCompleted'
  BY <1>1 DEF ArticleIffCompleted, WorkersHaveNoArticle
<1>4. Untouched'
  <2>1. \A a \in Assignments : asg'[a] = "pending" => asg[a] = "pending"
    BY <1>1 DEF Marked
  <2>2. \A a \in Assignments : pc'[AsgKey(a)] = pc[AsgKey(a)] \/ pc'[AsgKey(a)] = "none"
    BY <1>1, TaskNames DEF EndTask
  <2> QED
    BY <1>1, <2>1, <2>2 DEF Untouched
<1>5. ArticleMarks'
  <2>1. CASE asgOf[r] = NoAssignment
    BY <1>1, <2>1 DEF Marked, ArticleMarks
  <2>2. CASE asgOf[r] # NoAssignment
    <3>1. asgOf[r] \in Assignments /\ asg' = [asg EXCEPT ![asgOf[r]] = "failed"]
      BY <1>1, <2>2 DEF Marked
    <3>2. r \notin article /\ \A q \in Runs : asgOf[q] = asgOf[r] => q = r
      BY <1>1, <3>1, WorkingAssignment
    <3> QED
      BY <1>1, <3>1, <3>2 DEF ArticleMarks
  <2> QED
    BY <2>1, <2>2
<1>6. WorkersHaveNoArticle'
  BY <1>1 DEF EndTask, Live, Working, WorkersHaveNoArticle
<1> QED
  BY <1>2, <1>3, <1>4, <1>5, <1>6

\* A delivery ends the only worker that could deliver the run again.
LEMMA BoardDelivery ==
  ASSUME BoardInv, OutcomeInv', NEW t \in Tasks, Delivery(t)
  PROVE  BoardInv'
<1> USE DEF BoardInv, OutcomeInv, DriverInv, TypeInv, TypeOK
<1> DEFINE r == drives[t]
<1>1. /\ Live(t) /\ pc[t] = "headline" /\ pc[t] \in Working /\ r \in Runs
      /\ UNCHANGED <<asgOf, triggered>>
      /\ article' = article \cup {r}
      /\ status' = [status EXCEPT ![r] = "completed"]
      /\ asg' = Marked(r, "completed")
      /\ ParkAt(t, "publish")
  BY DEF Delivery, Placed, Working
<1>2. OneRunPerAssignment' /\ TriggeredAreFree'
  BY <1>1 DEF OneRunPerAssignment, TriggeredAreFree
<1>3. ArticleIffCompleted'
  BY <1>1 DEF ArticleIffCompleted
<1>4. Untouched'
  <2>1. \A a \in Assignments : asg'[a] = "pending" => asg[a] = "pending"
    BY <1>1 DEF Marked
  <2>2. \A a \in Assignments :
          pc'[AsgKey(a)] = pc[AsgKey(a)] \/ (t = AsgKey(a) /\ pc'[AsgKey(a)] = "publish")
    BY <1>1, TaskNames DEF ParkAt
  <2>3. \A a \in Assignments : asg'[a] = "pending" => t # AsgKey(a)
    BY <1>1, <2>1 DEF Untouched, Live
  <2> QED
    BY <1>1, <2>1, <2>2, <2>3 DEF Untouched
<1>5. ArticleMarks'
  <2>1. CASE asgOf[r] = NoAssignment
    BY <1>1, <2>1, NoAssignmentAssumption DEF Marked, ArticleMarks
  <2>2. CASE asgOf[r] # NoAssignment
    <3>1. asgOf[r] \in Assignments /\ asg' = [asg EXCEPT ![asgOf[r]] = "completed"]
      BY <1>1, <2>2 DEF Marked
    <3> QED
      BY <1>1, <3>1 DEF ArticleMarks
  <2> QED
    BY <2>1, <2>2
<1>6. WorkersHaveNoArticle'
  <2> SUFFICES ASSUME NEW u \in Tasks, Live(u)', pc'[u] \in Working, drives'[u] \notin triggered'
               PROVE  drives'[u] \notin article'
    BY DEF WorkersHaveNoArticle
  <2>1. u # t /\ Live(u) /\ pc[u] = pc'[u] /\ drives'[u] = drives[u] /\ drives[u] \in Runs
    BY <1>1 DEF ParkAt, Live, Working, Placed
  <2>2. drives[u] # r
    BY <1>1, <2>1, DriverOne DEF OneDriverPerRun, Driving
  <2> QED
    BY <1>1, <2>1, <2>2 DEF WorkersHaveNoArticle
<1> QED
  BY <1>2, <1>3, <1>4, <1>5, <1>6

\* Whatever a worker does, the board invariant survives.
LEMMA BoardWork ==
  ASSUME ~LockedCommits, BoardInv, NEW t \in Tasks, Work(t)
  PROVE  BoardInv'
<1>1. OutcomeInv' /\ (Quiet(t) \/ Failure(t) \/ Delivery(t))
  BY OutcomeWork, WorkOutcome DEF BoardInv, OutcomeInv, DriverInv
<1> QED
  BY <1>1, BoardQuiet, BoardFailure, BoardDelivery

-----------------------------------------------------------------------------
(* The other steps.                                                        *)

\* The dispatch takes pending assignments, which have no run and no worker.
LEMMA BoardTick ==
  ASSUME ~LockedCommits, BoardInv, OutcomeInv', Tick
  PROVE  BoardInv'
<1> USE DEF BoardInv, OutcomeInv, DriverInv, TypeInv, TypeOK, db
<1>1. UNCHANGED <<status, asgOf, article, triggered>>
  BY DEF Tick, TickScan, TickDispatch, TickGivesUp
<1>2. OneRunPerAssignment' /\ ArticleIffCompleted' /\ TriggeredAreFree'
  BY <1>1 DEF OneRunPerAssignment, ArticleIffCompleted, TriggeredAreFree
<1>3. CASE TickScan
  <2>1. asg' = asg /\ Spawn({RunKey(r) : r \in Orphans}, "continue",
                           [t \in Tasks |-> IF t \in RunTasks THEN t[2] ELSE NoRun])
    BY <1>3 DEF TickScan
  <2>2. \A a \in Assignments : pc'[AsgKey(a)] = pc[AsgKey(a)]
    BY <2>1, TaskNames DEF Spawn, Orphans
  <2>3. Untouched' /\ ArticleMarks'
    BY <1>1, <2>1, <2>2 DEF Untouched, ArticleMarks
  <2>4. WorkersHaveNoArticle'
    BY <1>1, <2>1 DEF Spawn, Live, Working, WorkersHaveNoArticle
  <2> QED
    BY <1>2, <2>3, <2>4
<1>4. CASE TickDispatch
  <2>1. PICK S \in SUBSET Dispatchable :
          /\ asg' = [a \in Assignments |-> IF a \in S THEN "running" ELSE asg[a]]
          /\ Spawn({AsgKey(a) : a \in S}, "begin", [t \in Tasks |-> NoRun])
    BY <1>4 DEF TickDispatch
  <2>2. /\ \A a \in S : asg[a] = "pending"
        /\ \A a \in Assignments \ S : pc'[AsgKey(a)] = pc[AsgKey(a)]
    BY <2>1, TaskNames DEF Spawn, Dispatchable
  <2>3. Untouched'
    BY <1>1, <2>1, <2>2 DEF Untouched
  <2>4. ArticleMarks'
    BY <1>1, <2>1, <2>2 DEF ArticleMarks
  <2>5. WorkersHaveNoArticle'
    BY <1>1, <2>1 DEF Spawn, Live, Working, WorkersHaveNoArticle
  <2> QED
    BY <1>2, <2>3, <2>4, <2>5
<1>5. CASE TickGivesUp
  BY <1>2, <1>5 DEF TickGivesUp, Untouched, ArticleMarks, WorkersHaveNoArticle, Live
<1> QED
  BY <1>3, <1>4, <1>5 DEF Tick

\* What a birth does to the run table: a fresh row of one assignment, or none.
LEMMA BirthRows ==
  ASSUME DriverInv, Births
  PROVE  /\ UNCHANGED <<plan, asg, article>>
         /\ \A a \in Assignments : \/ pc'[AsgKey(a)] = pc[AsgKey(a)]
                                  \/ pc'[AsgKey(a)] = "none"
                                  \/ (pc[AsgKey(a)] = "begin" /\ pc'[AsgKey(a)] = "ready")
         /\ \/ UNCHANGED asgOf
            \/ \E a \in Assignments, r \in Runs :
                  /\ status[r] = "none" /\ pc[AsgKey(a)] = "begin"
                  /\ asgOf' = [asgOf EXCEPT ![r] = a]
                  /\ pc' = [pc EXCEPT ![AsgKey(a)] = "ready"]
                  /\ drives' = [drives EXCEPT ![AsgKey(a)] = r]
                  /\ UNCHANGED triggered
<1> USE DEF DriverInv, TypeInv, TypeOK, db
<1>1. ASSUME NEW a \in Assignments, NEW r \in Runs, Begin(a, r)
      PROVE  /\ UNCHANGED <<plan, asg, article, triggered>>
             /\ status[r] = "none" /\ pc[AsgKey(a)] = "begin"
             /\ asgOf' = [asgOf EXCEPT ![r] = a]
             /\ pc' = [pc EXCEPT ![AsgKey(a)] = "ready"]
             /\ drives' = [drives EXCEPT ![AsgKey(a)] = r]
  BY <1>1 DEF Begin, NewRow, FreshRun
<1>2. ASSUME NEW a \in Assignments, BeginFails(a)
      PROVE  /\ UNCHANGED <<plan, asg, article, asgOf>>
             /\ pc' = [pc EXCEPT ![AsgKey(a)] = "none"]
  BY <1>2 DEF BeginFails, EndTask
<1>3. ASSUME NEW r \in Runs, BeginAdhoc(r) \/ BeginTrigger(r)
      PROVE  /\ UNCHANGED <<plan, asg, article, asgOf>>
             /\ \A a \in Assignments : pc'[AsgKey(a)] = pc[AsgKey(a)]
  BY <1>3, TaskNames DEF BeginAdhoc, BeginTrigger, NewRow, FreshRun, RowsExist
<1>4. ASSUME NEW r \in Runs, ScheduleRun(r)
      PROVE  /\ UNCHANGED <<plan, asg, article, asgOf>>
             /\ \A a \in Assignments : pc'[AsgKey(a)] = pc[AsgKey(a)]
  BY <1>4, TaskNames DEF ScheduleRun, Spawn
<1>5. CASE \E a \in Assignments, r \in Runs : Begin(a, r)
  BY <1>1, <1>5, TaskNames
<1>6. CASE \E a \in Assignments : BeginFails(a)
  BY <1>2, <1>6, TaskNames
<1>7. CASE \E r \in Runs : BeginAdhoc(r) \/ ScheduleRun(r) \/ BeginTrigger(r)
  BY <1>3, <1>4, <1>7
<1> QED
  BY <1>5, <1>6, <1>7 DEF Births

\* Who a birth sets to work drives a run that was fresh.
LEMMA BirthWorkers ==
  ASSUME BoardInv, Births
  PROVE  WorkersHaveNoArticle'
<1> USE DEF BoardInv, OutcomeInv, DriverInv, TypeInv, TypeOK, Working, Live, db
<1>1. ASSUME NEW r \in Runs, NEW t \in Tasks, status[r] = "none",
             pc' = [pc EXCEPT ![t] = "ready"], drives' = [drives EXCEPT ![t] = r],
             article' = article, triggered \subseteq triggered'
      PROVE  WorkersHaveNoArticle'
  <2>1. r \notin article
    BY <1>1 DEF ArticleMeansEnded
  <2> QED
    BY <1>1, <2>1 DEF WorkersHaveNoArticle
<1>2. ASSUME NEW a \in Assignments, NEW r \in Runs, Begin(a, r) PROVE WorkersHaveNoArticle'
  BY <1>1, <1>2, TaskNames DEF Begin, NewRow, FreshRun
<1>3. ASSUME NEW a \in Assignments, BeginFails(a) PROVE WorkersHaveNoArticle'
  BY <1>3 DEF BeginFails, EndTask, WorkersHaveNoArticle
<1>4. ASSUME NEW r \in Runs, BeginAdhoc(r) PROVE WorkersHaveNoArticle'
  BY <1>4 DEF BeginAdhoc, NewRow, WorkersHaveNoArticle
<1>5. ASSUME NEW r \in Runs, ScheduleRun(r) PROVE WorkersHaveNoArticle'
  BY <1>5 DEF ScheduleRun, Spawn, WorkersHaveNoArticle
<1>6. ASSUME NEW r \in Runs, BeginTrigger(r) PROVE WorkersHaveNoArticle'
  BY <1>1, <1>6, TaskNames DEF BeginTrigger, NewRow, FreshRun
<1> QED
  BY <1>2, <1>3, <1>4, <1>5, <1>6 DEF Births

\* The run that is born is the first of its assignment and has no article.
LEMMA BoardBirths ==
  ASSUME BoardInv, OutcomeInv', Births
  PROVE  BoardInv'
<1> USE DEF BoardInv, OutcomeInv, DriverInv, TypeInv, TypeOK
<1>1. /\ \A r \in Runs : status'[r] = status[r] \/ (status[r] = "none" /\ status'[r] = "running")
      /\ \A r \in Runs : r \notin triggered /\ r \in triggered' =>
           status[r] = "none" /\ asgOf'[r] = NoAssignment
      /\ triggered \subseteq triggered'
  BY DEF Births, Begin, BeginFails, BeginAdhoc, ScheduleRun, BeginTrigger, NewRow,
         FreshRun, db
<1>2. UNCHANGED <<asg, article>>
  BY BirthRows
<1>3. ArticleIffCompleted'
  BY <1>1, <1>2 DEF ArticleIffCompleted
<1>4. WorkersHaveNoArticle'
  BY BirthWorkers
<1>5. CASE UNCHANGED asgOf
  <2>1. OneRunPerAssignment' /\ ArticleMarks'
    BY <1>2, <1>5 DEF OneRunPerAssignment, ArticleMarks
  <2>2. TriggeredAreFree'
    BY <1>1, <1>5 DEF TriggeredAreFree
  <2>3. Untouched'
    BY <1>2, <1>5, BirthRows DEF Untouched
  <2> QED
    BY <1>3, <1>4, <2>1, <2>2, <2>3
<1>6. ASSUME NEW a \in Assignments, NEW r \in Runs,
             status[r] = "none", pc[AsgKey(a)] = "begin",
             asgOf' = [asgOf EXCEPT ![r] = a], pc' = [pc EXCEPT ![AsgKey(a)] = "ready"],
             triggered' = triggered
      PROVE  BoardInv'
  <2>1. /\ \A q \in Runs : asgOf[q] # a
        /\ asg[a] # "pending"
        /\ r \notin article /\ r \notin triggered
    BY <1>6 DEF Untouched, ArticleMeansEnded, RowsExist
  <2>2. OneRunPerAssignment'
    BY <1>6, <2>1 DEF OneRunPerAssignment
  <2>3. TriggeredAreFree'
    BY <1>6, <2>1 DEF TriggeredAreFree
  <2>4. ArticleMarks'
    BY <1>2, <1>6, <2>1 DEF ArticleMarks
  <2>5. Untouched'
    BY <1>2, <1>6, <2>1, TaskNames DEF Untouched
  <2> QED
    BY <1>3, <1>4, <2>2, <2>3, <2>4, <2>5
<1> QED
  BY <1>5, <1>6, BirthRows

AtMostCancelled(t) ==
  \/ pc'[t] = pc[t] /\ drives'[t] = drives[t]
  \/ pc'[t] = "none" /\ \E r \in Runs : t = RunKey(r)

\* A stop ends run-keyed tasks and moves no other.
LEMMA StopTasks ==
  ASSUME Stops
  PROVE  \A t \in Tasks : AtMostCancelled(t)
<1>1. CASE StopAllRequeue
  <2>1. pc' = pc /\ drives' = drives
    BY <1>1 DEF StopAllRequeue
  <2> QED
    BY <2>1 DEF AtMostCancelled
<1>2. ASSUME NEW R \in SUBSET Runs, CancelRunWorkers(R), NEW t \in Tasks
      PROVE  AtMostCancelled(t)
  <2>1. CASE t \in {RunKey(r) : r \in R} \cap workers
    BY <1>2, <2>1 DEF CancelRunWorkers, Killed, AtMostCancelled
  <2>2. CASE t \notin {RunKey(r) : r \in R} \cap workers
    BY <1>2, <2>2 DEF CancelRunWorkers, Killed, AtMostCancelled
  <2> QED
    BY <2>1, <2>2
<1>3. StopAllRequeue \/ \E R \in SUBSET Runs : CancelRunWorkers(R)
  <2>1. ASSUME NEW r \in Runs, StopRun(r) PROVE \E R \in SUBSET Runs : CancelRunWorkers(R)
    BY <2>1 DEF StopRun
  <2>2. CASE StopAllHard
    BY <2>2 DEF StopAllHard, Running
  <2>3. CASE HardStop
    BY <2>3 DEF HardStop, Running
  <2> QED
    BY <2>1, <2>2, <2>3 DEF Stops
<1>4. ASSUME NEW R \in SUBSET Runs, CancelRunWorkers(R)
      PROVE  \A t \in Tasks : AtMostCancelled(t)
  BY <1>2, <1>4
<1> QED
  BY <1>1, <1>3, <1>4

\* A stop touches running runs and unsettled assignments only.
LEMMA BoardStops ==
  ASSUME BoardInv, OutcomeInv', Stops
  PROVE  BoardInv'
<1> USE DEF BoardInv, OutcomeInv, DriverInv, TypeInv, TypeOK, db
<1>0. /\ UNCHANGED <<article, asgOf, triggered>>
      /\ \A r \in Runs : status'[r] = status[r] \/ (status[r] = "running" /\ status'[r] = "cancelled")
  BY DEF Stops, StopRun, StopAllHard, StopAllRequeue, HardStop, CancelRows, Running
<1>1. \A t \in Tasks : AtMostCancelled(t)
  BY StopTasks
<1>2. \A a \in Assignments : asg'[a] = asg[a] \/ (asg[a] \in Unsettled /\ asg'[a] = "failed")
  <2>1. CASE HardStop
    BY <2>1 DEF HardStop
  <2>2. CASE ~HardStop
    BY <2>2 DEF Stops, StopRun, StopAllHard, StopAllRequeue
  <2> QED
    BY <2>1, <2>2
<1>3. OneRunPerAssignment' /\ TriggeredAreFree'
  BY <1>0 DEF OneRunPerAssignment, TriggeredAreFree
<1>4. ArticleIffCompleted'
  BY <1>0 DEF ArticleIffCompleted
<1>5. Untouched' /\ ArticleMarks'
  <2>1. \A a \in Assignments : pc'[AsgKey(a)] = pc[AsgKey(a)]
    BY <1>1, TaskNames DEF AtMostCancelled
  <2> QED
    BY <1>0, <1>2, <2>1 DEF Untouched, ArticleMarks, Unsettled
<1>6. WorkersHaveNoArticle'
  BY <1>0, <1>1 DEF WorkersHaveNoArticle, Live, Working, AtMostCancelled
<1> QED
  BY <1>3, <1>4, <1>5, <1>6

\* Recovery fails runs, none of which has an article.
LEMMA BoardCrash ==
  ASSUME BoardInv, OutcomeInv', Down \/ Restart
  PROVE  BoardInv'
<1> USE DEF BoardInv, OutcomeInv, DriverInv, TypeInv, TypeOK, db
<1>1. /\ UNCHANGED <<asg, article, asgOf, triggered>>
      /\ \A r \in Runs : status'[r] = status[r] \/ (status[r] = "running" /\ status'[r] = "failed")
  <2>1. CASE Down
    BY <2>1 DEF Down, Crash, CrashBeforeMark, FlowFailed, Stopped, GoDown
  <2>2. CASE Restart
    BY <2>2 DEF Restart, Hopeless, Running
  <2> QED
    BY <2>1, <2>2
<1>2. OneRunPerAssignment' /\ TriggeredAreFree' /\ ArticleMarks' /\ ArticleIffCompleted'
  BY <1>1 DEF OneRunPerAssignment, TriggeredAreFree, ArticleMarks, ArticleIffCompleted
<1>3. Untouched' /\ WorkersHaveNoArticle'
  <2>1. CASE Down
    <3>1. GoDown
      BY <2>1 DEF Down, Crash, CrashBeforeMark
    <3> QED
      BY <1>1, <3>1, TaskNames DEF GoDown, Untouched, WorkersHaveNoArticle, Live
  <2>2. CASE Restart
    BY <1>1, <2>2 DEF Restart, Untouched, WorkersHaveNoArticle, Live
  <2> QED
    BY <2>1, <2>2
<1> QED
  BY <1>2, <1>3

\* The board does not show what a cancelled task leaves behind.
LEMMA BoardUnwinding ==
  ASSUME BoardInv, OutcomeInv', Unwinding
  PROVE  BoardInv'
<1> UNCHANGED <<asg, status, asgOf, article, pc, drives, triggered>>
  BY DEF Unwinding, KilledUnwinds
<1> QED
  BY DEF BoardInv, OneRunPerAssignment, ArticleIffCompleted, Untouched, TriggeredAreFree,
     ArticleMarks, WorkersHaveNoArticle, Live

\* Every step of the factory keeps the board invariant.
LEMMA BoardStep ==
  ASSUME ~LockedCommits, BoardInv, [Next]_vars
  PROVE  BoardInv'
<1>1. CASE Tick \/ Births \/ Unwinding \/ Stops \/ Down \/ Restart
  <2>1. OutcomeInv'
    BY <1>1, OutcomeOthers DEF BoardInv
  <2> QED
    BY <1>1, <2>1, BoardTick, BoardBirths, BoardUnwinding, BoardStops, BoardCrash
<1>2. ASSUME NEW t \in Tasks, Work(t) PROVE BoardInv'
  BY <1>2, BoardWork
<1>3. CASE UNCHANGED vars
  BY <1>3 DEF BoardInv, OutcomeInv, DriverInv, TypeInv, TypeOK, Placed,
     WorkerKeysAreLive, Live, TasksDriveTheirRun, DyingAreStopped, RowsExist,
     NoSecondDriver, CompletePlanIsSettled, ArticleMeansEnded, OneRunPerAssignment,
     ArticleIffCompleted, Untouched, TriggeredAreFree, ArticleMarks,
     WorkersHaveNoArticle, vars, db, memory
<1> QED
  BY <1>1, <1>2, <1>3 DEF Next

\* The invariant holds of every behaviour with commits that get through.
THEOREM BoardInvariant == ASSUME ~LockedCommits PROVE Spec => []BoardInv
<1>1. BoardInv /\ [Next]_vars => BoardInv'
  BY BoardStep
<1> QED
  BY <1>1, BoardInit, PTL DEF Spec

\* An assignment never gets a second run.
THEOREM OneRun == ASSUME ~LockedCommits PROVE Spec => []OneRunPerAssignment
BY BoardInvariant, PTL DEF BoardInv

\* A run is completed exactly when its article exists.
THEOREM ArticleTable == ASSUME ~LockedCommits PROVE Spec => []ArticleIffCompleted
BY BoardInvariant, PTL DEF BoardInv

-----------------------------------------------------------------------------
(* FactoryLoop implements ShiftBoard.                                      *)

\* The words the board shows, one by one.
LEMMA StoryNames ==
  /\ StoryOf("pending") = "waiting"     /\ StoryOf("running") = "working"
  /\ StoryOf("completed") = "published" /\ StoryOf("failed") = "dropped"
BY DEF StoryOf

\* The board shows a word for every status of an assignment.
LEMMA Stories ==
  ASSUME TypeInv
  PROVE  \A a \in Assignments :
           /\ storyState[a] = "waiting"   <=> asg[a] = "pending"
           /\ storyState[a] = "working"   <=> asg[a] = "running"
           /\ storyState[a] = "published" <=> asg[a] = "completed"
           /\ storyState[a] = "dropped"   <=> asg[a] = "failed"
BY DEF TypeInv, TypeOK, AsgStates, storyState, StoryOf

\* The factory starts with an open shift whose stories all wait.
LEMMA ShiftInit == Init => Board!Init
BY DEF Init, Board!Init, storyState, StoryOf, articlesOf

\* A step that leaves the plan, the assignments and the articles of every
\* assignment alone is none of the editors' business.
LEMMA ShiftStutter ==
  ASSUME UNCHANGED <<plan, asg>>,
         \A a \in Assignments : articlesOf'[a] = articlesOf[a]
  PROVE  UNCHANGED Board!boardVars
BY DEF Board!boardVars, storyState, articlesOf

\* A plan that a mark completes has only settled stories.
LEMMA ShiftMayClose ==
  ASSUME TypeInv, TypeInv', NEW r, NEW outcome \in {"completed", "failed"},
         asg' = Marked(r, outcome),
         plan' = PlanJudgedOn(r, asg) \/ plan' = PlanJudgedOn(r, asg')
  PROVE  Board!MayClose
<1>1. CASE plan' = plan
  BY <1>1 DEF Board!MayClose
<1>2. CASE plan' # plan
  <2>1. plan' = "complete" /\ \A a \in Assignments : asg'[a] \notin Unsettled
    BY <1>2 DEF PlanJudgedOn, Marked, Unsettled, TypeInv, TypeOK
  <2>2. \A a \in Assignments : storyState'[a] \notin Board!Pending
    BY <2>1 DEF Board!Pending, storyState, StoryOf, Unsettled, TypeInv, TypeOK, AsgStates
  <2> QED
    BY <2>1, <2>2 DEF Board!MayClose
<1> QED
  BY <1>1, <1>2

\* A failure drops the story of its run; a run of no assignment has none.
LEMMA ShiftFailure ==
  ASSUME ~LockedCommits, BoardInv, BoardInv', NEW t \in Tasks, Failure(t)
  PROVE  [Board!Next]_(Board!boardVars)
<1> USE DEF BoardInv, OutcomeInv, DriverInv
<1> DEFINE r == drives[t]
           a == asgOf[r]
<1>1. /\ Live(t) /\ pc[t] \in Working /\ r \in Runs
      /\ UNCHANGED <<article, asgOf>>
      /\ asg' = Marked(r, "failed")
      /\ plan' = PlanJudgedOn(r, asg) \/ plan' = PlanJudgedOn(r, asg')
  BY DEF Failure, TypeInv, Placed, Working
<1>2. articlesOf' = articlesOf
  BY <1>1 DEF articlesOf
<1>3. CASE a = NoAssignment
  <2>1. UNCHANGED <<plan, asg>>
    BY <1>1, <1>3 DEF Marked, PlanJudgedOn
  <2> QED
    BY <1>2, <2>1, ShiftStutter
<1>4. CASE a # NoAssignment
  <2>1. a \in Assignments /\ asg' = [asg EXCEPT ![a] = "failed"]
    BY <1>1, <1>4 DEF Marked, TypeInv, TypeOK
  <2>2. storyState[a] \in {"working", "dropped"}
    BY <1>1, <2>1, WorkingAssignment, Stories
  <2>3. storyState' = [storyState EXCEPT ![a] = "dropped"]
    <3>1. \A b \in Assignments : asg'[b] = IF b = a THEN "failed" ELSE asg[b]
      BY <2>1 DEF TypeInv, TypeOK
    <3>2. \A b \in Assignments :
            StoryOf(asg'[b]) = IF b = a THEN "dropped" ELSE StoryOf(asg[b])
      BY <3>1, StoryNames
    <3> QED
      BY <2>1, <3>2 DEF storyState
  <2>4. Board!MayClose
    BY <1>1, ShiftMayClose
  <2>5. Board!Drop(a)
    BY <1>2, <2>2, <2>3, <2>4 DEF Board!Drop
  <2> QED
    BY <2>1, <2>5 DEF Board!Next
<1> QED
  BY <1>3, <1>4

\* A delivery publishes the story of its run.
LEMMA ShiftDelivery ==
  ASSUME BoardInv, BoardInv', NEW t \in Tasks, Delivery(t)
  PROVE  [Board!Next]_(Board!boardVars)
<1> USE DEF BoardInv, OutcomeInv, DriverInv
<1> DEFINE r == drives[t]
           a == asgOf[r]
<1>1. /\ Live(t) /\ pc[t] \in Working /\ r \in Runs
      /\ article' = article \cup {r} /\ asgOf' = asgOf
      /\ asg' = Marked(r, "completed")
      /\ plan' = PlanJudgedOn(r, asg)
  BY DEF Delivery, TypeInv, Placed, Working
<1>2. CASE a = NoAssignment
  <2>1. UNCHANGED <<plan, asg>>
    BY <1>1, <1>2 DEF Marked, PlanJudgedOn
  <2>2. \A b \in Assignments : articlesOf'[b] = articlesOf[b]
    BY <1>1, <1>2, NoAssignmentAssumption DEF articlesOf
  <2> QED
    BY <2>1, <2>2, ShiftStutter
<1>3. CASE a # NoAssignment
  <2>1. a \in Assignments /\ asg' = [asg EXCEPT ![a] = "completed"]
    BY <1>1, <1>3 DEF Marked, TypeInv, TypeOK
  <2>2. storyState[a] \in {"working", "dropped"}
    BY <1>1, <2>1, WorkingAssignment, Stories
  <2>3. storyState' = [storyState EXCEPT ![a] = "published"]
    <3>1. \A b \in Assignments : asg'[b] = IF b = a THEN "completed" ELSE asg[b]
      BY <2>1 DEF TypeInv, TypeOK
    <3>2. \A b \in Assignments :
            StoryOf(asg'[b]) = IF b = a THEN "published" ELSE StoryOf(asg[b])
      BY <3>1, StoryNames
    <3> QED
      BY <2>1, <3>2 DEF storyState
  <2>4. r \notin article /\ \A q \in Runs : asgOf[q] = a => q = r
    BY <1>1, <2>1, WorkingAssignment
  <2>5. articlesOf[a] = {} /\ articlesOf' = [articlesOf EXCEPT ![a] = {r}]
    <3>1. articlesOf[a] = {}
      BY <2>1, <2>4 DEF articlesOf, TypeInv, TypeOK
    <3>2. \A b \in Assignments : {q \in article' : asgOf'[q] = b} =
            IF b = a THEN {r} ELSE {q \in article : asgOf[q] = b}
      BY <1>1, <2>1, <2>4 DEF TypeInv, TypeOK
    <3> QED
      BY <2>1, <3>1, <3>2 DEF articlesOf
  <2>6. Board!MayClose
    BY <1>1, ShiftMayClose
  <2>7. Board!Publish(a, r)
    BY <2>2, <2>3, <2>5, <2>6 DEF Board!Publish
  <2> QED
    BY <1>1, <2>1, <2>7 DEF Board!Next
<1> QED
  BY <1>2, <1>3

\* Every step of the factory is a step of the editors' board, or none.
LEMMA ShiftStep ==
  ASSUME ~LockedCommits, BoardInv, [Next]_vars
  PROVE  [Board!Next]_(Board!boardVars)
<1>0. BoardInv' /\ TypeInv /\ TypeInv'
  BY BoardStep DEF BoardInv, OutcomeInv, DriverInv
<1> USE DEF db
<1>1. ASSUME NEW t \in Tasks, Work(t) PROVE [Board!Next]_(Board!boardVars)
  <2>1. CASE Quiet(t)
    BY <2>1, ShiftStutter DEF Quiet, articlesOf
  <2>2. CASE Failure(t) \/ Delivery(t)
    BY <1>0, <2>2, ShiftFailure, ShiftDelivery
  <2> QED
    BY <1>0, <1>1, <2>1, <2>2, WorkOutcome
<1>2. CASE TickDispatch
  <2>1. PICK S \in SUBSET Dispatchable :
          asg' = [a \in Assignments |-> IF a \in S THEN "running" ELSE asg[a]]
    BY <1>2 DEF TickDispatch
  <2>2. plan = "active" /\ plan' = plan /\ articlesOf' = articlesOf
    BY <1>2 DEF TickDispatch, articlesOf
  <2>3. S \in SUBSET Assignments /\ \A a \in S : storyState[a] = "waiting"
    BY <1>0, <2>1, Stories DEF Dispatchable
  <2>4. storyState' = [a \in Assignments |-> IF a \in S THEN "working" ELSE storyState[a]]
    BY <2>1, <2>3, StoryNames DEF storyState
  <2>5. Board!Commission(S)
    BY <2>2, <2>3, <2>4 DEF Board!Commission
  <2> QED
    BY <2>3, <2>5 DEF Board!Next
<1>3. CASE TickScan \/ TickGivesUp
  BY <1>3, ShiftStutter DEF TickScan, TickGivesUp, articlesOf
<1>4. CASE Births
  <2>1. DriverInv /\ ArticleMeansEnded
    BY DEF BoardInv, OutcomeInv
  <2>2. UNCHANGED <<plan, asg, article>>
    BY <1>4, <2>1, BirthRows
  <2>3. \A r \in article : asgOf'[r] = asgOf[r]
    BY <1>0, <1>4, <2>1, BirthRows DEF ArticleMeansEnded, TypeInv, TypeOK
  <2>4. \A a \in Assignments : articlesOf'[a] = articlesOf[a]
    BY <2>2, <2>3 DEF articlesOf
  <2> QED
    BY <2>2, <2>4, ShiftStutter
<1>5. CASE HardStop
  <2>1. plan' = "complete" /\ articlesOf' = articlesOf
    BY <1>5 DEF HardStop, articlesOf
  <2>2. asg' = [a \in Assignments |-> IF asg[a] \in Unsettled THEN "failed" ELSE asg[a]]
    BY <1>5 DEF HardStop
  <2>3. storyState' = [a \in Assignments |-> IF storyState[a] \in Board!Pending
                                             THEN "dropped" ELSE storyState[a]]
    <3>1. \A a \in Assignments : StoryOf(asg[a]) \in {"waiting", "working"} <=> asg[a] \in Unsettled
      BY <1>0, Stories DEF storyState, Unsettled
    <3> QED
      BY <2>2, <3>1, StoryNames DEF storyState, Board!Pending
  <2>4. Board!Close
    BY <2>1, <2>3 DEF Board!Close
  <2> QED
    BY <2>4 DEF Board!Next
<1>6. CASE \/ (\E r \in Runs : StopRun(r)) \/ StopAllHard \/ StopAllRequeue
           \/ Unwinding \/ Down \/ Restart
  BY <1>6, ShiftStutter
  DEF StopRun, StopAllHard, StopAllRequeue, Unwinding, KilledUnwinds, Down, Crash,
      CrashBeforeMark, FlowFailed, Restart, articlesOf
<1>7. CASE UNCHANGED vars
  BY <1>7, ShiftStutter DEF vars, articlesOf
<1> QED
  BY <1>1, <1>2, <1>3, <1>4, <1>5, <1>6, <1>7 DEF Next, Tick, Stops

\* Ticks, workers, stops, crashes and restarts implement the abstract shift.
THEOREM ImplementsShift == ASSUME ~LockedCommits PROVE Spec => ImplementsBoard
<1>1. BoardInv /\ [Next]_vars => [Board!Next]_(Board!boardVars)
  BY ShiftStep
<1> QED
  BY <1>1, ShiftInit, BoardInvariant, PTL DEF Spec, ImplementsBoard, Board!Spec

=============================================================================
