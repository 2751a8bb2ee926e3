# Article Factory in TLA+

Models of the Article Factory, the newsroom orchestrator of this repository: TLA+
modules of its core, TLC configurations that check them on small instances, and
proofs that TLAPS checks for every size.  The code is the reference.  Every
definition that models code is mapped to its lines in `PROJECT.json`, together
with the runs, the mutants (plausible bugs that each checked property notices),
the hazards, the findings and the theorems.  Paths below are relative to
`src/src/article_factory/`.

| Module | Models |
|---|---|
| `ShiftBoard` | What a shift promises its editors; abstract |
| `FactoryLoop` | Dispatch tick, workers, stops, crash and recovery; implements `ShiftBoard` |
| `MCFactoryLoop` | TLC instances of it |
| `FactoryLoopProofs` | Types, worker keys, one driver and one run per assignment, plans and articles, refinement of `ShiftBoard` |
| `ReviewCycle` | What a run promises: bounded rewriting, one outcome; abstract |
| `FlowPipeline` | One run's steps, verdicts, checkpoints, stops, crashes and resumes; implements `ReviewCycle` |
| `MCFlowPipeline` | Four flows of three steps for TLC |
| `FlowProofs` | Types, bounded work, one open execution, the texts and remarks that steps are shown, what is delivered, what telemetry says, refinement of `ReviewCycle` |
| `StepExecutor` | One execution of a step: submission, polling, timeouts, tool rounds, retries, a stop beside it |
| `MCStepExecutor` | Three setups of a step for TLC |
| `StepProofs` | Types, bounded submissions, what a stop allows, which answers are used, what an execution says of its task |
| `RunTelemetry` | What is told of a run once it has ended; adds its records to every action of `FlowPipeline` |
| `ShiftCalendar` | What the calendar of shifts promises; abstract |
| `ShiftScheduler` | Rosters, T-15, boundaries and operators on a clock; implements `ShiftCalendar` |
| `ShiftRace` | Requests to activate a shift that overlap with other commits |
| `MCShiftScheduler` | Two windows and their standing orders for TLC |
| `CalendarProofs` | Refinement of `ShiftCalendar`, one shift on air, types, what a roster keeps, runs and generates |
| `PullerDispatch` | Which lines, pullers and reporters a tick chooses |
| `MCPullerDispatch` | How the desks of TLC's instances choose reporters |
| `DispatchProofs` | Types, one puller per line, turns of desks and of reporters |
| `TopicQueues` | Topics, their queues, runs and batch, the Showroom, switching flows |
| `MCTopicQueues` | A queue that an earlier version has left, for TLC |
| `QueueProofs` | Types, clearing a queue, posting a batch, requeueing |
| `FlowLibrary` | Flow files, their versions, runs that execute them, jobs that improve them |
| `MCFlowLibrary` | A desk, a free path and a template for TLC |
| `LibraryProofs` | Types, references, jobs, what a run executes |
| `NumberLemmas` | The least number, induction over numbers and ranks in a set, for the proofs |

`tlc -config LoopSafety.cfg MCFactoryLoop.tla` runs a check, `tlapm
FactoryLoopProofs.tla` a proof; `PROJECT.json` says which module goes with which
configuration.

## 1. The system

The factory is one Python process with one asyncio event loop, a pool of threads
and one SQLite database.  On the loop run the dispatch tick, the workers, the
schedulers, the jobs and every `async def` handler: the code between two awaits is
atomic for the others there, and they interleave at every await.  A handler that
is a plain `def` runs in a thread and interleaves with everything from commit to
commit.  Every handler opens a session of its own, with `autoflush=False`; what
counts as shared state are committed rows, a few process-wide sets and the flow
files.  `sqlite3` begins a transaction at the first write and not at the first
read, so a handler in a thread may write on the strength of rows that have
changed; and a session that has written holds the lock until it commits, also
across an await, while others wait up to 30 seconds and then fail.

| Component | State | Operations | Interacts with |
|---|---|---|---|
| Dispatch loop (`orchestrator/runner.py`) | `_run_workers` (key to task), `_cancelled` | `_dispatch_tick`, `_recover_orphaned_runs`, `_spawn_worker`, `schedule_run`, `cancel_run_workers`, `start`, `stop` | run table, assignments, run control, control plane |
| Run lifecycle (`runner.py`, `services/run_control.py`) | `FactoryRun` rows, `_cancelled_run_ids` | `_begin_pipeline_run`, `_execute_pipeline`, `_complete_run`, `mark_run_cancelled_in_db`, `ensure_run_active` | flow execution, shift outcome, publishing |
| Run recovery (`services/run_recovery.py`) | `pipeline_state`, `StepExecution` rows | `reconcile_orphaned_runs`, `reconstruct_pipeline_state`, `save_pipeline_state`, `commit_with_retry` | loop start, `continue_active_run` |
| Flow execution (`orchestrator/flow_runner.py`, `services/flow_variables.py`, `flow_schema.py`, `verdict.py`) | step outputs, feedback, iteration | `execute_flow_pipeline`, `restore_flow_state`, `build_step_variables` | step execution, recovery |
| Step execution (`workers/executor.py`, `services/step_trace.py`) | conversation, `StepExecution` | `execute_step`, `_submit_and_wait_for_round`, `_poll_step_response` | control plane, run control |
| Shift outcome (`services/shift_dispatch.py`, `shift_plans.py`) | `ShiftPlan`, `ShiftAssignment` | `mark_assignment_status`, `maybe_complete_shift_plan` | runs, boundary scheduler |
| Hard stop and stop-all (`services/shift_boundary_scheduler.py`, `flow_switch.py`, `routes/admin.py`) | none of its own | `hard_stop_shift_plan`, `stop_all_runs`, `stop_run` | loop, run control, shift outcome |
| Shift scheduling (`shift_boundary_scheduler.py`, `shift_t15_scheduler.py`, `assignment_desk.py`) | plan windows, rosters, standing orders | T-15 roster, activation, window end, stall and gap checks | shift outcome, control plane |
| Puller and desk selection (`shift_dispatch.py`, `puller_selection.py`) | `_shift_rr_index`, reporters of lines | round robin over desks, idle pullers, turns of reporters | loop, control plane |
| Topic queues, flow switch (`flow_queues.py`, `flow_switch.py`, `queue_retry.py`, `routes/admin.py`) | `FlowQueue`, `TopicQueueItem`, `_requeue_after_cancel` | enqueue, adopt, stop-and-clear, delete, retry, switch | run table, run control, publishing |
| Publishing (`showroom_publish.py` and others) | article status, batches | publish an article, publish a batch once its runs have ended | runs, Showroom (HTTP) |
| Prompt improvement (`prompt_improvement.py`, `prompt_improvement_runner.py`) | jobs, reports | create, run, restart | flow versions, control plane |
| Alerts and readiness | alert rows | append, resolve, read | schedulers |
| Flow storage and versions (`flow_storage.py`, `flow_versions.py`) | flow files, `FlowVersion` rows | save, import, copy, apply, move, delete, version | runs, jobs |
| Telemetry (`telemetry.py`, `flow_roles.py`) | `RunTelemetry` rows | capture, rebuild | runs, executions |
| Control plane client, admin API | none that decisions depend on | HTTP, forms | all |

What is hard in it, and what each component owes:

- *Interleaving.* Assignment workers, run-keyed workers, requests that execute a
  run themselves, the scan for orphaned runs and stop requests all meet on one
  run.  A run must have one worker; `_run_workers` must describe live tasks.
- *Stale state.* A worker checks its run before a step and after an answer, and
  not during the headline of an article; a plan is judged on rows its query sees.
  The run, article and assignment tables must agree all the same.
- *Crashes.* Between two commits lie the marking of an assignment, the creation
  of its run, an opened execution, its answer and the checkpoint.  A restart must
  lose no run, start none twice, and resume with the right texts, remarks and
  round.
- *Lost writes.* SQLite may stay locked beyond its timeout, so a commit can fail
  or, after the rollback of a retry, be empty.
- *Bounds.* `max_iterations` bounds rewriting, also across crashes.
- *Progress.* A run without a worker is picked up; a run ends; a shift ends with
  its window.
- *Long sequences of requests.* Stops, switches, clears, deletions and retries of
  topics follow each other while runs end; flows are copied, moved, improved and
  executed at once.

`PROJECT.json` lists 40 hazards at their lines, with the properties that would
notice them going wrong, or why none does yet.

## 2. FactoryLoop

State.  The first variables are committed rows: `plan`, `asg` (assignments),
`status`, `asgOf`, `exec`, `ckpt` (runs, their latest execution and whether they
have a checkpoint) and `article`.  The others are process memory: `workers` (the
keys of `_run_workers`), `pc` and `drives` (the await every task is parked at and
the run it drives), `dying` (cancelled tasks of runs that have not yet taken their
`CancelledError`: young ones had not begun, working ones have a handler to run), `flag`
(`_cancelled_run_ids`), `handler` (test-run requests between the commit of a run
and `schedule_run`), `tick`, `up`.  `triggered` and `crashes` are history and a
bound.

Actions.  `TickScan`, `TickDispatch`, `TickGivesUp` are the two halves of a
dispatch tick around its await of the puller list.  `Begin`, `BeginFails`,
`BeginAdhoc`, `ScheduleRun`, `BeginTrigger` create runs.  A worker's actions go
from await to await: `StartScheduled`, `StartContinue`, `StartTooLate`,
`ContinueGivesUp`; `CheckStep`, `OpenStep`, `NextStep`, `AcceptStep`,
`EmptyArticle`, `FlowFails` (two commits, the second of which may be lost, or cut
off by `CrashBeforeMark`), `NoticesStop`, `Raises`, `WorkerDies`;
`CompleteRun`, `CompleteTwice`, `PublishDone`, `PublishCommitFails`;
`KilledUnwinds`.  `StopRun`, `StopAllHard`, `StopAllRequeue` and `HardStop` are
the four ways to stop, `Crash` and `Restart` the rest.  A graceful
`FactoryLoop.stop()` leaves the database as a crash does and is not an action of
its own.

Properties that hold.  `OneDriverPerRun`, `OneRunPerAssignment`,
`CompletePlanIsSettled`, `ArticleIffCompleted`, `ArticleMeansEnded`,
`WorkerKeysAreLive`, `UndrivenRunIsPickedUp`, and `ImplementsBoard`: the map from
rows to `ShiftBoard` (a story is waiting, working, published or dropped; the
articles of a story are those of its runs) takes every step to a step of the
abstract shift or to a stutter.

`WorkerKeysAreLive` needs care.  A stop pops the key of the task it cancels;
`schedule_run` asks for the key alone, so a request that comes while the cancelled
task unwinds spawns a second one, whose key the first one's done callback then
pops.  The model has this (`ScheduleRun`, `KilledUnwinds`).  What saves the factory
is that the run was stopped by then: the task that lost its key finds its run over
and ends.  The property says just that, and that no key outlives its task.

Abstractions.  The steps of a flow are one await (`FlowPipeline` tells them
apart).  Pullers are only the reason a tick dispatches some of the pending
assignments.  The loop is configured (a model, a control-plane URL).  A commit
that fails, an error handler that cannot persist and a retry that commits nothing
are possible when `LockedCommits` is true.  The case that a stop request sets its
flag and then fails to commit is left out.  `EmptyArticle` fails a run and marks its
assignment in one step, though the code commits twice: what a crash between the two
leaves is what `CrashBeforeMark` leaves, but for a checkpoint of a failed run, which
nobody reads.  `_run_queue_item` is never called in
the code and has no action; no new run carries a queue item.

## 3. FlowPipeline

State.  The rows of one run: `status`, `current` (`current_step`), `execs` (its
`StepExecution` rows), `saved` and `kept` (`pipeline_state`), `rounds`
(`review_round`), `article`.  The worker: `pc`, `at` (its step), `work` (step
outputs, feedback, iteration), `flagged`.  A text is identified by the execution
that wrote it, so the model can tell which draft a review was shown and which
remarks a rewrite quotes.

Actions.  `CheckStep`, `OpenStep`, `Answer` are a step from its check to its
answer; `Advance`, `SendBack`, `Accept`, `AcceptNothing`, `Undecided` are what
the runner does with the answer; `RunsOut` and `Spent` are the two ends of
`max_iterations`; `StepRaises`, `NoticesStop`, `Deliver` end the run.
`RequestStop` and `StopRun` stop it, with a worker or without, `Crash` may come
between any two commits,
`Restart` reconciles and rebuilds the checkpoint, `Continue` resumes a run that is
not flagged.  A run that is flagged between a restart and the scan is `Forsaken`:
every tick skips it, and nobody ends it before the next restart forgets the flag.
`RunEnds` leaves out this state and no other.

The verdict of a step is `accept`, `reject` or none; only a step that can go back
has its answer searched for one.  An answer that reports an error closes its
execution as failed, may be empty or hold a tool round's text, and advances the
flow all the same.  A resume starts at `current_step`: the step the checkpoint
names is stored and never used, so a crash after a rejection was saved has the
rejected draft reviewed again.  `RejectedDraftIsRewritten` therefore allows one
such review for every crash, and none without.

Properties that hold.  `ExecutionsBounded`, `OneOpenExecution`,
`LatestOutputsShown`, `RemarksAreCurrent`, `AcceptedIsDelivered`,
`RejectedDraftIsRewritten`, `LateWorkBounded`, `EndedRunIsForgotten`, `RunEnds`,
and `ImplementsCycle`: every step is a step of `ReviewCycle` or a stutter.

Abstractions.  Step keys of legacy names (`writer`, `source_finder`,
`fact_asserter`) have fallbacks that are left out.  The gate a flow's performance
section may name is taken to be its last step.  A flow does not change under a
run: the code executes the snapshot, while the rebuilding of a checkpoint reads
the current file, which is not modelled.  Loops lead to steps of the flow; a first
step whose loop leads nowhere (section 8) fails its run at a rejection, and such
flows are left out.  The branch for a rejecting last step
without a loop target cannot be reached through the validator.  In `ready` after
`Advance` a stop may arrive although the code does not really suspend there; the
model has more interleavings than the program, not fewer.

## 4. StepExecutor

This is the await that `FactoryLoop` and `FlowPipeline` take as a whole.

State.  `tasks` are the tasks submitted, as the control plane has them: queued,
fetched or answered.  `retry`, `round` and `attempt` are the three nested loops
(a retry after an empty answer, a tool round, a resubmission); `transcript` and
`answer` the texts kept between rounds, each known by the task that wrote it.
`now`, `heard`, `pulled`, `fetchedAt`, `alive`, `wasAlive` and `aliveAt` are the
locals of `_poll_step_response`, `row` is the `StepExecution`, `stop` the
cancellation of the run.  `claimed` (of a task) and `late` are history.

Actions.  `Submit` sends a task under a new conversation; `SubmitBreaks` is a
submission that arrives and whose answer is lost.  A poll is `NoticesStop` or
`LookAround` (the status of the task and the liveness of its puller, either of
which may not be due or not to be had), then `KeepWaiting`, `Resubmit` or
`GiveUp`, then `Confirm` (was it fetched meanwhile?), then the response or
`Sleep`.  `TakeText`, `UseTools`, `Nudge` and `TakeError` are what is done with a
response: `Concludes` leaves the rounds or begins them afresh, `Continues` goes to
the next.  `Fetch` and `GetAnswer` are pullers, also those of tasks that were
given up.  `RequestStop` is a stop that leaves its flag to be noticed; `StopRun` a
hard stop that finds no worker, as of an assignment, closes the row and takes the
flag back at once; `KillWorker` one that finds it.

Properties that hold.  `SubmissionsBounded`: retries times rounds times attempts.
`OnlyLatestAnswers`: what the next round is shown and what a step returns are
answers of this retry, one of every round, and of the latest task in it; an
answer to a task that was given up is never used.  `ClaimedIsNotRepeated`: a task
that was seen with a puller, or whose puller was seen alive, is not submitted
again.  `FlagAllowsOneTask`: the flag is not looked at between an answer, its
tools and the next task, and still at most one task is submitted while it stands.
(After a hard stop the worker of an assignment has no flag to see: it goes on to
the end of its step, within `SubmissionsBounded`, and `FlowPipeline` says what
its run does then.)
`PulledIsFetched`: the row speaks of the current task.  `RowTellsOutcome`: an
execution that a stop has closed may be reopened by the next round, but never
stays open when the step is over.  `StepEnds`.

Abstractions.  Time is counted in polls and stands still at `MaxWait`, where
every wait ends; a setting of 0 disables that end in the code and is not
modelled, because nothing then ends a wait for a puller that keeps its heartbeat.
How often the status and the puller are asked for is left open, which covers the
throttling of both.  The marks of the tracer commit or are throttled away, and
their session may still show the row as it was before a stop closed it; other
commits succeed.  What an answer says is one of a text, a blank, a refusal of
tools, tool calls with or without a text.  Tools themselves have no state a
property needs.

## 5. ShiftScheduler

State.  `plans` (status, T-15 mark and review of the shift of every window),
`slots` (its desks), `roster` (the lines of a desk: source, locked, status, and
whether an operator has seen a suggestion), `orders` (standing orders), `alerts`,
`auto` (the setting `auto_scheduler_enabled`);
`now` is the clock and `tick` where the tick is.

Actions.  The requests are `EnsurePlan`, `SavePlan`, `AddDesk`, `ReplaceLines`,
`EditLine`, `Approve`, `RejectSuggestions`, `PutOrder`, `Activate`, `Complete` and
`SwitchScheduler`.
`Dispatch` and `Settle` are what the loop does to lines.  A tick is
`FindDueForT15` (which reads the plan and awaits the pullers), `GenerateRoster` or
`SkipT15` (with the row read before), then `SwitchedOff` or `ListPullers`, and
`TakeOver`, `StayEmpty`, `OnlyEnd` or `CheckFails`: the check of the boundaries from
its first write to its commit.

Properties that hold.  `ImplementsCalendar`: drafted, on air, over, once each, and
one at a time.  `NoUnseenSuggestionRuns`: no line of the model is worked on that
was not in the roster an operator approved.  `LockedLinesSurvive`: no tick loses a
locked manual line.  `OverdueShiftCloses`, under fairness: a shift ends after its
window, unless an operator switches the scheduler off.  `GenerationRespectsTarget`
(T-15 stays within a standing order) is proved and not run.

Abstractions.  Since a scheduler holds the write lock from its first write on,
what follows is one action.  Work that no counter of the tick reports is rolled
back (`runner.py:693`), and `StayEmpty` does so; what `check_desk_stalls` counts
depends on minutes the clock does not have, so that it may count any line that
runs (`MayStall`).  Requests are atomic here; in
`ShiftRace`, activation is not, and section 10 says what comes of it.  A shift has
one desk of a path; texts, reporters and alerts that only inform are left out.

## 6. PullerDispatch

State.  `lines` (with their worker, its puller and reporter), `rr`, `tick` (and
the pullers it has read as in use), `approved`, `personas`, `tests`.

Actions.  `TickBegins`, `Scan` (after the boundaries have been checked: it reads
what is in use), then `NobodyIdle`, `Dispatch` or `DispatchLocked` after the
control plane has answered; `Begin`, `BeginFails`, `EndRun`, `EndOrphan` are
workers; `TestRun` and `TestEnds` are test runs of desks, which share pullers with
lines; `StopRun`, `Approve` and the three edits of personas are operators.

Properties that hold.  `OnePullerPerLine`: what is in use is read before an await
and is still right after it, because a worker that was spawned has created its run
before the next tick reads: that tick first awaits the check of the boundaries.
This depends on `AutoScheduler`: without it there is no such await, and a puller
could be given twice; the mutant `ScanAtOnce` shows it.  It speaks of runs that
nobody has stopped: a stop cancels the row and not the assignment's worker, which
polls on while its puller counts as idle and is given to another line.
`RoundRobinIsFair`: a waiting desk is passed at most once
by every other.  `ReportersTakeTurns`: nobody of a pool writes twice before
everybody has written once, also within one tick and after restarts.

Abstractions.  The reservations of the loop are pruned at every tick, because no
worker key begins with `queue-`, and have no variable; that a stop clears them
changes nothing for the same reason.  The shift stays on air.

## 7. TopicQueues

Runs of topics come from earlier versions of the factory: no run that the code
creates now has a topic, and the loop only ends, resumes and stops those there
are.  `Starts` is the set of databases such a version may leave; it is assumed
that a topic has at most one running run.

State.  `queue`, `topic` (status, queue, flow), `status`, `article`, `missed`
(runs that failed for want of a verdict), `showroom` (the batch there); `pc`,
`killed`, `flag` and `requeue` are workers and run control; `loop` says which
handler holds the event loop between two of its commits, `retrying` and `posting`
which requests await.  `closer` and `wish` are history.

Actions.  Workers: `FlowFails`, `FlowIsEmpty`, `AskHeadline`, `Complete`,
`ArticlePosted`, `BatchAnswered`, `NoticeStop`, `KilledEnds`, `WorkerRaises`.
Handlers on the loop: `StopRun`, `StopAll`, `SoftStop`, `ClearHistory`,
`UpdateTopics` and `StartPrompt` (the rest of a switch), `ClearStops` and `ClearDeletes` (the two
halves of stop-and-clear), `RetryAsked`, `RetryAnswered`, `PublishAsked`,
`PublishAnswered`, `PublishBatch`, `RecoverAccept`.  Handlers in threads, which
come between those halves: `DeleteRun`, `DeleteQueue`, `SetQueue`, `Enqueue`.
`Restart` is the process going down and coming up; it adopts topics without a
queue.

Properties that hold.  `CompleteBatchIsPosted`: when all runs of a batch have
ended and the last one ended in its worker, the batch is posted or its worker is
about to post it (a hard stop, an exception or a restart ends a run without a look
at its batch).  `SoftStopRequeues`: a topic whose run was stopped for a new flow
waits under the flow that was asked for last.  `ClearLeavesNothing`: stop-and-clear
leaves no topic but completed ones, and no run that was stopped.

Abstractions.  Priorities decide nothing.  Presets and snapshots are copies.

## 8. FlowLibrary

State.  `file` (what every path holds: a flow, nothing, or a file cut short),
`versions`, `moves` and `saves` (requests between two of their commits), `run`,
`job`, `reports`.  The step ids of a flow are one family, minted together; a flow
that refers to another family has a dangling reference.  `inside` are the references
that the schema looks at, `loose` those it does not: the loop of the first step,
loops that are off, the completion of an inner step.

Actions.  `Put`, `Import`, `Create`, `CreateDesk`, `Duplicate`, `FromTemplate`,
`ApplyTemplate`, `Delete`, `MoveWrites` and `MoveDeletes`, `AskVersion` and
`SaveVersion`, `ApplyVersion` are requests in threads; `BeginRun` and `EndRun` the
runs; `AskJob`, `JobStarts`, `JobFails`, `JobAnswered`, `JobSaves`, `JobReports`,
`JobCompletes`, `JobLocked` a job.  `Restart` may cut one file short.

Properties that hold.  `RunKeepsItsFlow`: a run executes to its end what it began
with, although `resolve_flow_for_run` is asked again at every resume.
`ReferencesStayInside`: references the schema looks at never leave their flow, also
where nobody asks the schema (a template that is applied, a prompt that is
improved); of the others, which a PUT or an import may bring in dangling, no other
operation makes one, so that the references of a copy follow its steps.  (A run
whose first step loops to a step that is not there fails when it is rejected.)
`OneVersionPerJob`.

Abstractions.  A run may name any path, so the default path is left out.

## 9. RunTelemetry

The worker's step records are stored in the checkpoint and at last in the
manifest; telemetry is computed from whichever is there, or from the executions.
Every action of `FlowPipeline` has one here that also says what becomes of the
records.  `TelemetryTellsTheRun`: iterations, verdicts, the first-pass mark, the
reason and the text agree with what the gate decided, wherever a crash lay between
an execution, its record and the checkpoint.  Scores, tokens and durations are
left out.

## 10. The runs

| Run | Instance | What it shows |
|---|---|---|
| `LoopSafety` | 2 assignments, 2 runs, 1 crash, symmetry; 500 000 states | one driver, one run per assignment, tables that agree, keys of live tasks, and `ImplementsBoard` |
| `LoopLocked` | 2 assignments, 1 run, 1 trigger, 2 crashes, locked commits; 89 000 | one driver per run, although workers die and dispatches get lost; a triggered run that the tick resumes beside its request is still delivered once |
| `LoopLiveness` | 1 assignment, 1 run, 2 crashes; 5 300 | an undriven run is picked up |
| `FlowSafety` | 4 flows of 3 steps, 1 iteration within the limit, 1 crash; 3.1 million | all properties of a flow, its termination, `ImplementsCycle` and its telemetry |
| `StepSafety` | 3 setups, up to 4 tasks, waits of up to 3 polls; 2.1 million | all properties of a step and that it ends |
| `ShiftSafety` | 2 windows of 2 units, 1 desk, 3 requests; 228 000 | all properties of the calendar and that overdue shifts end while the scheduler is on |
| `DispatchSafety` | 2 desks of 2 lines, 2 pullers, 3 reporters of whom 2 exist, at most 1 suggested line, 1 test run or stop, 1 edit, 1 fault; 4.6 million | pullers, desks and reporters |
| `QueueSafety` | 2 queues, 2 flows, 2 topics and room for a third, 3 runs of one batch, 3 requests, 1 fault; 6.6 million | batches, requeueing and clearing |
| `LibrarySafety` | 3 paths, 3 versions, 1 run, 1 job, 3 requests, 1 restart; 1.9 million | files, versions, runs and jobs |

Three more runs end in a counterexample; each states what a text of the repository
says and the code does not do (section 12).

Bounds.  Two runs and two assignments (`LoopSafety`) let two workers meet on one run, two runs
compete for one assignment and one assignment close a plan on the rows of another.
One crash separates any two commits, and one is enough for every recovery path:
rebuilt, kept, failed.  The second crash of `LoopLiveness` interrupts a recovery.
Three steps are the fewest with a step to go back to, a producer between and a
gate; one iteration gives a rejection within the limit and one beyond it.  The four flows
are two review loops, a gate behind a source finder, no review, and a last step
that may only loop.  Triggers are bounded by `MaxTriggers`, crashes by
`MaxCrashes`; the proofs hold for all values of both.  The setups of
`StepSafety` combine the three loops in pairs: two tool rounds with two attempts,
two retries of two rounds, two retries with two attempts.  A wait of three polls is
longer than the two timeouts and the grace by one, and a poll may take the time of
two, so that every timeout can pass before, at and after its moment; the order in
which they pass is all that the code compares.  Locked commits lose one write of
one run, so `LoopLocked` has one, which an assignment, a request or a recovery
may begin.  Two windows are the fewest in which one shift takes over from
another; a window of two units has a time of T-15, a start and an inside; three
requests are a roster, an approval and an edit after it.  Two desks and two
pullers make a desk wait for a puller and for its turn; a third persona that does
not exist yet lets a pool grow, shrink and change, and one suggested line keeps its
desk waiting for an approval in any place.  Two runs of one topic and a
third of another are the fewest in which a batch has a last and a topic an old
run; three requests are a stop, a retry or deletion, and a switch after it.  In
the library one run and one job meet every request on their path, and two more
flows are copied to and from.  `FactoryLoop`, `ShiftScheduler` and
`PullerDispatch` never deadlock: the tick is always possible.  A run or a step that is
over does nothing more, and the requests of `TopicQueues` and `FlowLibrary` are
bounded, so their runs do not check deadlock.

Fairness.  `FairSpec` of `FactoryLoop`: the tick repeats while the process is up
(`_loop` swallows every exception and sleeps), the event loop runs every task
that can run, a supervisor restarts the process, and a puller list is returned or
its request fails.  `FairSpec` of `FlowPipeline`: the worker is run, every await
in it ends (`StepEnds` is what justifies this of a step: it is answered or
raises), and the process and its scan come back; `TelemetryFairSpec` is the same of
`RunTelemetry`.  `Fairness` of `ShiftScheduler`: the tick repeats, and its check of
the boundaries, when it is tried again and again, does not fail for ever; operators
may leave the scheduler off.
`FairSpec` of `StepExecutor`:
the worker is run (its HTTP requests have timeouts) and time passes with its
polls; nothing is assumed about pullers.  Nothing is assumed
about operators, who may stop runs or not, nor about verdicts.

## 11. The proofs

All theorems are for any assignments, runs, flows, steps, setups, timeouts and
bounds.

`FactoryLoopProofs`.  `TypeInv` adds to the types that a parked worker drives a
run, because `CompleteRun` writes the article of the run it drives.  `DriverInv`
is the inductive invariant behind `OneDriver` and `WorkerKeysCorrect`: keys are
those of live tasks; a task drives the run its name says, and an assignment's
task a run of that assignment; only run-keyed tasks are cancelled, and their run
no longer runs, so the scan starts no task of the same name while one unwinds, and
one that a request starts has nothing to do when its key is popped; a
run that is driven has a row; and while an assignment's task drives a run, the
run's own key is free.  It needs no assumption on commits.  `OutcomeInv` (an article's run is over; a complete plan is settled)
gives `CompletePlanSettled` and `ArticleEnded`.

Its second part assumes `~LockedCommits`, and has to: with locked commits an
assignment can get a second run (section 12).  `BoardInv` adds that an assignment
that is pending, or whose worker has yet to create its run, has no run; that
triggered runs belong to no assignment; that an assignment is completed exactly
when a run of it has an article; and that a worker that may still deliver drives
a run without one.  It gives `OneRun`,
`ArticleTable` and, with a lemma for every kind of abstract step,
`ImplementsShift`.

`FlowProofs`.  `WorkInv` relates the round in the database to the worker's and
the checkpoint's (a run without a checkpoint is at its first step), and the
number of executions to the round, the current step and the crashes:
`Attempts <= Steps * rounds + current + crashes`, with one execution to spare
where a step is about to be opened.  A crash before `CheckStep` returns to an
earlier step, which is why the count refers to `current` and not to the worker's
own step.  It gives `BoundedWork`, and with the typing of the phases
`ImplementsReviewCycle`.  `OpenInv` (what is open is the latest execution, and no
worker past its answer has one) gives `OneExecutionIsOpen`; `EndedIsForgotten` is
inductive as it stands.  These cover flows whose first step loops, which the
schema's validator does not look at.  `LateInv` gives `LateWorkIsBounded`: one
execution may be open when a stop is asked for, and after it the worker sees the
stop unless a crash makes the process forget it.

What the steps are told.  `RemarksInv` says that the worker, the checkpoint and the
open row agree on the rejection that sent the draft back last, and gives
`RemarksAreAlwaysCurrent`; the case that needs work is a restart without a
checkpoint, where `CheckpointInv` shows that no review has happened yet.
`LatestInv` (the latest row is of the worker's step and has its draft) and
`AcceptInv` give `AcceptedIsAlwaysDelivered`.  `ShownInv` says that the worker's
text of every step before its own, and the checkpoint's of every step before the
run's, is the latest answer in the rows; it gives `LatestOutputsAreShown`.  With
`SourcesInv` (a text was written by a row of its step, and a row shows only what
came before it), `RewriteInv` gives `RejectedDraftIsAlwaysRewritten`: past the
step that writes the article, the worker has one that was not refused, or a crash
is left that has not yet cost a review.  The last two assume `FirstStepStays`: the
first step's loop does not lead forward.  They need it, since a rejection of such
a step skips the steps between, whose texts are then missing, and the validator
does not exclude it; TLC finds the violation once `Flows` has such a flow.

What is told of a run (`RunTelemetry`, proved in `FlowProofs`).  A record names an
execution, so the records are read as a path of steps on which the gate's are
marked.  `Books` relates them to history: no execution is recorded twice, the
gate's records are exactly what was decided, and the reviews without a draft since
the one before are at most the crashes.  `StoredInv` says so of the checkpoint of a
run that goes on or has failed with it, and that its texts are those of its latest
records; `MemoryInv` that a worker has the checkpoint's records and texts, and that
without a draft since the last decision it is on the way back, or at the gate with a crash
to spare (a run that goes down between a rejection and the next `CheckStep` resumes
at the gate, since `current` still names it); `FinalInv` that the records of an accepted run end with the review
that accepted it.  Together with the order of what is rebuilt from executions
(`InOrderOf`, by ranks) and the one-to-one correspondence of iterations, reviews and
decisions (`GroupsOf`) they give `TelemetryAlwaysTells`.  It assumes `NoShortcut`: the
loop of the first step does not lead to the gate.  It needs it, since the gate would
then judge what nobody has written without any crash; TLC finds the violation
with such a flow, which the validator lets pass.

`StepProofs`.  `TypeInv` adds that a task exists wherever one is polled, and that
the locals of a poll are fresh where none is.  `CountInv` counts the submissions
by the position in the three loops:
`(retry - 1) * (rounds * attempts) + (round - 1) * attempts + attempts begun`;
it gives `BoundedSubmissions`.  `StopInv` is behind `OneTaskWhileFlagged`: a task
that was submitted under the flag is polled exactly once more, to notice it, unless
a hard stop has taken the flag back.
`RowTellsOutcome` is inductive as it stands, because only a row in flight is
closed by a stop and what ends a step writes its row last.

Which answers are used: `PlaceInv` orders the tasks by retry and round: none is ahead
of the executor and the one that is polled is its own.  `ClaimInv` says that what
the executor knows of the task it polls (`pulled`, `wasAlive`) covers every claim
on it, and that no task of a round about to be submitted is claimed; it gives
`ClaimedOnce`.  `FetchedInv` says that what was heard since the last submission is
true of the task that is polled (`PulledMeansFetched`).  `AnswersInv` gives
`LatestAnswers`; it adds that until the step is over the text that is kept is of
an earlier round, because the current round may yet be submitted again.  All
safety properties of a step are thus proved.

`CalendarProofs`, the refinement.  What a step does to the plans is one of three moves: nothing to
any status, some shifts end and some are planned, or one goes on air and what was
on air ends.  Every action makes one of them; that plans keep their type is all
the invariant it takes, because what a tick has read before an await decides at
most which move is made.  It gives `ImplementsTheCalendar`, and from the abstract
specification `OneAtATime`.  It holds as long as requests are atomic, and
`TwoShifts` shows that it has to.

`CalendarProofs`, the rosters.  `Placed` strengthens the types: a desk that is not
on a shift has no lines there.  Most of a tick only marks plans or refills
vacancies (`QuietMoves`) and most requests touch one plan (`AskedMoves`), so each
theorem has one lemma for every way a roster can change.  `UnseenWait` (while a
roster holds a suggestion that no operator has seen, its review is pending and the
line does not run) gives `UnseenSuggestionsNeverRun`.  `LockedLinesAlwaysSurvive` and
`GenerationAlwaysWithinTarget` are action properties of the same invariant; the
second counts the lines that are kept, of the standing orders and suggested.

`DispatchProofs`.  `TypeInv` gives the lines, the picks of a walk and what a tick
has read their types.  The walk over the desks is a recursive function, and so are
the rows it leaves; what they contain is proved by induction on the number of
steps, with the lemma `Induction` of `NumberLemmas` (the induction theorems of the
library take an operator, so this one takes the set of numbers that have the
property).  `Apart` (no two lines whose runs nobody has stopped have a puller in common) and `Counted` (between
the scan and the dispatch nobody has a puller that the scan did not read) give
`OnePullerAlways`, under `AutoScheduler`: the await that it depends on exists only
then (section 6).  `RoundRobinAlwaysFair` rests on `Fair`: a desk that was passed
by another is nearer to the position that the next tick starts from.  It is stated
for desks whose reporters take turns, since the choice by use raises and ends the
tick after some of its picks (`LruReporter`).  `TurnInv` says that the last turns
of a desk are successive members of its pool, counted by the lines that have a
reporter, and that no line that waits has one (`Fresh`); it gives
`ReportersAlwaysTakeTurns`.

`QueueProofs`.  `TypeCorrect` first.  `ClearedIsEmpty` needs `Halting`: between the
halves of a clear, no run of a topic it has read is running, since only the loop
starts or resumes runs and it is held.  `LastOutPosts` needs `Posted`: whoever
ended last is the closer, and is at an await that posts unless the batch is
posted, or has been posted since.  `StoppedTopicWaits` needs `Requeued`: a run that
is running is driven and its wish is what run control will requeue; runs of one
topic that still may end do not rival each other (this is what `StartAssumption`
is for); and only a run that is over has its topic yet to be marked.

`LibraryProofs`.  `Shelved(X)` says that every flow on disk, in a version or on its
way there has its looked-at references inside and its loose ones inside or in the
set `X`.  Every request keeps it if `X` holds what a PUT may bring (`Licensed`).
With all numbers for `X` this is the first half of `ReferencesInside`; with the
strays there are now for `X`, in a step that is no PUT, it is the second.  `Sourced`
(a job that was asked for is about a version), `Pinned` (a run that is running has a
version, of the path it was begun with) and `Stage` (which version and report a job
has made, by the await it is at) complete the invariant.  Versions are only added.
They give `RunKeepsFlow` and `JobMakesOne`, also with restarts and locked commits.

Only model-checked: everything temporal under fairness (`UndrivenRunIsPickedUp`,
`RunEnds`, `StepEnds`, `OverdueShiftCloses`), which TLAPS cannot prove.  Every safety
property of a passing run is proved, under the hypotheses named above.

## 12. Where the code and the texts differ

| Run | Text | Code |
|---|---|---|
| `HardStopCancels` | the hard stop's alert: in-flight work is cancelled | assignment workers are not cancelled, and one past its last check completes its cancelled run |
| `TwoShifts` | "Another shift is already active" is refused | the request reads in a thread and writes after the boundary scheduler has committed: two shifts are on air |
| `LruReporter` | least recently used within the desk slot | a time without a zone is compared with one that has one: the tick raises once a reporter of the pool has worked |

`PROJECT.json` quotes the lines.  Five more statements stand in the modules
without a run of their own; a configuration with one of them as its property finds
the counterexample: `TriggeredAlone` (a run is resumed "after restart"; the tick
resumes one that its trigger request is executing), `StopRequestIsHeeded` (runs
halt "at the next step boundary"; a flagged run without a worker is skipped by
every tick; section 3), `CompletedIsFinal` (a run stays completed when publishing fails; a
locked commit after publishing fails it), `LoopOnlyIsSentBack` (the last step may
only loop; such a step fails every run) and `NoPullerFetchedIt` (no puller fetched
the task; the status last read decides).  `OneRunPerAssignment` fails as well when
`LockedCommits` is true, since the rollback of `commit_with_retry` discards what
was to be committed.

## 13. Not modelled, and what is left

Not modelled for good: the control-plane client and Showroom (external services;
their answers are choices of the models), forms, pages and settings, prompts and
the wording of verdicts, tables of statistics over many runs, presets and
snapshots of topic lists (nothing reads them back), folders of flows, alerts that
only inform, and readiness, which only reads.

What could be added: an abstract specification of a step (it is answered once or
raises, within a number of submissions), and a checkpoint in `FlowLibrary`, to see the
one hazard without a property that spans two modules, the rebuilding of a
checkpoint from a flow file that a run no longer executes.
