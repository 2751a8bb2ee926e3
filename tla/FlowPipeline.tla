---------------------------- MODULE FlowPipeline -----------------------------
(***************************************************************************)
(* One run executes its flow (orchestrator/flow_runner.py): its steps in   *)
(* order, the verdicts of its reviews, the way back to an earlier step,    *)
(* the checkpoint after every step, and what a restarted process resumes   *)
(* from (run_recovery.py, continue_active_run).                            *)
(*                                                                         *)
(* A text is known by the execution that wrote it: a step's output is the  *)
(* position of that execution in execs, and 0 is the empty text.  Of an    *)
(* answer only the verdict matters.  Steps have no key of a legacy name    *)
(* (writer, source_finder, fact_asserter), and a flow does not change      *)
(* under a run, which executes the version it was started with.            *)
(***************************************************************************)
EXTENDS Naturals, Sequences, FiniteSets

CONSTANTS
  Steps,          \* the number of steps of a flow
  Flows,          \* the flows a run may have been started with
  MaxIterations,  \* max_iterations of every flow
  MaxCrashes      \* bound: how often the process may go down

Step == 1 .. Steps

FlowShape ==
  [loops     : [Step -> 0 .. Steps],  \* where a rejecting step goes back to; 0: no loop
   gate      : 0 .. Steps,            \* the same of the last step; 0: it cannot loop
   completes : BOOLEAN,               \* may the last step complete the run?
   article   : Step]                  \* the step that writes the article

\* What the schema's validator lets pass.  It does not look at the loop of the
\* first step.
Admitted(f) ==
  /\ f \in FlowShape
  /\ f.completes \/ f.gate # 0
  /\ f.gate # Steps
  /\ \A i \in Step \ {1} : f.loops[i] < i

ASSUME StepsAssumption  == Steps \in Nat \ {0}
ASSUME BoundsAssumption == MaxIterations \in Nat \ {0} /\ MaxCrashes \in Nat
ASSUME FlowsAssumption  == \A f \in Flows : Admitted(f)

VARIABLES
  flow,      \* the flow of the run; never changes
  status,    \* FactoryRun.status
  current,   \* FactoryRun.current_step
  execs,     \* the run's StepExecution rows, oldest first
  saved,     \* is FactoryRun.pipeline_state set?
  kept,      \* what pipeline_state holds, when it is set
  rounds,    \* FactoryRun.review_round
  article,   \* the text of the CompletedArticle; 0: there is none
  pc,        \* where the worker is; "down": the process is, "up": no worker yet
  at,        \* the step the worker is at
  work,      \* its step_outputs, feedback and iteration
  flagged,   \* is the run in run_control._cancelled_run_ids?
  sentBack,  \* the review whose rejection was acted on last (history)
  crashes    \* how often the process went down

db     == <<status, current, execs, saved, kept, rounds, article>>
memory == <<pc, at, work, flagged>>
vars   == <<flow, db, memory, sentBack, crashes>>

-----------------------------------------------------------------------------
Attempts == Len(execs)
Latest   == execs[Attempts]

Verdicts == {"accept", "reject", "text"}   \* "text": without a verdict

Execution ==
  [step    : Step,
   state   : {"open", "completed", "failed"},
   reply   : Verdicts \cup {"none", "empty"},
   draft   : Nat,       \* the draft its prompt showed
   remarks : Nat,       \* the review its prompt quoted
   late    : BOOLEAN]   \* was the run stopped when it was opened?

WorkRecord == [outputs : [Step -> Nat], remarks : Nat, iteration : Nat]

Fresh == [outputs |-> [i \in Step |-> 0], remarks |-> 0, iteration |-> 0]

TypeOK ==
  /\ flow \in Flows
  /\ status \in {"running", "completed", "failed", "cancelled"}
  /\ current \in Step
  /\ execs \in Seq(Execution)
  /\ saved \in BOOLEAN
  /\ kept \in WorkRecord
  /\ rounds \in Nat
  /\ article \in Nat
  /\ pc \in {"down", "up", "ready", "emit", "step", "answered", "spent", "headline", "ended"}
  /\ at \in Step
  /\ work \in WorkRecord
  /\ flagged \in BOOLEAN
  /\ sentBack \in Nat
  /\ crashes \in 0 .. MaxCrashes

Init ==
  /\ flow \in Flows
  /\ status = "running"
  /\ current = 1
  /\ execs = <<>>
  /\ saved = FALSE
  /\ kept = Fresh
  /\ rounds = 0
  /\ article = 0
  /\ pc = "ready"
  /\ at = 1
  /\ work = Fresh
  /\ flagged = FALSE
  /\ sentBack = 0
  /\ crashes = 0

-----------------------------------------------------------------------------
(* Texts, verdicts and checkpoints.                                        *)

\* Variant: the row is not read again.
StoppedInMemory == flagged

Stopped == status # "running" \/ flagged

\* The step a rejection at step i goes back to.
Target(i) == IF i = Steps THEN flow.gate ELSE flow.loops[i]

\* Only a step that may go back has its answer searched for a verdict.
Replies(i) == IF Target(i) = 0 THEN {"text"} ELSE Verdicts

\* The draft shown to step i: the article, or what the first step wrote.
DraftFor(outputs, i) ==
  IF outputs[flow.article] # 0 THEN outputs[flow.article]
  ELSE IF i > 1 THEN outputs[1] ELSE 0

\* Variant: the article is what the first step wrote.
FirstText(outputs) == outputs[1]

\* The text a run delivers.
ArticleBody(outputs) ==
  IF outputs[flow.article] # 0 THEN outputs[flow.article] ELSE outputs[1]

\* What the worker knows once it has read the answer.
Read == [work EXCEPT !.outputs[at] = IF Latest.reply = "empty" THEN 0 ELSE Attempts]

\* ... and once the answer is a rejection.
SentBack ==
  [outputs |-> Read.outputs, remarks |-> Attempts, iteration |-> work.iteration + 1]

\* save_pipeline_state; the run is running, as its caller has just checked.
Save(w) ==
  /\ saved' = TRUE
  /\ kept' = w
  /\ rounds' = w.iteration

Forget ==
  /\ saved' = FALSE
  /\ kept' = Fresh

Ends(outcome) ==
  /\ status' = outcome
  /\ pc' = "ended"

\* Variant: an execution ends like its run.
CancelOpen(S) ==
  [k \in DOMAIN execs |->
     IF execs[k].state = "open" /\ execs[k].step \in S
     THEN [execs[k] EXCEPT !.state = "cancelled"] ELSE execs[k]]

\* fail_in_flight_steps, or fail_superseded_in_flight_steps, on the steps S.
FailOpen(S) ==
  [k \in DOMAIN execs |->
     IF execs[k].state = "open" /\ execs[k].step \in S
     THEN [execs[k] EXCEPT !.state = "failed"] ELSE execs[k]]

-----------------------------------------------------------------------------
(* The worker, from one commit or await to the next.                       *)

\* The loop is entered with no iteration left: the process went down between
\* the checkpoint of the last rejection and the end of the run.
RunsOut ==
  /\ pc = "ready"
  /\ work.iteration > MaxIterations
  /\ Ends("failed")
  /\ UNCHANGED <<flow, current, execs, saved, kept, rounds, article>>
  /\ UNCHANGED <<at, work, flagged, sentBack, crashes>>

\* Variant: a resumed run may be out of iterations.
CheckStepUnlimited ==
  /\ pc = "ready"
  /\ ~Stopped
  /\ current' = at
  /\ pc' = "emit"
  /\ UNCHANGED <<flow, status, execs, saved, kept, rounds, article>>
  /\ UNCHANGED <<at, work, flagged, sentBack, crashes>>

\* The step becomes the run's current step; the step_started event is awaited.
CheckStep ==
  /\ pc = "ready"
  /\ work.iteration <= MaxIterations
  /\ ~Stopped
  /\ current' = at
  /\ pc' = "emit"
  /\ UNCHANGED <<flow, status, execs, saved, kept, rounds, article>>
  /\ UNCHANGED <<at, work, flagged, sentBack, crashes>>

\* Variant: what an earlier attempt left open stays open.
OpenStepBesides ==
  /\ pc = "emit"
  /\ execs' = Append(execs,
       [step |-> at, state |-> "open", reply |-> "none",
        draft |-> DraftFor(work.outputs, at), remarks |-> work.remarks,
        late |-> flagged \/ status # "running"])
  /\ pc' = "step"
  /\ UNCHANGED <<flow, status, current, saved, kept, rounds, article>>
  /\ UNCHANGED <<at, work, flagged, sentBack, crashes>>

\* The run is not looked at again: an execution is opened and submitted.
OpenStep ==
  /\ pc = "emit"
  /\ execs' = Append(FailOpen({at}),
       [step |-> at, state |-> "open", reply |-> "none",
        draft |-> DraftFor(work.outputs, at), remarks |-> work.remarks,
        late |-> flagged \/ status # "running"])
  /\ pc' = "step"
  /\ UNCHANGED <<flow, status, current, saved, kept, rounds, article>>
  /\ UNCHANGED <<at, work, flagged, sentBack, crashes>>

\* The answer arrives and the execution is closed, whatever became of it.  An
\* answer that reports an error may be empty, or hold a tool round's text.
Answer ==
  /\ pc = "step"
  /\ \E state \in {"completed", "failed"}, reply \in Replies(at) \cup {"empty"} :
       /\ reply = "empty" => state = "failed"
       /\ execs' = [execs EXCEPT ![Attempts].state = state, ![Attempts].reply = reply]
  /\ pc' = "answered"
  /\ UNCHANGED <<flow, status, current, saved, kept, rounds, article>>
  /\ UNCHANGED <<at, work, flagged, sentBack, crashes>>

\* No puller, a timeout, or nothing but empty answers: the run has failed.
StepRaises ==
  /\ pc = "step"
  /\ execs' = FailOpen(Step)
  /\ Ends("failed")
  /\ UNCHANGED <<flow, current, saved, kept, rounds, article>>
  /\ UNCHANGED <<at, work, flagged, sentBack, crashes>>

\* The stop is noticed before a step, by the poll loop (which only looks at
\* the flag), or once the answer is there.
NoticesStop ==
  /\ \/ pc = "ready" /\ work.iteration <= MaxIterations /\ Stopped
     \/ pc = "step" /\ flagged
     \/ pc = "answered" /\ Stopped
  /\ execs' = FailOpen(Step)
  /\ Ends(IF status = "running" THEN "cancelled" ELSE status)
  /\ IF status = "running" THEN Forget ELSE UNCHANGED <<saved, kept>>
  /\ flagged' = FALSE
  /\ UNCHANGED <<flow, current, rounds, article, at, work, sentBack, crashes>>

-----------------------------------------------------------------------------
(* The worker judges the answer.                                           *)

Judging == pc = "answered" /\ ~Stopped

Rejected == Latest.reply = "reject" /\ Target(at) # 0

\* Variant: the checkpoint is written before the answer is read.
AdvanceKeepingOld ==
  /\ Judging
  /\ at < Steps
  /\ ~Rejected
  /\ work' = Read
  /\ Save(work)
  /\ at' = at + 1
  /\ pc' = "ready"
  /\ UNCHANGED <<flow, status, current, execs, article, flagged, sentBack, crashes>>

\* Any answer but a rejection leads on to the next step: also one that has no
\* verdict, and one that is an error.
Advance ==
  /\ Judging
  /\ at < Steps
  /\ ~Rejected
  /\ work' = Read
  /\ Save(Read)
  /\ at' = at + 1
  /\ pc' = "ready"
  /\ UNCHANGED <<flow, status, current, execs, article, flagged, sentBack, crashes>>

\* Variant: the checkpoint of a rejection keeps the earlier remarks.
SendBackUnexplained ==
  /\ Judging
  /\ at = Steps => flow.completes
  /\ Rejected
  /\ work' = SentBack
  /\ Save([work' EXCEPT !.remarks = work.remarks])
  /\ at' = Target(at)
  /\ sentBack' = Attempts
  /\ pc' = IF work'.iteration > MaxIterations THEN "spent" ELSE "ready"
  /\ UNCHANGED <<flow, status, current, execs, article, flagged, crashes>>

\* Variant: the review is repeated.
SendBackInPlace ==
  /\ Judging
  /\ at = Steps => flow.completes
  /\ Rejected
  /\ work' = SentBack
  /\ Save(work')
  /\ UNCHANGED at
  /\ sentBack' = Attempts
  /\ pc' = IF work'.iteration > MaxIterations THEN "spent" ELSE "ready"
  /\ UNCHANGED <<flow, status, current, execs, article, flagged, crashes>>

\* A review rejects the draft: back to the step its loop names.
SendBack ==
  /\ Judging
  /\ at = Steps => flow.completes
  /\ Rejected
  /\ work' = SentBack
  /\ Save(work')
  /\ at' = Target(at)
  /\ sentBack' = Attempts
  /\ pc' = IF work'.iteration > MaxIterations THEN "spent" ELSE "ready"
  /\ UNCHANGED <<flow, status, current, execs, article, flagged, crashes>>

\* The rejection was one too many.
Spent ==
  /\ pc = "spent"
  /\ Ends("failed")
  /\ UNCHANGED <<flow, current, execs, saved, kept, rounds, article>>
  /\ UNCHANGED <<at, work, flagged, sentBack, crashes>>

Accepted == flow.completes /\ (flow.gate = 0 \/ Latest.reply = "accept")

\* The last step accepts an article; its headline is awaited.
Accept ==
  /\ Judging
  /\ at = Steps
  /\ Accepted
  /\ ArticleBody(Read.outputs) # 0
  /\ work' = Read
  /\ pc' = "headline"
  /\ UNCHANGED <<flow, db, at, flagged, sentBack, crashes>>

\* It accepts, but there is no text to deliver.
AcceptNothing ==
  /\ Judging
  /\ at = Steps
  /\ Accepted
  /\ ArticleBody(Read.outputs) = 0
  /\ Forget
  /\ Ends("failed")
  /\ UNCHANGED <<flow, current, execs, rounds, article>>
  /\ UNCHANGED <<at, work, flagged, sentBack, crashes>>

\* The last step gives no verdict, or the flow does not let it complete.
Undecided ==
  /\ Judging
  /\ at = Steps
  /\ ~Accepted
  /\ ~(flow.completes /\ Rejected)
  /\ Ends("failed")
  /\ UNCHANGED <<flow, current, execs, saved, kept, rounds, article>>
  /\ UNCHANGED <<at, work, flagged, sentBack, crashes>>

\* The headline is there.  The run is not looked at again.
Deliver ==
  /\ pc = "headline"
  /\ article' = ArticleBody(work.outputs)
  /\ Forget
  /\ Ends("completed")
  /\ UNCHANGED <<flow, current, execs, rounds, at, work, flagged, sentBack, crashes>>

-----------------------------------------------------------------------------
(* Stops, crashes and recovery.                                            *)

\* Where the worker may be when another task runs.
Awaiting == pc \in {"ready", "emit", "step", "headline"}

\* A stop that lets the worker notice: stop_all_runs with requeue.  It flags
\* every running run, also one that has no worker yet.
RequestStop ==
  /\ Awaiting \/ pc = "up"
  /\ status = "running"
  /\ ~flagged
  /\ flagged' = TRUE
  /\ UNCHANGED <<flow, db, pc, at, work, sentBack, crashes>>

\* A stop that marks the run.  The worker is cancelled only if its key is that
\* of the run; the worker of an assignment goes on.
StopRun ==
  /\ Awaiting \/ pc = "up"
  /\ status = "running"
  /\ status' = "cancelled"
  /\ Forget
  /\ execs' = FailOpen(Step)
  /\ pc' \in IF Awaiting THEN {pc, "ended"} ELSE {pc}
  /\ UNCHANGED <<flow, current, rounds, article, at, work, flagged, sentBack, crashes>>

Crash ==
  /\ pc \notin {"down", "ended"}
  /\ crashes < MaxCrashes
  /\ crashes' = crashes + 1
  /\ pc' = "down"
  /\ at' = 1
  /\ work' = Fresh
  /\ flagged' = FALSE
  /\ UNCHANGED <<flow, db, sentBack>>

CompletedOf(i) == {k \in DOMAIN execs : execs[k].step = i /\ execs[k].state = "completed"}

\* The last of the executions K; 0 if there is none.
IsNewest(k, K) == k \in K /\ \A j \in K : j <= k
Newest(K) == IF \E k \in K : IsNewest(k, K) THEN CHOOSE k \in K : IsNewest(k, K) ELSE 0

\* The rejections of the gate, which is the last step when it can loop.
GateRejections ==
  IF flow.gate = 0 THEN {}
  ELSE {k \in CompletedOf(Steps) : execs[k].reply = "reject"}

\* reconstruct_pipeline_state
Rebuilt ==
  [outputs   |-> [i \in Step |-> Newest(CompletedOf(i))],
   remarks   |-> Newest(GateRejections),
   iteration |-> Cardinality(GateRejections)]

Rebuildable == ~saved /\ Attempts > 0 /\ Latest.state = "completed"

\* reconcile_orphaned_runs keeps a run with a checkpoint, or one that can be
\* rebuilt, or an execution in flight.
Restart ==
  /\ pc = "down"
  /\ status = "running"
  /\ IF Rebuildable THEN Save(Rebuilt) ELSE UNCHANGED <<saved, kept, rounds>>
  /\ IF saved \/ Rebuildable \/ (Attempts > 0 /\ Latest.state = "open")
     THEN pc' = "up" /\ UNCHANGED status
     ELSE Ends("failed")
  /\ UNCHANGED <<flow, current, execs, article, at, work, flagged, sentBack, crashes>>

\* Variant: only a run with a checkpoint is resumed.
ContinueSaved ==
  /\ pc = "up"
  /\ status = "running"
  /\ ~flagged
  /\ saved
  /\ at' = current
  /\ work' = kept
  /\ pc' = "ready"
  /\ UNCHANGED <<flow, db, flagged, sentBack, crashes>>

\* Variant: the texts are there again, the rounds are not.
ContinueAnew ==
  /\ pc = "up"
  /\ status = "running"
  /\ ~flagged
  /\ at' = current
  /\ work' = IF saved THEN [kept EXCEPT !.iteration = 0] ELSE Fresh
  /\ pc' = "ready"
  /\ UNCHANGED <<flow, db, flagged, sentBack, crashes>>

\* The scan skips a flagged run.  continue_active_run resumes at the current
\* step; the step that the checkpoint names is never used.
Continue ==
  /\ pc = "up"
  /\ status = "running"
  /\ ~flagged
  /\ at' = current
  /\ work' = IF saved THEN [kept EXCEPT !.iteration = IF @ = 0 THEN rounds ELSE @]
             ELSE [Fresh EXCEPT !.iteration = rounds]
  /\ pc' = "ready"
  /\ UNCHANGED <<flow, db, flagged, sentBack, crashes>>

-----------------------------------------------------------------------------
Judge == Advance \/ SendBack \/ Accept \/ AcceptNothing \/ Undecided

Worker ==
  \/ RunsOut \/ CheckStep \/ OpenStep \/ Answer \/ StepRaises \/ NoticesStop
  \/ Judge \/ Spent \/ Deliver

Next == Worker \/ RequestStop \/ StopRun \/ Crash \/ Restart \/ Continue

Spec == Init /\ [][Next]_vars

\* The event loop runs the worker, every await in it ends (a step's wait is
\* capped), the process is restarted and the loop's scan finds the run.
FairSpec == Spec /\ WF_vars(Worker) /\ WF_vars(Restart) /\ WF_vars(Continue)

-----------------------------------------------------------------------------
(* Properties.                                                             *)

\* The pullers' work for one run is bounded: every iteration executes a step
\* at most once, and a crash costs at most one more execution, wherever
\* between two commits it happens.
ExecutionsBounded == Attempts <= Steps * (MaxIterations + 1) + crashes

\* At most one execution is open, and it is of the run's current step, though
\* crashes leave executions open that nobody awaits any more.
OneOpenExecution ==
  \A k \in DOMAIN execs :
    execs[k].state = "open" => k = Attempts /\ execs[k].step = current

Answered(i) == {k \in DOMAIN execs : execs[k].step = i /\ execs[k].reply # "none"}

\* A step is shown the latest answer of every step before it, also after a
\* resume from a checkpoint or from one that was rebuilt.
LatestOutputsShown ==
  pc = "step" =>
    \A i \in 1 .. at - 1 :
      /\ Answered(i) # {}
      /\ LET k == Newest(Answered(i)) IN
           work.outputs[i] = IF execs[k].reply = "empty" THEN 0 ELSE k

\* A rewrite quotes the review that sent the draft back last, also when the
\* process went down in between.
RemarksAreCurrent == pc = "step" => Latest.remarks = sentBack

\* The article is the draft that the accepting review was shown.
AcceptedIsDelivered ==
  (article # 0 /\ flow.gate # 0 /\ flow.article # Steps) =>
    Latest.reply = "accept" /\ Latest.step = Steps /\ Latest.draft = article

Rereviewed ==
  {k \in DOMAIN execs :
     \E j \in 1 .. k - 1 :
       /\ execs[j].step = Steps /\ execs[k].step = Steps
       /\ execs[j].reply = "reject"
       /\ execs[j].draft = execs[k].draft
       /\ execs[j].draft # 0 /\ execs[execs[j].draft].step = flow.article}

\* A draft that the last step rejected is rewritten before the last step sees
\* it again, unless the process goes down on the way back: the run then
\* resumes at the review, once for every crash.
RejectedDraftIsRewritten ==
  (flow.gate \in 1 .. flow.article /\ flow.article < Steps) =>
    Cardinality(Rereviewed) <= crashes

\* A stopped run opens at most one more execution; a crash that forgets the
\* request lets another one be stopped late.
LateWorkBounded == Cardinality({k \in DOMAIN execs : execs[k].late}) <= 1 + crashes

\* A run that was stopped or is complete has no checkpoint to resume from.
EndedRunIsForgotten == status \in {"cancelled", "completed"} => ~saved

Phase ==
  CASE status = "running"   -> "open"
    [] status = "cancelled" -> "stopped"
    [] status = "completed" -> "delivered"
    [] status = "failed"    -> "dropped"

Cycle == INSTANCE ReviewCycle WITH MaxRounds <- MaxIterations, phase <- Phase

\* Steps, checkpoints, stops and crashes implement the abstract review cycle:
\* rounds are counted once, and a run that has none left delivers nothing.
ImplementsCycle == Cycle!Spec

\* Asked to stop while it has no worker, which nobody is there to notice.
Forsaken == pc = "up" /\ flagged

\* A run ends, whatever the reviews say and wherever the process goes down,
\* unless a stop is requested of it between a restart and the scan: no tick
\* gives it a worker then, until the next restart forgets the request.
RunEnds == <>[](status # "running" \/ Forsaken)

-----------------------------------------------------------------------------
(* What the schema says and the code does not do.                          *)

\* "Last step must allow complete and/or loop": where it only loops, a
\* rejection in a run that has rounds left is sent back.
LoopOnlyIsSentBack ==
  [][ (/\ Judging
       /\ at = Steps
       /\ Rejected
       /\ work.iteration < MaxIterations) => status' # "failed" ]_vars

=============================================================================
