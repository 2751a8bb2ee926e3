---------------------------- MODULE StepExecutor -----------------------------
(***************************************************************************)
(* One execution of a step (workers/executor.py): its prompt is submitted  *)
(* to the control plane as a task, polled until a puller has answered or   *)
(* time is up, submitted again when no puller was there, continued after   *)
(* tool calls, and begun afresh when the answer is empty.  Beside it runs  *)
(* a request that stops the run (services/run_control.py).                 *)
(*                                                                         *)
(* Time is counted in polls and stands still once MaxWait is reached,      *)
(* where a wait ends.  How often the control plane is asked about the task *)
(* and the puller is left open.  A text is known by the task whose answer  *)
(* it is, and 0 is the empty text.  Commits succeed.                       *)
(***************************************************************************)
EXTENDS Naturals, Sequences

CONSTANTS
  Setups,           \* what a step may be started with, and how often it may try
  NoPullerTimeout,  \* step_no_puller_timeout_seconds
  ResponseTimeout,  \* step_response_timeout_seconds
  StaleGrace,       \* step_puller_stale_grace_seconds
  MaxWait,          \* step_busy_puller_max_wait_seconds; not disabled
  Slowest           \* bound: how many polls' time one poll may take

Positive == Nat \ {0}

Setup ==
  [tools    : BOOLEAN,    \* does the step have tools?
   retries  : Positive,   \* step_empty_response_max_attempts
   rounds   : Positive,   \* MAX_TOOL_ROUNDS
   attempts : Positive]   \* step_no_puller_max_attempts

ASSUME SetupsAssumption == Setups \subseteq Setup
ASSUME TimesAssumption  ==
  /\ NoPullerTimeout \in Positive /\ ResponseTimeout \in Positive
  /\ StaleGrace \in Nat /\ MaxWait \in Positive /\ Slowest \in Positive

VARIABLES
  setup,       \* the setup of the step; never changes
  tasks,       \* the tasks submitted, in order, as the control plane has them
  retry,       \* empty_attempt
  round,       \* round_num
  attempt,     \* the attempt of _submit_and_wait_for_round
  nudged,      \* tool_refusal_nudged
  transcript,  \* the answers among messages
  answer,      \* final_content
  pc,          \* where the executor is
  now,         \* the time since the submission
  heard,       \* the status of the task, as last heard
  pulled,      \* is the task known to be fetched?
  fetchedAt,   \* ... and since when
  alive,       \* did the puller have a heartbeat when last asked?
  wasAlive,    \* ... or ever since the submission
  aliveAt,     \* ... and when it last had
  row,         \* StepExecution.status
  outcome,     \* what execute_step returns or raises
  stop,        \* the stop of the run: none, flagged, or its rows are closed
  late         \* the tasks submitted with the flag set (history)

effort   == <<setup, retry, round, attempt, nudged>>
texts    == <<transcript, answer>>
watch    == <<now, heard, pulled, fetchedAt, alive, wasAlive, aliveAt>>
vars     == <<effort, tasks, texts, pc, watch, row, outcome, stop, late>>

-----------------------------------------------------------------------------
TaskStates == {"queued", "fetched", "answered"}

Task ==
  [retry   : Nat,
   round   : Nat,
   state   : TaskStates,
   claimed : BOOLEAN]   \* was a puller seen with it, or alive? (history)

Open     == {"pending", "submitted", "waiting", "pulled"}
Raised   == {"stopped", "timeout", "no_puller", "empty", "broken"}
Outcomes == {"answered", "reported"} \cup Raised

\* "tools": tool calls beside a text; "silent": tool calls alone.
Replies == {"text", "blank", "refusal", "tools", "silent"}

TypeOK ==
  /\ setup \in Setups
  /\ tasks \in Seq(Task)
  /\ retry \in 1 .. setup.retries
  /\ round \in 1 .. setup.rounds
  /\ attempt \in 1 .. setup.attempts
  /\ nudged \in BOOLEAN
  /\ transcript \in Seq(Nat)
  /\ answer \in Nat
  /\ pc \in {"submit", "poll", "decide", "confirm", "collect", "ended"}
  /\ now \in 0 .. MaxWait
  /\ heard \in TaskStates \cup {"nothing"}
  /\ pulled \in BOOLEAN
  /\ fetchedAt \in 0 .. MaxWait
  /\ alive \in BOOLEAN
  /\ wasAlive \in BOOLEAN
  /\ aliveAt \in 0 .. MaxWait
  /\ row \in Open \cup {"completed", "failed"}
  /\ outcome \in Outcomes \cup {"none"}
  /\ stop \in {"none", "flagged", "closed"}
  /\ late \in Nat

Init ==
  /\ setup \in Setups
  /\ tasks = <<>>
  /\ retry = 1 /\ round = 1 /\ attempt = 1
  /\ nudged = FALSE
  /\ transcript = <<>> /\ answer = 0
  /\ pc = "submit"
  /\ now = 0 /\ heard = "nothing"
  /\ pulled = FALSE /\ fetchedAt = 0
  /\ alive = FALSE /\ wasAlive = FALSE /\ aliveAt = 0
  /\ row = "pending"
  /\ outcome = "none"
  /\ stop = "none"
  /\ late = 0

-----------------------------------------------------------------------------
(* The control plane, its pullers, and the request that stops the run.     *)

Current == Len(tasks)   \* the task that is polled; the others are given up

\* A puller takes a task, or answers it: also one that is given up.
TaskMoves(from, to) ==
  /\ pc # "ended"
  /\ \E i \in DOMAIN tasks :
       /\ tasks[i].state = from
       /\ tasks' = [tasks EXCEPT ![i].state = to]
  /\ UNCHANGED <<effort, texts, pc, watch, row, outcome, stop, late>>

Fetch     == TaskMoves("queued", "fetched")
GetAnswer == TaskMoves("fetched", "answered")

\* Variant: the flag is looked at only once a puller has the task.
FlaggedOncePulled == stop = "flagged" /\ pulled

\* is_run_cancelled
Flagged == stop = "flagged"

\* request_run_cancel, by a stop that leaves it to the worker to notice.
RequestStop ==
  /\ stop = "none"
  /\ stop' = "flagged"
  /\ UNCHANGED <<effort, tasks, texts, pc, watch, row, outcome, late>>

\* Variant: what has been answered is failed as well.
StopRunAndAnswer ==
  /\ stop # "closed"
  /\ stop' = "closed"
  /\ row' = "failed"
  /\ UNCHANGED <<effort, tasks, texts, pc, watch, outcome, late>>

\* A hard stop: mark_run_cancelled_in_db closes the execution that is in flight,
\* and the flag is cleared at once, one that was requested before included.
\* The worker of an assignment is not found and goes on.
StopRun ==
  /\ stop # "closed"
  /\ stop' = "closed"
  /\ row' = IF row \in Open THEN "failed" ELSE row
  /\ UNCHANGED <<effort, tasks, texts, pc, watch, outcome, late>>

-----------------------------------------------------------------------------
(* Marks of the tracer, and the end of an execution.                       *)

\* mark_waiting and mark_pulled.  Their commits are throttled, and the session
\* may still hold the row as it was before a stop closed it.
Marked(from, to) == {row} \cup (IF row \in from \cup {"failed"} THEN {to} ELSE {})

\* The locals of _poll_step_response.
Unwatched ==
  /\ now' = 0 /\ heard' = "nothing"
  /\ pulled' = FALSE /\ fetchedAt' = 0
  /\ alive' = FALSE /\ wasAlive' = FALSE /\ aliveAt' = 0

Ends(result) ==
  /\ Unwatched
  /\ outcome' = result
  /\ row' = IF result = "answered" THEN "completed" ELSE "failed"
  /\ pc' = "ended"

\* A hard stop that finds the worker, whose key is the run's: it is cancelled.
KillWorker ==
  /\ stop # "closed"
  /\ pc # "ended"
  /\ stop' = "closed"
  /\ Ends("stopped")
  /\ UNCHANGED <<effort, tasks, texts, late>>

\* Variant: the row is marked for the first task only.
SubmitUnmarked ==
  /\ pc = "submit"
  /\ tasks' = Append(tasks, [retry |-> retry, round |-> round,
                             state |-> "queued", claimed |-> FALSE])
  /\ row' = IF row = "pending" THEN "submitted" ELSE row
  /\ pc' = "poll"
  /\ late' = IF stop = "flagged" THEN late + 1 ELSE late
  /\ UNCHANGED <<effort, texts, watch, outcome, stop>>

\* A task goes to the control plane under a new conversation, and the row
\* follows it: also one that a stop has closed.
Submit ==
  /\ pc = "submit"
  /\ tasks' = Append(tasks, [retry |-> retry, round |-> round,
                             state |-> "queued", claimed |-> FALSE])
  /\ row' = "submitted"
  /\ pc' = "poll"
  /\ late' = IF stop = "flagged" THEN late + 1 ELSE late
  /\ UNCHANGED <<effort, texts, watch, outcome, stop>>

\* The task is there, but the answer to its submission gets lost.
SubmitBreaks ==
  /\ pc = "submit"
  /\ tasks' = Append(tasks, [retry |-> retry, round |-> round,
                             state |-> "queued", claimed |-> FALSE])
  /\ late' = IF stop = "flagged" THEN late + 1 ELSE late
  /\ Ends("broken")
  /\ UNCHANGED <<effort, texts, stop>>

\* A request to the control plane fails, other than for a status.
RequestBreaks ==
  /\ pc \in {"submit", "poll", "confirm", "collect"}
  /\ pc = "poll" => ~Flagged
  /\ Ends("broken")
  /\ UNCHANGED <<effort, tasks, texts, stop, late>>

-----------------------------------------------------------------------------
(* One poll.                                                               *)

\* Only the flag is looked at, and only here.
NoticesStop ==
  /\ pc = "poll"
  /\ Flagged
  /\ Ends("stopped")
  /\ UNCHANGED <<effort, tasks, texts, stop, late>>

Claim(seen) == [tasks EXCEPT ![Current].claimed = @ \/ seen]

\* Where the task and its puller are.  Either may not be due to be asked for;
\* a status that cannot be had is forgotten.
LookAround ==
  /\ pc = "poll"
  /\ ~Flagged
  /\ \E status \in {heard, tasks[Current].state, "nothing"}, asked, beats \in BOOLEAN :
       LET known == pulled \/ status \in {"fetched", "answered"}
       IN  /\ heard' = status
           /\ alive' = IF asked THEN beats ELSE alive
           /\ wasAlive' = (wasAlive \/ (asked /\ beats))
           /\ aliveAt' = IF asked /\ beats THEN now ELSE aliveAt
           /\ pulled' = known
           /\ fetchedAt' = IF known /\ ~pulled THEN now ELSE fetchedAt
           /\ row' \in IF known /\ ~pulled
                       THEN Marked({"submitted", "waiting"}, "pulled") ELSE {row}
           /\ tasks' = Claim(known \/ (asked /\ beats))
  /\ pc' = "decide"
  /\ UNCHANGED <<effort, texts, now, outcome, stop, late>>

Lapsed == now - aliveAt >= StaleGrace

\* No puller has the task, and none is expected any more.
NoPuller ==
  \/ now >= MaxWait
  \/ /\ ~alive /\ heard # "queued"
     /\ IF wasAlive THEN Lapsed ELSE now >= NoPullerTimeout

\* A puller has the task, and no answer is expected any more.
NoAnswer ==
  \/ now >= MaxWait
  \/ /\ ~alive
     /\ \/ now - fetchedAt >= ResponseTimeout
        \/ heard \notin {"fetched", "answered"} /\ wasAlive /\ Lapsed

\* Variant: a puller that is alive is waited for as long as it takes.
GivesUpUnlessAlive == ~alive /\ (IF pulled THEN NoAnswer ELSE NoPuller)

GivesUp == IF pulled THEN NoAnswer ELSE NoPuller

MarkWaiting == row' \in Marked({"submitted"}, "waiting")

KeepWaiting ==
  /\ pc = "decide"
  /\ ~GivesUp
  /\ IF pulled
     THEN pc' = "collect" /\ UNCHANGED row
     ELSE /\ pc' = "confirm"
          /\ IF alive \/ heard = "queued" \/ wasAlive THEN MarkWaiting ELSE UNCHANGED row
  /\ UNCHANGED <<effort, tasks, texts, watch, outcome, stop, late>>

\* Variants: the puller may be busy; one attempt too many.
MayResubmitBusy  == ~pulled /\ attempt < setup.attempts
MayResubmitOften == ~pulled /\ ~wasAlive /\ attempt <= setup.attempts

MayResubmit == ~pulled /\ ~wasAlive /\ attempt < setup.attempts

\* Variant: an attempt is not counted.
ResubmitUncounted ==
  /\ pc = "decide"
  /\ GivesUp
  /\ MayResubmit
  /\ pc' = "submit"
  /\ Unwatched
  /\ UNCHANGED <<effort, tasks, texts, row, outcome, stop, late>>

Resubmit ==
  /\ pc = "decide"
  /\ GivesUp
  /\ MayResubmit
  /\ attempt' = attempt + 1
  /\ pc' = "submit"
  /\ Unwatched
  /\ UNCHANGED <<setup, retry, round, nudged, tasks, texts, row, outcome, stop, late>>

GiveUp ==
  /\ pc = "decide"
  /\ GivesUp
  /\ ~MayResubmit
  /\ Ends(IF pulled THEN "timeout" ELSE "no_puller")
  /\ UNCHANGED <<effort, tasks, texts, stop, late>>

\* task_was_fetched: the status once more, or a look at recent events.  A wait
\* that is not quite new is marked now if it has not been.
Confirm ==
  /\ pc = "confirm"
  /\ \E seen \in BOOLEAN :
       /\ seen => tasks[Current].state # "queued"
       /\ pulled' = seen
       /\ fetchedAt' = IF seen THEN now ELSE fetchedAt
       /\ tasks' = Claim(seen)
       /\ row' \in IF seen THEN Marked({"submitted", "waiting"}, "pulled")
                   ELSE IF now > 0 THEN Marked({"submitted"}, "waiting") ELSE {row}
  /\ pc' = "collect"
  /\ UNCHANGED <<effort, texts, now, heard, alive, wasAlive, aliveAt, outcome, stop, late>>

\* No response yet.
Sleep ==
  /\ pc = "collect"
  /\ tasks[Current].state # "answered"
  /\ \E t \in 1 .. Slowest : now' = IF now + t < MaxWait THEN now + t ELSE MaxWait
  /\ pc' = "poll"
  /\ UNCHANGED <<effort, tasks, texts, heard, pulled, fetchedAt, alive, wasAlive, aliveAt>>
  /\ UNCHANGED <<row, outcome, stop, late>>

-----------------------------------------------------------------------------
(* What is done with a response.                                           *)

\* Variant: responses are asked for by step and round; the oldest is taken.
ResponseOfRound ==
  CHOOSE i \in DOMAIN tasks :
    /\ tasks[i].round = round
    /\ tasks[i].state = "answered" \/ i = Current
    /\ \A j \in 1 .. i - 1 : tasks[j].round = round => tasks[j].state # "answered"

\* Responses are asked for by conversation.
Response == Current

Responded == pc = "collect" /\ tasks[Response].state = "answered"

\* The loop over rounds is left with this text.
Concludes(text) ==
  \/ /\ text # 0
     /\ answer' = text
     /\ Ends("answered")
     /\ UNCHANGED <<effort, transcript>>
  \/ /\ text = 0
     /\ retry < setup.retries
     /\ retry' = retry + 1
     /\ round' = 1 /\ attempt' = 1 /\ nudged' = FALSE
     /\ transcript' = <<>> /\ answer' = 0
     /\ pc' = "submit"
     /\ Unwatched
     /\ UNCHANGED <<setup, row, outcome>>
  \/ /\ text = 0
     /\ retry = setup.retries
     /\ answer' = 0
     /\ Ends("empty")
     /\ UNCHANGED <<effort, transcript>>

\* The next round shows the answer; the last one is not followed by another.
Continues(text) ==
  \/ /\ round < setup.rounds
     /\ round' = round + 1 /\ attempt' = 1
     /\ transcript' = Append(transcript, Response)
     /\ answer' = text
     /\ pc' = "submit"
     /\ Unwatched
     /\ UNCHANGED <<setup, retry, row, outcome>>
  \/ /\ round = setup.rounds
     /\ Concludes(text)

Calls(reply) == setup.tools /\ reply \in {"tools", "silent"}

Nudges(reply) == setup.tools /\ reply = "refusal" /\ ~nudged

Body(reply) == IF reply \in {"blank", "silent"} THEN 0 ELSE Response

\* The answer is the step's, and an empty one has the step begin afresh.
TakeText ==
  /\ Responded
  /\ \E reply \in Replies :
       /\ ~Calls(reply) /\ ~Nudges(reply)
       /\ Concludes(Body(reply))
  /\ UNCHANGED <<tasks, stop, late>>

\* Tools are run for the answer.
UseTools ==
  /\ Responded
  /\ \E reply \in Replies :
       /\ Calls(reply)
       /\ Continues(Body(reply))
       /\ round < setup.rounds => UNCHANGED nudged
  /\ UNCHANGED <<tasks, stop, late>>

\* The answer says there are no tools; it is told once that there are.
Nudge ==
  /\ Responded
  /\ Nudges("refusal")
  /\ Continues(answer)
  /\ round < setup.rounds => nudged' = TRUE
  /\ UNCHANGED <<tasks, stop, late>>

\* An error is returned, beside what text an earlier round may have had.
TakeError ==
  /\ Responded
  /\ Ends("reported")
  /\ UNCHANGED <<effort, tasks, texts, stop, late>>

-----------------------------------------------------------------------------
Worker ==
  \/ Submit \/ SubmitBreaks \/ RequestBreaks
  \/ NoticesStop \/ LookAround \/ KeepWaiting \/ Resubmit \/ GiveUp
  \/ Confirm \/ Sleep
  \/ TakeText \/ UseTools \/ Nudge \/ TakeError

Next == Worker \/ Fetch \/ GetAnswer \/ RequestStop \/ StopRun \/ KillWorker

Spec     == Init /\ [][Next]_vars
FairSpec == Spec /\ WF_vars(Worker)

-----------------------------------------------------------------------------
(* Properties.                                                             *)

\* However answers come and fail to come, a step is submitted at most so often.
\* _submit_and_wait_for_round, execute_step
SubmissionsBounded == Current <= setup.retries * (setup.rounds * setup.attempts)

\* What the next round is shown, and what the step returns, are answers of this
\* retry, one of every round, and of the task that was submitted last in it: an
\* answer that comes late, to a task that was given up, is never used.
\* _poll_step_response, execute_step
OnlyLatestAnswers ==
  LET Used(i, n) ==
        /\ i \in DOMAIN tasks
        /\ tasks[i].state = "answered" /\ tasks[i].retry = retry /\ tasks[i].round = n
        /\ \A j \in i + 1 .. Current : tasks[j].retry = retry => tasks[j].round > n
  IN  /\ Len(transcript) = round - 1
      /\ \A n \in DOMAIN transcript : Used(transcript[n], n)
      /\ answer # 0 => \E n \in 1 .. round : Used(answer, n)

\* A task that was seen with a puller, or whose puller was seen alive, is not
\* submitted a second time.  _submit_and_wait_for_round
ClaimedIsNotRepeated ==
  \A i, j \in DOMAIN tasks :
    (i < j /\ tasks[i].claimed) =>
      tasks[i].retry # tasks[j].retry \/ tasks[i].round # tasks[j].round

\* While the flag of a stop stands at most one task is submitted, though it is
\* not looked at between an answer, its tools and the next task.  (A hard stop
\* clears the flag: the worker of an assignment then submits what the step
\* takes, within SubmissionsBounded.)  execute_step, _poll_step_response
FlagAllowsOneTask == late <= 1

\* An execution shown as pulled has its current task with a puller: what was
\* known of an earlier task is not said of the next.  record_cp_round, mark_pulled
PulledIsFetched == row = "pulled" => tasks[Current].state # "queued"

\* When the step is over its execution is closed, whatever a stop did to it
\* meanwhile: completed with a text, or failed.
\* execute_step, run_step_from_context, fail_in_flight_steps
RowTellsOutcome ==
  pc = "ended" =>
    /\ row = IF outcome = "answered" THEN "completed" ELSE "failed"
    /\ outcome = "answered" => answer # 0

\* A step is answered or raises, whatever pullers do.  _poll_step_response
StepEnds == <>(pc = "ended")

\* "No puller fetched the task after repeated resubmits" (NoPullerAvailableError)
NoPullerFetchedIt ==
  [][(outcome = "none" /\ outcome' = "no_puller") => tasks[Current].state = "queued"]_vars

=============================================================================
