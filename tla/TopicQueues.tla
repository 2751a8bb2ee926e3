---------------------------- MODULE TopicQueues -----------------------------
(***************************************************************************)
(* Topic queues (services/flow_queues.py, routes/flow_queues.py, the queue *)
(* and run routes of routes/admin.py), stopping and switching flows        *)
(* (flow_switch.py, run_control.py) and the batch a queue's runs form for  *)
(* the Showroom (showroom_flow_publish.py).                                *)
(*                                                                         *)
(* Nothing starts a queued topic any more, so the runs that have a topic   *)
(* are the ones an earlier version has left in the database; those still   *)
(* running are resumed.  Async handlers and workers share the event loop:  *)
(* the code between two awaits is one step.  Sync handlers run in a thread *)
(* pool, so they also run between two commits of a handler that holds the  *)
(* loop (variable loop).                                                   *)
(*                                                                         *)
(* Topics are numbered as SQLite numbers them: a new row takes the number  *)
(* after the largest one present.  Priorities are left out, as only the    *)
(* retired dispatcher reads them.                                          *)
(***************************************************************************)
EXTENDS Integers, FiniteSets, FiniteSetsExt

CONSTANTS
  MaxTopics,    \* bound: how many numbers topics may take
  Queues,       \* ids of flow queues
  Default,      \* the queue with slug "default"
  NoQueue,      \* flow_queue_id = NULL
  Flows,        \* paths of flows
  NoFlow,       \* no requeue path is stored
  Runs,         \* the runs that have a topic: numbers in the order they began
  TopicOf,      \* FactoryRun.queue_item_id
  Batch,        \* the runs that share one topic_queue_snapshot_id
  Starts,       \* the databases an earlier version may leave: run statuses
  MaxRequests,  \* bound: how many requests of operators
  MaxFaults     \* bound: how many restarts, failed posts and failed commits

ASSUME QueueAssumption == /\ Default \in Queues /\ NoQueue \notin Queues
                          /\ Queues # {Default} /\ Flows # {}
                          /\ NoFlow \notin Flows /\ MaxTopics \in Nat
ASSUME RunAssumption   == /\ Runs \subseteq Nat /\ Batch \subseteq Runs
                          /\ TopicOf \in [Runs -> 1 .. MaxTopics]
                          /\ 0 \notin Runs
ASSUME StartAssumption ==   \* a topic has one running run at most
  \A st \in Starts :
    /\ st \in [Runs -> {"completed", "failed", "cancelled", "running", "gone"}]
    /\ \A r, x \in Runs :
         st[r] = "running" /\ st[x] = "running" /\ TopicOf[r] = TopicOf[x] => r = x
ASSUME FaultAssumption == MaxRequests \in Nat /\ MaxFaults \in Nat

VARIABLES
  queue,     \* FlowQueue.enabled, or "gone"
  topic,     \* TopicQueueItem: status, queue and flow; status "gone": no row
  status,    \* FactoryRun.status; "gone": no row
  article,   \* runs with a CompletedArticle
  missed,    \* failed runs whose error names a missing verdict
  showroom,  \* the Showroom's batch: "open", "posted" or "failed" (last post)
  pc,        \* the await the worker (or request) that drives a run is at
  killed,    \* workers with an undelivered CancelledError
  flag,      \* run_control._cancelled_run_ids
  requeue,   \* run_control._requeue_after_cancel
  loop,      \* what holds the event loop between two of its commits
  retrying,  \* topics whose retry request awaits the readiness checks
  posting,   \* runs whose publish request awaits the Showroom
  closer,    \* the run whose worker ended last, 0 when it ended unseen (history)
  wish,      \* flow an operator last asked a run's topic to go to (history)
  requests, faults

rows   == <<queue, topic, status, article, missed, showroom>>
memory == <<pc, killed, flag, requeue, loop, retrying, posting>>
vars   == <<rows, memory, closer, wish, requests, faults>>

-----------------------------------------------------------------------------
Topics == 1 .. MaxTopics
Ended  == {"completed", "failed", "cancelled"}
Idle   == [at |-> "free", queue |-> NoQueue, topics |-> {}]

\* Awaits before the outcome of a run is committed, and after.
Working == {"work", "headline", "recover"}
Posting == {"posting", "reposting", "batch", "again", "unmarked", "unflag"}

TypeOK ==
  /\ queue \in [Queues -> {"on", "off", "gone"}]
  /\ topic \in [Topics ->
       [status : {"gone", "queued", "running", "completed", "failed"},
        queue : Queues \cup {NoQueue}, flow : Flows]]
  /\ status \in [Runs -> Ended \cup {"running", "gone"}]
  /\ article \in SUBSET Runs /\ missed \in SUBSET Runs
  /\ showroom \in {"open", "posted", "failed"}
  /\ pc \in [Runs -> {"none"} \cup Working \cup Posting]
  /\ killed \in SUBSET Runs /\ flag \in SUBSET Runs
  /\ requeue \in [Runs -> Flows \cup {NoFlow}]
  /\ loop \in [at : {"free", "clearing", "switching", "updating", "starting"},
               queue : Queues \cup {NoQueue}, topics : SUBSET Topics]
  /\ retrying \in SUBSET Topics /\ posting \in SUBSET Runs
  /\ closer \in Runs \cup {0}
  /\ wish \in [Runs -> Flows \cup {NoFlow}]
  /\ requests \in 0 .. MaxRequests /\ faults \in 0 .. MaxFaults

Exists(i)  == topic[i].status # "gone"
Present    == {i \in Topics : Exists(i)}
RunsOf(I)  == {r \in Runs : status[r] # "gone" /\ TopicOf[r] \in I}
Running(R) == {r \in R : status[r] = "running"}

\* Topics of a queue; the default queue also owns those without a queue.
Scope(q) == {i \in Present :
               \/ topic[i].queue = q
               \/ q = Default /\ topic[i].queue = NoQueue}

\* The topic of a run, as long as its row is there.
Mark(r, to)    == [topic EXCEPT ![TopicOf[r]].status =
                     IF @ = "gone" THEN @ ELSE to]
\* Rows marked running become failed when their run is stopped.
Halted(R)      == [i \in Topics |->
                     IF topic[i].status = "running" /\ \E r \in R : TopicOf[r] = i
                     THEN [topic[i] EXCEPT !.status = "failed"] ELSE topic[i]]
Cancelled(R)   == [r \in Runs |-> IF r \in R THEN "cancelled" ELSE status[r]]

\* Topics marked running that no running run works on become failed.
Reconciled(ts, st) ==
  [i \in Topics |->
     IF /\ ts[i].status = "running"
        /\ ~\E r \in Runs : TopicOf[r] = i /\ st[r] = "running"
     THEN [ts[i] EXCEPT !.status = "failed"] ELSE ts[i]]
Init ==
  \E st \in Starts :
    /\ status = st
    /\ topic = [i \in Topics |->
         [status |-> CASE \E r \in Runs : TopicOf[r] = i /\ st[r] = "running" -> "running"
                       [] \E r \in Runs : TopicOf[r] = i /\ st[r] # "gone" -> "failed"
                       [] OTHER -> "gone",
          queue |-> CHOOSE q \in Queues : q # Default,
          flow |-> CHOOSE f \in Flows : TRUE]]
    /\ queue = [q \in Queues |-> "on"]
    /\ article = {} /\ missed = {}
    /\ showroom = "open"
    /\ pc = [r \in Runs |-> IF st[r] = "running" THEN "work" ELSE "none"]
    /\ killed = {} /\ flag = {}
    /\ requeue = [r \in Runs |-> NoFlow]
    /\ loop = Idle
    /\ retrying = {} /\ posting = {}
    /\ closer = 0
    /\ wish = [r \in Runs |-> NoFlow]
    /\ requests = 0 /\ faults = 0

-----------------------------------------------------------------------------
(* The workers.                                                            *)

\* Variant: a stopped run does not count as ended.
BatchCompleteOfFinished(st) ==
  LET B == {r \in Batch : st[r] # "gone"}
  IN B # {} /\ \A r \in B : st[r] \in Ended \ {"cancelled"}

BatchComplete(st) ==
  LET B == {r \in Batch : st[r] # "gone"} IN B # {} /\ \A r \in B : st[r] \in Ended

\* The worker goes on to post the batch of its run, or is done.
Onward(r, at) == pc' = [pc EXCEPT ![r] =
                          IF r \in Batch /\ BatchComplete(status') THEN at ELSE "none"]
Drives(r, at) == pc[r] \in at /\ r \notin killed /\ loop.at = "free"
Ends(r, to)   == status' = [status EXCEPT ![r] = to]
Back(r)       == pc' = [pc EXCEPT ![r] = "none"]

\* The flow ends without an article: the run is committed as failed, and its
\* topic is marked only after the batch was posted.
FlowFails(r) ==
  /\ Drives(r, {"work"})
  /\ Ends(r, "failed")
  /\ Onward(r, "unmarked")
  /\ missed' \in {missed, missed \cup {r}}
  /\ topic' = IF pc'[r] = "none" THEN Mark(r, "failed") ELSE topic
  /\ closer' = r
  /\ UNCHANGED <<queue, article, showroom, killed, flag, requeue, loop,
                 retrying, posting, wish, requests, faults>>

\* The last step's output is no article.
FlowIsEmpty(r) ==
  /\ Drives(r, {"work"})
  /\ Ends(r, "failed")
  /\ topic' = Mark(r, "failed")
  /\ Onward(r, "batch")
  /\ closer' = r
  /\ UNCHANGED <<queue, article, missed, showroom, killed, flag, requeue, loop,
                 retrying, posting, wish, requests, faults>>

AskHeadline(r) ==
  /\ Drives(r, {"work"})
  /\ pc' = [pc EXCEPT ![r] = "headline"]
  /\ UNCHANGED <<rows, killed, flag, requeue, loop, retrying, posting, closer,
                 wish, requests, faults>>

\* The run, its article and its topic in one commit; a second article of the
\* run, or a row deleted meanwhile, makes the commit fail.
Complete(r) ==
  /\ Drives(r, {"headline", "recover"})
  /\ IF status[r] = "gone" \/ r \in article
     THEN Back(r) /\ UNCHANGED <<rows, closer, wish>>
     ELSE /\ Ends(r, "completed")
          /\ article' = article \cup {r}
          /\ topic' = Mark(r, "completed")
          /\ pc' = [pc EXCEPT ![r] = IF @ = "headline" THEN "posting" ELSE "reposting"]
          /\ closer' = r
          /\ wish' = [x \in Runs |-> IF TopicOf[x] = TopicOf[r] THEN NoFlow ELSE wish[x]]
          /\ UNCHANGED <<queue, missed, showroom>>
  /\ UNCHANGED <<killed, flag, requeue, loop, retrying, posting, requests, faults>>

\* The article is posted (or not: the run keeps the error); then the batch.
ArticlePosted(r) ==
  /\ Drives(r, {"posting", "reposting"})
  /\ UNCHANGED status
  /\ IF status[r] = "gone" THEN Back(r)
                           ELSE Onward(r, IF pc[r] = "posting" THEN "batch" ELSE "again")
  /\ UNCHANGED <<queue, topic, article, missed, showroom, killed, flag, requeue,
                 loop, retrying, posting, closer, wish, requests, faults>>

\* The answer to the batch's post.  _complete_run and _execute_pipeline both
\* post it; a run that failed is marked, a stopped run's flag cleared, after.
BatchAnswered(r) ==
  /\ Drives(r, {"batch", "again", "unmarked", "unflag"})
  /\ \/ showroom' = "posted" /\ UNCHANGED faults
     \/ showroom' = "failed" /\ faults < MaxFaults /\ faults' = faults + 1
  /\ pc' = [pc EXCEPT ![r] = IF @ = "batch" /\ status[r] # "gone" THEN "again" ELSE "none"]
  /\ topic' = IF pc[r] = "unmarked" THEN Mark(r, "failed") ELSE topic
  /\ flag' = IF pc[r] = "unflag" THEN flag \ {r} ELSE flag
  /\ UNCHANGED <<queue, status, article, missed, killed, requeue, loop, retrying,
                 posting, closer, wish, requests>>

\* Variant: the request is cleared before its requeue path is taken.
AfterStopCleared(r) == Mark(r, "failed")

\* What becomes of the topic of a run that was stopped at a step boundary.
AfterStop(r) ==
  IF requeue[r] # NoFlow
  THEN [topic EXCEPT ![TopicOf[r]] =
          IF @.status = "gone" THEN @
          ELSE [@ EXCEPT !.status = "queued", !.flow = requeue[r]]]
  ELSE Mark(r, "failed")

\* A step boundary of a run with a stop request (RunCancelledError).
NoticeStop(r) ==
  /\ Drives(r, {"work"})
  /\ r \in flag
  /\ Ends(r, "cancelled")
  /\ topic' = AfterStop(r)
  /\ requeue' = [requeue EXCEPT ![r] = NoFlow]
  /\ Onward(r, "unflag")
  /\ flag' = IF pc'[r] = "none" THEN flag \ {r} ELSE flag
  /\ closer' = r
  /\ UNCHANGED <<queue, article, missed, showroom, killed, loop, retrying,
                 posting, wish, requests, faults>>

\* CancelledError is delivered; a row deleted meanwhile ends the task before
\* it clears its flag.
KilledEnds(r) ==
  /\ r \in killed /\ loop.at = "free"
  /\ Back(r)
  /\ killed' = killed \ {r}
  /\ IF status[r] = "gone" THEN UNCHANGED <<flag, requeue>>
     ELSE /\ flag' = flag \ {r}
          /\ requeue' = [requeue EXCEPT ![r] = NoFlow]
  /\ UNCHANGED <<rows, loop, retrying, posting, closer, wish, requests, faults>>

\* An exception (a step that fails, a database locked for too long): run and
\* topic fail together, and the batch is not looked at.
WorkerRaises(r) ==
  /\ Drives(r, {"work", "headline", "posting"})
  /\ status[r] # "gone"
  /\ faults < MaxFaults
  /\ Ends(r, "failed")
  /\ topic' = Mark(r, "failed")
  /\ Back(r)
  /\ closer' = 0
  /\ faults' = faults + 1
  /\ UNCHANGED <<queue, article, missed, showroom, killed, flag, requeue, loop,
                 retrying, posting, wish, requests>>

-----------------------------------------------------------------------------
(* Stopping: async handlers, each one step up to its last commit.          *)

Request == requests < MaxRequests /\ requests' = requests + 1
OnLoop  == Request /\ loop.at = "free"

\* Cancel request, rows, and the tasks: what every hard stop does to R.
HardStop(R) ==
  /\ status' = Cancelled(R)
  /\ killed' = killed \cup R
  /\ requeue' = [r \in Runs |-> IF r \in R THEN NoFlow ELSE requeue[r]]
  /\ closer' = IF R = {} THEN closer ELSE 0
  /\ wish' = [r \in Runs |-> IF r \in R THEN NoFlow ELSE wish[r]]

\* POST /runs/{id}/stop: refused while a stop is already requested.  The
\* worker clears the flag.
StopRun(r) ==
  /\ OnLoop
  /\ status[r] = "running" /\ r \notin flag
  /\ HardStop({r})
  /\ topic' = Reconciled(Halted({r}), status')
  /\ flag' = flag \cup {r}
  /\ UNCHANGED <<queue, article, missed, showroom, pc, loop, retrying, posting, faults>>

\* stop_all_runs without requeue; a switch goes on, to clear the history or to
\* keep it.
StopAll(next) ==
  /\ OnLoop
  /\ HardStop(Running(Runs))
  /\ topic' = Reconciled(Halted(Running(Runs)), status')
  /\ flag' = flag \ Running(Runs)
  /\ loop' = [Idle EXCEPT !.at = next]
  /\ UNCHANGED <<queue, article, missed, showroom, pc, retrying, posting, faults>>

Forgotten(I) == [r \in Runs |-> IF TopicOf[r] \in I THEN NoFlow ELSE wish[r]]
Without(I)   == [i \in Topics |-> IF i \in I THEN [topic[i] EXCEPT !.status = "gone"]
                                             ELSE topic[i]]
Dropped(R)   == [r \in Runs |-> IF r \in R THEN "gone" ELSE status[r]]

Open            == {i \in Topics : topic[i].status \in {"queued", "running"}}
Redirected(I, f) == [i \in Topics |-> IF i \in I THEN [topic[i] EXCEPT !.flow = f] ELSE topic[i]]

\* stop_all_runs with a requeue path, or a switch that keeps the history and
\* may give the topics waiting or being worked on the new flow; the switch
\* goes on to its start prompt.
SoftStop(f, update) ==
  /\ OnLoop
  /\ LET R == Running(Runs)
         T == IF update THEN Open ELSE {}
     IN /\ flag' = flag \cup R
        /\ requeue' = [r \in Runs |-> IF r \in R THEN f ELSE requeue[r]]
        /\ topic' = Redirected(T, f)
        /\ wish' = [r \in Runs |-> IF r \in R THEN f ELSE Forgotten(T)[r]]
  /\ loop' \in {Idle, [Idle EXCEPT !.at = "starting"]}
  /\ UNCHANGED <<queue, status, article, missed, showroom, pc, killed,
                 retrying, posting, closer, faults>>

\* After a hard stop the switch may do the same with the topics still waiting.
UpdateTopics(f, update) ==
  /\ loop.at = "updating"
  /\ LET T == IF update THEN Open ELSE {}
     IN topic' = Redirected(T, f) /\ wish' = Forgotten(T)
  /\ loop' = [Idle EXCEPT !.at = "starting"]
  /\ UNCHANGED <<queue, status, article, missed, showroom, pc, killed, flag,
                 requeue, retrying, posting, closer, requests, faults>>

\* clear_factory_history: every topic, and the ended runs; articles stay.
ClearHistory ==
  /\ loop.at = "switching"
  /\ topic' = Without(Topics)
  /\ status' = Dropped({r \in Runs : status[r] # "running"})
  /\ loop' = [Idle EXCEPT !.at = "starting"]
  /\ wish' = Forgotten(Topics)
  /\ UNCHANGED <<queue, article, missed, showroom, pc, killed, flag, requeue,
                 retrying, posting, closer, requests, faults>>

NextTopic == IF Present = {} THEN 1 ELSE Max(Present) + 1
NewTopic(q, f) ==
  /\ NextTopic \in Topics
  /\ topic' = [topic EXCEPT ![NextTopic] = [status |-> "queued", queue |-> q, flow |-> f]]
  /\ wish' = Forgotten({NextTopic})

\* The switch's start prompt, which belongs to no queue, or none.
StartPrompt(f) ==
  /\ loop.at = "starting"
  /\ loop' = Idle
  /\ NewTopic(NoQueue, f) \/ UNCHANGED <<topic, wish>>
  /\ UNCHANGED <<queue, status, article, missed, showroom, pc, killed, flag,
                 requeue, retrying, posting, closer, requests, faults>>

\* stop_and_clear_flow_queue, up to the commit of the stopped runs.  The
\* topics of the queue are read here and used after it.
ClearStops(q) ==
  /\ OnLoop
  /\ queue[q] # "gone"
  /\ LET R == Running(RunsOf(Scope(q)))
     IN /\ HardStop(R)
        /\ topic' = IF R = {} THEN topic ELSE Reconciled(Halted(R), status')
        /\ flag' = flag \ R
  /\ loop' = [at |-> "clearing", queue |-> q, topics |-> Scope(q)]
  /\ UNCHANGED <<queue, article, missed, showroom, pc, retrying, posting, faults>>

\* Variant: only the runs just stopped are dropped.
StaleStopped == {r \in RunsOf(loop.topics) : status[r] = "cancelled"}

\* The runs just stopped, and those that ended without an article before.
Stale == {r \in RunsOf(loop.topics) : status[r] \in {"cancelled", "failed"}}

\* stop_and_clear_flow_queue, the rest.  It fails when the queue was deleted
\* after a commit of the first part.
ClearDeletes ==
  /\ loop.at = "clearing"
  /\ loop' = Idle
  /\ LET I == {i \in Scope(loop.queue) :
                 loop.topics # {} /\ topic[i].status \in {"queued", "running", "failed"}}
     IN \/ /\ topic' = Reconciled(Without(I), status)
           /\ status' = Dropped(Stale)
           /\ article' = article \ Stale
           /\ wish' = Forgotten(I)
        \/ /\ queue[loop.queue] = "gone"
           /\ UNCHANGED <<topic, status, article, wish>>
  /\ UNCHANGED <<queue, missed, showroom, pc, killed, flag, requeue, retrying,
                 posting, closer, requests, faults>>

-----------------------------------------------------------------------------
(* Retrying, publishing and recovering: requests that await in between.    *)

Latest(i) == LET R == RunsOf({i}) IN IF R = {} THEN 0 ELSE Max(R)
IsRerunnable(i) ==
  LET r == Latest(i) IN
  /\ Exists(i)
  /\ topic[i].status # "queued"
  /\ r # 0 => status[r] # "running"

RetryAsked(i) ==
  /\ OnLoop
  /\ IsRerunnable(i)
  /\ retrying' = retrying \cup {i}
  /\ UNCHANGED <<rows, pc, killed, flag, requeue, loop, posting, closer, wish, faults>>

\* The readiness checks pass or block; a topic deleted meanwhile is an error.
RetryAnswered(i) ==
  /\ i \in retrying /\ loop.at = "free"
  /\ retrying' = retrying \ {i}
  /\ \/ /\ Exists(i)
        /\ topic' = [topic EXCEPT ![i].status = "queued"]
     \/ UNCHANGED topic
  /\ UNCHANGED <<queue, status, article, missed, showroom, pc, killed, flag, requeue,
                 loop, posting, closer, wish, requests, faults>>

PublishAsked(r) ==
  /\ OnLoop
  /\ status[r] # "gone" /\ r \in article
  /\ posting' = posting \cup {r}
  /\ UNCHANGED <<rows, pc, killed, flag, requeue, loop, retrying, closer, wish, faults>>

\* Success turns a failed run and its failed topic into completed ones.
PublishAnswered(r) ==
  /\ r \in posting /\ loop.at = "free"
  /\ posting' = posting \ {r}
  /\ \/ /\ status[r] # "gone"
        /\ status' = [status EXCEPT ![r] = IF @ = "failed" THEN "completed" ELSE @]
        /\ topic' = [topic EXCEPT ![TopicOf[r]].status = IF @ = "failed" THEN "completed" ELSE @]
     \/ UNCHANGED <<status, topic>>
  /\ UNCHANGED <<queue, article, missed, showroom, pc, killed, flag, requeue, loop,
                 retrying, closer, wish, requests, faults>>

\* POST /flow-batches/{id}/publish: refused while a run of the batch runs.
PublishBatch ==
  /\ OnLoop
  /\ BatchComplete(status)
  /\ \/ showroom' = "posted" /\ UNCHANGED faults
     \/ showroom' = "failed" /\ faults < MaxFaults /\ faults' = faults + 1
  /\ UNCHANGED <<queue, topic, status, article, missed, memory, closer, wish>>

\* POST /runs/{id}/recover-accept: the request completes the failed run (one
\* request at a time, and after its worker is done).
RecoverAccept(r) ==
  /\ OnLoop
  /\ status[r] = "failed" /\ r \in missed /\ pc[r] = "none"
  /\ pc' = [pc EXCEPT ![r] = "recover"]
  /\ UNCHANGED <<rows, killed, flag, requeue, loop, retrying, posting, closer, wish, faults>>

-----------------------------------------------------------------------------
(* Handlers of the thread pool: they do not wait for the loop.             *)

DeleteRun(r) ==
  /\ Request
  /\ status[r] \in Ended
  /\ status' = [status EXCEPT ![r] = "gone"]
  /\ article' = article \ {r}
  /\ topic' = Mark(r, "queued")
  /\ UNCHANGED <<queue, missed, showroom, memory, closer, wish, faults>>

DeleteQueue(q) ==
  /\ Request
  /\ q # Default /\ queue[q] # "gone"
  /\ LET I == {i \in Present : topic[i].queue = q}
     IN /\ \A i \in I : topic[i].status # "running"
        /\ topic' = Without(I)
        /\ wish' = Forgotten(I)
  /\ queue' = [queue EXCEPT ![q] = "gone"]
  /\ UNCHANGED <<status, article, missed, showroom, memory, closer, faults>>

\* create_flow_queue and update_flow_queue (a new queue takes a free id).
SetQueue(q) ==
  /\ Request
  /\ \E to \in {"on", "off"} \ {queue[q]} : queue' = [queue EXCEPT ![q] = to]
  /\ UNCHANGED <<topic, status, article, missed, showroom, memory, closer, wish, faults>>

\* POST /flow-queues/{id}/enqueue refuses a disabled queue; POST /queue does
\* not look, not even whether there is such a queue.
Enqueue(q) ==
  /\ Request
  /\ \E f \in Flows : NewTopic(q, f)
  /\ UNCHANGED <<queue, status, article, missed, showroom, memory, closer, faults>>

\* ensure_default_flow_queue, which adopts topics once per process.
Adopted(t) == IF t.queue = NoQueue THEN [t EXCEPT !.queue = Default] ELSE t

\* The process goes down and comes up: runs are resumed or given up, topics
\* without a queue go to the default one.
Restart ==
  /\ faults < MaxFaults
  /\ faults' = faults + 1
  /\ \E R \in SUBSET Running(Runs) :
       /\ status' = [r \in Runs |-> IF r \in R THEN "failed" ELSE status[r]]
       /\ topic' = [i \in Topics |-> Adopted(Halted(R)[i])]
       /\ pc' = [r \in Runs |-> IF r \in Running(Runs) \ R THEN "work" ELSE "none"]
  /\ killed' = {} /\ flag' = {}
  /\ requeue' = [r \in Runs |-> NoFlow]
  /\ loop' = Idle /\ retrying' = {} /\ posting' = {}
  /\ closer' = 0
  /\ wish' = [r \in Runs |-> NoFlow]
  /\ UNCHANGED <<queue, article, missed, showroom, requests>>

Next ==
  \/ \E r \in Runs : \/ FlowFails(r) \/ FlowIsEmpty(r) \/ AskHeadline(r)
                     \/ Complete(r) \/ ArticlePosted(r) \/ BatchAnswered(r)
                     \/ NoticeStop(r) \/ KilledEnds(r) \/ WorkerRaises(r)
                     \/ StopRun(r) \/ PublishAsked(r) \/ PublishAnswered(r)
                     \/ RecoverAccept(r) \/ DeleteRun(r)
  \/ \E next \in {"free", "switching", "updating"} : StopAll(next)
  \/ \E f \in Flows : \E update \in BOOLEAN : SoftStop(f, update) \/ UpdateTopics(f, update)
  \/ ClearHistory
  \/ \E f \in Flows : StartPrompt(f)
  \/ \E q \in Queues : ClearStops(q) \/ DeleteQueue(q) \/ SetQueue(q) \/ Enqueue(q)
  \/ ClearDeletes
  \/ \E i \in Topics : RetryAsked(i) \/ RetryAnswered(i)
  \/ PublishBatch
  \/ Restart

Spec == Init /\ [][Next]_vars

-----------------------------------------------------------------------------
(* Properties.                                                             *)

\* The last one out posts the batch: once all runs of a batch have ended, and
\* the last of them ended in its worker, the Showroom was sent the batch as
\* soon as that worker is done.  (showroom_flow_publish.py: whoever commits a
\* terminal status looks at the others after it.)  A run deleted before its
\* worker looks, one stopped hard or ended by an exception sends nothing.
CompleteBatchIsPosted ==
  /\ closer \in Batch /\ status[closer] # "gone" /\ pc[closer] = "none"
  /\ BatchComplete(status)
  => showroom # "open"

\* A topic whose run stopped for a new flow waits under the flow that was
\* asked for last, whatever was requested in between (flow_switch.py,
\* run_control.py: _requeue_after_cancel; runner.py: RunCancelledError).
SoftStopRequeues ==
  \A r \in Runs : status[r] = "cancelled" /\ wish[r] # NoFlow /\ Exists(TopicOf[r])
    => topic[TopicOf[r]].status = "queued" /\ topic[TopicOf[r]].flow = wish[r]

\* Stop-and-clear leaves neither a topic of its queue that is not completed
\* nor a run of one that was stopped, failed or goes on, whatever the thread
\* pool has committed in between; what came in while the queue was empty stays.
ClearLeavesNothing ==
  [][ (loop.at = "clearing" /\ loop'.at = "free" /\ faults' = faults
       /\ queue[loop.queue] # "gone" /\ loop.topics # {})
      => /\ \A i \in Topics : topic[i].queue = loop.queue
              => topic'[i].status \in {"gone", "completed"}
         /\ \A r \in Runs : TopicOf[r] \in loop.topics
              => status'[r] \in {"gone", "completed"} ]_vars
=============================================================================
