---------------------------- MODULE QueueProofs -----------------------------
(***************************************************************************)
(* Proofs about TopicQueues for any topics, queues, flows, runs, batches   *)
(* and bounds: the last one out posts the batch, a topic stopped for a new *)
(* flow waits under it, and a cleared queue is empty.                      *)
(***************************************************************************)
EXTENDS TopicQueues, TLAPS

Row == [status : {"gone", "queued", "running", "completed", "failed"},
        queue : Queues \cup {NoQueue}, flow : Flows]
RunStates == Ended \cup {"running", "gone"}

-----------------------------------------------------------------------------
(* Types.                                                                  *)

LEMMA InitTyped == ASSUME Init PROVE TypeOK
<1> USE QueueAssumption, RunAssumption, FaultAssumption DEF TypeOK
<1>1. PICK st \in Starts : status = st /\ pc = [r \in Runs |-> IF st[r] = "running" THEN "work" ELSE "none"]
  BY DEF Init
<1>2. status \in [Runs -> RunStates]
  BY <1>1, StartAssumption DEF RunStates, Ended
<1>3. pc \in [Runs -> {"none"} \cup Working \cup Posting]
  BY <1>1 DEF Working
<1>4. \A i \in Topics : topic[i] \in Row
  BY DEF Init, Row
<1>5. topic \in [Topics -> Row]
  BY <1>4 DEF Init
<1> QED
  BY <1>2, <1>3, <1>5 DEF Init, Row, RunStates, Idle

\* What happens to topics keeps them topics.
LEMMA MarkTyped ==
  ASSUME topic \in [Topics -> Row], NEW r \in Runs,
         NEW to \in {"queued", "completed", "failed"}
  PROVE  Mark(r, to) \in [Topics -> Row]
BY RunAssumption DEF Mark, Row, Topics

LEMMA HaltedTyped ==
  ASSUME topic \in [Topics -> Row], NEW R
  PROVE  Halted(R) \in [Topics -> Row]
BY DEF Halted, Row

LEMMA ReconciledTyped ==
  ASSUME NEW ts \in [Topics -> Row], NEW st
  PROVE  Reconciled(ts, st) \in [Topics -> Row]
BY DEF Reconciled, Row

LEMMA WithoutTyped ==
  ASSUME topic \in [Topics -> Row], NEW I
  PROVE  Without(I) \in [Topics -> Row]
BY DEF Without, Row

LEMMA RedirectedTyped ==
  ASSUME topic \in [Topics -> Row], NEW I, NEW f \in Flows
  PROVE  Redirected(I, f) \in [Topics -> Row]
BY DEF Redirected, Row

LEMMA NewTopicTyped ==
  ASSUME TypeOK, NEW q \in Queues \cup {NoQueue}, NEW f \in Flows, NewTopic(q, f)
  PROVE  topic' \in [Topics -> Row] /\ wish' \in [Runs -> Flows \cup {NoFlow}]
BY DEF TypeOK, NewTopic, Row, Forgotten

LEMMA HardStopTyped ==
  ASSUME TypeOK, NEW R \in SUBSET Runs, HardStop(R)
  PROVE  /\ status' \in [Runs -> RunStates]
         /\ killed' \in SUBSET Runs
         /\ requeue' \in [Runs -> Flows \cup {NoFlow}]
         /\ closer' \in Runs \cup {0}
         /\ wish' \in [Runs -> Flows \cup {NoFlow}]
BY DEF TypeOK, HardStop, Cancelled, RunStates, Ended

LEMMA WorkerTyped ==
  ASSUME TypeOK, NEW r \in Runs,
         \/ FlowFails(r) \/ FlowIsEmpty(r) \/ AskHeadline(r) \/ Complete(r)
         \/ ArticlePosted(r) \/ BatchAnswered(r)
  PROVE  TypeOK'
<1> USE FaultAssumption DEF TypeOK, Ends, Onward, Back, Ended, Working, Posting
<1>0. topic \in [Topics -> Row] /\ Mark(r, "failed") \in [Topics -> Row] /\ Mark(r, "completed") \in [Topics -> Row]
  BY MarkTyped DEF Row
<1>1. CASE FlowFails(r)
  BY <1>0, <1>1 DEF FlowFails, Row
<1>2. CASE FlowIsEmpty(r)
  BY <1>0, <1>2 DEF FlowIsEmpty, Row
<1>3. CASE AskHeadline(r)
  BY <1>3 DEF AskHeadline, rows
<1>4. CASE Complete(r)
  <2>1. CASE status[r] = "gone" \/ r \in article
    BY <1>4, <2>1 DEF Complete, rows
  <2>2. CASE ~(status[r] = "gone" \/ r \in article)
    <3>1. wish' \in [Runs -> Flows \cup {NoFlow}]
      BY <1>4, <2>2 DEF Complete
    <3>2. topic' \in [Topics -> Row]
      BY <1>0, <1>4, <2>2 DEF Complete
    <3>3. status' \in [Runs -> Ended \cup {"running", "gone"}] /\ article' \in SUBSET Runs
      BY <1>4, <2>2 DEF Complete
    <3>4. pc' \in [Runs -> {"none"} \cup Working \cup Posting] /\ closer' \in Runs \cup {0}
      BY <1>4, <2>2 DEF Complete
    <3> QED
      BY <1>4, <2>2, <3>1, <3>2, <3>3, <3>4 DEF Complete, Row
  <2> QED
    BY <2>1, <2>2
<1>5. CASE ArticlePosted(r)
  BY <1>5 DEF ArticlePosted
<1>6. CASE BatchAnswered(r)
  <2>1. topic' \in [Topics -> Row]
    BY <1>0, <1>6 DEF BatchAnswered
  <2>2. faults' \in 0 .. MaxFaults
    BY <1>6 DEF BatchAnswered
  <2> QED
    BY <1>6, <2>1, <2>2 DEF BatchAnswered, Row
<1> QED
  BY <1>1, <1>2, <1>3, <1>4, <1>5, <1>6

LEMMA EndingTyped ==
  ASSUME TypeOK, NEW r \in Runs, NoticeStop(r) \/ KilledEnds(r) \/ WorkerRaises(r)
  PROVE  TypeOK'
<1> USE FaultAssumption DEF TypeOK, Ends, Onward, Back, Ended, Working, Posting
<1>0. topic \in [Topics -> Row] /\ Mark(r, "failed") \in [Topics -> Row]
  BY MarkTyped DEF Row
<1>1. CASE NoticeStop(r)
  <2>1. AfterStop(r) \in [Topics -> Row]
    <3>1. CASE requeue[r] = NoFlow
      BY <1>0, <3>1 DEF AfterStop
    <3>2. CASE requeue[r] # NoFlow
      <4>1. TopicOf[r] \in Topics /\ topic[TopicOf[r]] \in Row /\ requeue[r] \in Flows
        BY <1>0, <3>2, RunAssumption DEF Topics
      <4>2. [topic[TopicOf[r]] EXCEPT !.status = "queued", !.flow = requeue[r]] \in Row
        BY <4>1 DEF Row
      <4> QED
        BY <1>0, <3>2, <4>1, <4>2 DEF AfterStop
    <3> QED
      BY <3>1, <3>2
  <2> QED
    BY <1>1, <2>1 DEF NoticeStop, Row
<1>2. CASE KilledEnds(r)
  BY <1>2 DEF KilledEnds, rows
<1>3. CASE WorkerRaises(r)
  BY <1>0, <1>3 DEF WorkerRaises, Row
<1> QED
  BY <1>1, <1>2, <1>3

LEMMA StoppingTyped ==
  ASSUME TypeOK,
         \/ \E r \in Runs : StopRun(r)
         \/ \E next \in {"free", "switching", "updating"} : StopAll(next)
         \/ \E q \in Queues : ClearStops(q)
  PROVE  TypeOK'
<1> USE DEF Request, OnLoop
<1>0. topic \in [Topics -> Row] /\ (Request => requests' \in 0 .. MaxRequests)
  BY FaultAssumption DEF TypeOK, Row
<1>1. ASSUME NEW r \in Runs, StopRun(r) PROVE TypeOK'
  <2>1. HardStop({r}) /\ topic' \in [Topics -> Row]
    BY <1>0, <1>1, HaltedTyped, ReconciledTyped DEF StopRun
  <2> QED
    BY <1>0, <1>1, <2>1, HardStopTyped DEF StopRun, TypeOK, Row, RunStates
<1>2. ASSUME NEW next \in {"free", "switching", "updating"}, StopAll(next) PROVE TypeOK'
  <2>1. HardStop(Running(Runs)) /\ topic' \in [Topics -> Row] /\ Running(Runs) \in SUBSET Runs
    BY <1>0, <1>2, HaltedTyped, ReconciledTyped DEF StopAll, Running
  <2>2. loop' \in [at : {"free", "clearing", "switching", "updating", "starting"},
                   queue : Queues \cup {NoQueue}, topics : SUBSET Topics]
    BY <1>2 DEF StopAll, Idle
  <2> QED
    BY <1>0, <1>2, <2>1, <2>2, HardStopTyped DEF StopAll, TypeOK, Row, RunStates
<1>3. ASSUME NEW q \in Queues, ClearStops(q) PROVE TypeOK'
  <2> DEFINE R == Running(RunsOf(Scope(q)))
  <2>1. HardStop(R) /\ R \in SUBSET Runs
    BY <1>3 DEF ClearStops, Running, RunsOf
  <2>2. topic' \in [Topics -> Row]
    BY <1>0, <1>3, HaltedTyped, ReconciledTyped DEF ClearStops
  <2>3. loop' \in [at : {"free", "clearing", "switching", "updating", "starting"},
                   queue : Queues \cup {NoQueue}, topics : SUBSET Topics]
    BY <1>3 DEF ClearStops, Scope, Present
  <2>4. flag' \in SUBSET Runs
    BY <1>3 DEF ClearStops, TypeOK
  <2> HIDE DEF R
  <2> QED
    BY <1>0, <1>3, <2>1, <2>2, <2>3, <2>4, HardStopTyped DEF ClearStops, TypeOK, Row, RunStates
<1> QED
  BY <1>1, <1>2, <1>3

LEMMA SwitchTyped ==
  ASSUME TypeOK,
         \/ \E f \in Flows : \E update \in BOOLEAN : SoftStop(f, update) \/ UpdateTopics(f, update)
         \/ ClearHistory
         \/ \E f \in Flows : StartPrompt(f)
         \/ ClearDeletes
  PROVE  TypeOK'
<1>0. topic \in [Topics -> Row]
  BY DEF TypeOK, Row
<1>1. ASSUME NEW f \in Flows, NEW update \in BOOLEAN, SoftStop(f, update) PROVE TypeOK'
  <2>1. topic' \in [Topics -> Row]
    BY <1>0, <1>1, RedirectedTyped DEF SoftStop
  <2>2. requeue' \in [Runs -> Flows \cup {NoFlow}] /\ wish' \in [Runs -> Flows \cup {NoFlow}]
        /\ flag' \in SUBSET Runs
    BY <1>1 DEF SoftStop, TypeOK, Running, Forgotten
  <2>3. loop' \in [at : {"free", "clearing", "switching", "updating", "starting"},
                   queue : Queues \cup {NoQueue}, topics : SUBSET Topics]
    BY <1>1 DEF SoftStop, Idle
  <2> QED
    BY <1>1, <2>1, <2>2, <2>3, FaultAssumption DEF SoftStop, TypeOK, Row, OnLoop, Request
<1>2. CASE ClearHistory
  <2>1. topic' \in [Topics -> Row]
    BY <1>0, <1>2, WithoutTyped DEF ClearHistory
  <2> QED
    BY <1>2, <2>1 DEF ClearHistory, TypeOK, Row, Dropped, Forgotten, Idle
<1>3. ASSUME NEW f \in Flows, StartPrompt(f) PROVE TypeOK'
  <2>1. topic' \in [Topics -> Row] /\ wish' \in [Runs -> Flows \cup {NoFlow}]
    BY <1>0, <1>3, NewTopicTyped DEF StartPrompt, TypeOK
  <2> QED
    BY <1>3, <2>1 DEF StartPrompt, TypeOK, Row, Idle
<1>4. CASE ClearDeletes
  <2>1. topic' \in [Topics -> Row]
    BY <1>0, <1>4, WithoutTyped, ReconciledTyped DEF ClearDeletes
  <2> QED
    BY <1>4, <2>1 DEF ClearDeletes, TypeOK, Row, Dropped, Forgotten, Idle
<1>5. ASSUME NEW f \in Flows, NEW update \in BOOLEAN, UpdateTopics(f, update) PROVE TypeOK'
  <2>1. topic' \in [Topics -> Row]
    BY <1>0, <1>5, RedirectedTyped DEF UpdateTopics
  <2>2. wish' \in [Runs -> Flows \cup {NoFlow}]
    BY <1>5 DEF UpdateTopics, TypeOK, Forgotten
  <2> QED
    BY <1>5, <2>1, <2>2 DEF UpdateTopics, TypeOK, Row, Idle
<1> QED
  BY <1>1, <1>2, <1>3, <1>4, <1>5

LEMMA RequestTyped ==
  ASSUME TypeOK,
         \/ \E r \in Runs : PublishAsked(r) \/ PublishAnswered(r) \/ RecoverAccept(r) \/ DeleteRun(r)
         \/ \E i \in Topics : RetryAsked(i) \/ RetryAnswered(i)
         \/ \E q \in Queues : DeleteQueue(q) \/ SetQueue(q) \/ Enqueue(q)
         \/ PublishBatch \/ Restart
  PROVE  TypeOK'
<1> USE FaultAssumption DEF Request, OnLoop, rows, memory
<1>0. topic \in [Topics -> Row]
  BY DEF TypeOK, Row
<1>1. ASSUME NEW r \in Runs, PublishAsked(r) \/ RecoverAccept(r) PROVE TypeOK'
  BY <1>1 DEF PublishAsked, RecoverAccept, TypeOK, Working
<1>2. ASSUME NEW r \in Runs, PublishAnswered(r) PROVE TypeOK'
  <2>1. topic' \in [Topics -> Row]
    <3> DEFINE t == TopicOf[r]
               row == [topic[t] EXCEPT !.status = IF @ = "failed" THEN "completed" ELSE @]
    <3>1. t \in Topics /\ row \in Row
      BY <1>0, RunAssumption DEF Row, Topics
    <3>2. topic' = topic \/ topic' = [topic EXCEPT ![t] = row]
      BY <1>2 DEF PublishAnswered
    <3> QED
      BY <1>0, <3>1, <3>2
  <2> QED
    BY <1>2, <2>1 DEF PublishAnswered, TypeOK, Row, Ended
<1>3. ASSUME NEW r \in Runs, DeleteRun(r) PROVE TypeOK'
  <2>1. topic' \in [Topics -> Row]
    BY <1>0, <1>3, MarkTyped DEF DeleteRun
  <2> QED
    BY <1>3, <2>1 DEF DeleteRun, TypeOK, Row
<1>4. ASSUME NEW i \in Topics, RetryAsked(i) \/ RetryAnswered(i) PROVE TypeOK'
  <2>1. topic' \in [Topics -> Row]
    BY <1>0, <1>4 DEF RetryAsked, RetryAnswered, Row
  <2> QED
    BY <1>4, <2>1 DEF RetryAsked, RetryAnswered, TypeOK, Row
<1>5. ASSUME NEW q \in Queues, DeleteQueue(q) \/ SetQueue(q) PROVE TypeOK'
  <2>1. topic' \in [Topics -> Row]
    BY <1>0, <1>5, WithoutTyped DEF DeleteQueue, SetQueue
  <2> QED
    BY <1>5, <2>1 DEF DeleteQueue, SetQueue, TypeOK, Row, Forgotten
<1>6. ASSUME NEW q \in Queues, Enqueue(q) PROVE TypeOK'
  <2>1. topic' \in [Topics -> Row] /\ wish' \in [Runs -> Flows \cup {NoFlow}]
    BY <1>6, NewTopicTyped DEF Enqueue
  <2> QED
    BY <1>6, <2>1 DEF Enqueue, TypeOK, Row
<1>7. CASE PublishBatch
  BY <1>7 DEF PublishBatch, TypeOK
<1>8. CASE Restart
  <2>1. PICK R \in SUBSET Running(Runs) :
          /\ status' = [r \in Runs |-> IF r \in R THEN "failed" ELSE status[r]]
          /\ topic' = [i \in Topics |-> Adopted(Halted(R)[i])]
          /\ pc' = [r \in Runs |-> IF r \in Running(Runs) \ R THEN "work" ELSE "none"]
    BY <1>8 DEF Restart
  <2>2. topic' \in [Topics -> Row]
    BY <1>0, <2>1, HaltedTyped, QueueAssumption DEF Adopted, Row
  <2>3. status' \in [Runs -> RunStates] /\ pc' \in [Runs -> {"none"} \cup Working \cup Posting]
    BY <2>1 DEF TypeOK, RunStates, Ended, Working
  <2> QED
    BY <1>8, <2>2, <2>3 DEF Restart, TypeOK, Row, RunStates, Idle
<1> QED
  BY <1>1, <1>2, <1>3, <1>4, <1>5, <1>6, <1>7, <1>8

LEMMA StepTyped == ASSUME TypeOK, [Next]_vars PROVE TypeOK'
<1>1. CASE UNCHANGED vars
  BY <1>1 DEF vars, rows, memory, TypeOK
<1>2. CASE Next
  BY <1>2, WorkerTyped, EndingTyped, StoppingTyped, SwitchTyped, RequestTyped DEF Next
<1> QED
  BY <1>1, <1>2

\* Rows, requests and workers keep their types for any topics, runs and bounds.
THEOREM TypeCorrect == Spec => []TypeOK
BY InitTyped, StepTyped, PTL DEF Spec

-----------------------------------------------------------------------------
(* What a step can do to the status of a run.                              *)

\* No run starts again.
LEMMA NoRunStarts ==
  ASSUME TypeOK, [Next]_vars
  PROVE  \A r \in Runs : status'[r] = "running" => status[r] = "running"
<1> USE DEF TypeOK, Ended
<1>1. CASE UNCHANGED status
  BY <1>1
<1>2. ASSUME NEW r \in Runs,
             \/ FlowFails(r) \/ FlowIsEmpty(r) \/ AskHeadline(r) \/ Complete(r)
             \/ ArticlePosted(r) \/ BatchAnswered(r) \/ NoticeStop(r) \/ KilledEnds(r)
             \/ WorkerRaises(r) \/ PublishAsked(r) \/ RecoverAccept(r)
      PROVE  \A x \in Runs : status'[x] = "running" => status[x] = "running"
  BY <1>2 DEF FlowFails, FlowIsEmpty, AskHeadline, Complete, ArticlePosted, BatchAnswered,
       NoticeStop, KilledEnds, WorkerRaises, PublishAsked, RecoverAccept, Ends, rows
<1>3. ASSUME NEW r \in Runs, StopRun(r) \/ PublishAnswered(r) \/ DeleteRun(r)
      PROVE  \A x \in Runs : status'[x] = "running" => status[x] = "running"
  BY <1>3 DEF StopRun, HardStop, Cancelled, PublishAnswered, DeleteRun
<1>4. CASE \/ \E next \in {"free", "switching", "updating"} : StopAll(next)
           \/ \E q \in Queues : ClearStops(q)
  BY <1>4 DEF StopAll, ClearStops, HardStop, Cancelled
<1>5. CASE ClearHistory \/ ClearDeletes
  BY <1>5 DEF ClearHistory, ClearDeletes, Dropped
<1>6. CASE Restart
  BY <1>6 DEF Restart
<1>7. CASE \/ \E f \in Flows, update \in BOOLEAN : SoftStop(f, update) \/ UpdateTopics(f, update)
           \/ \E f \in Flows : StartPrompt(f)
           \/ \E q \in Queues : DeleteQueue(q) \/ SetQueue(q) \/ Enqueue(q)
           \/ \E i \in Topics : RetryAsked(i) \/ RetryAnswered(i)
           \/ PublishBatch
  BY <1>1, <1>7 DEF SoftStop, UpdateTopics, StartPrompt, DeleteQueue, SetQueue, Enqueue, RetryAsked,
       RetryAnswered, PublishBatch, rows
<1> QED
  BY <1>1, <1>2, <1>3, <1>4, <1>5, <1>6, <1>7 DEF Next, vars, rows

-----------------------------------------------------------------------------
(* Stop-and-clear.                                                         *)

\* What was stopped stays so until it is deleted: no run of the topics that
\* are being cleared goes on.
Halting ==
  loop.at = "clearing" => \A r \in Runs : TopicOf[r] \in loop.topics => status[r] # "running"

LEMMA OnlyClearStopsClears ==
  ASSUME TypeOK, [Next]_vars
  PROVE  loop' = loop \/ loop'.at # "clearing" \/ \E q \in Queues : ClearStops(q)
<1>1. CASE \/ \E next \in {"free", "switching", "updating"} : StopAll(next)
           \/ ClearHistory \/ ClearDeletes \/ Restart
           \/ \E f \in Flows, update \in BOOLEAN : SoftStop(f, update) \/ UpdateTopics(f, update)
           \/ \E f \in Flows : StartPrompt(f)
  BY <1>1 DEF StopAll, SoftStop, UpdateTopics, ClearHistory, ClearDeletes, Restart, StartPrompt, Idle
<1>2. ASSUME NEW r \in Runs,
             \/ FlowFails(r) \/ FlowIsEmpty(r) \/ AskHeadline(r) \/ Complete(r)
             \/ ArticlePosted(r) \/ BatchAnswered(r) \/ NoticeStop(r) \/ KilledEnds(r)
             \/ WorkerRaises(r) \/ StopRun(r) \/ PublishAsked(r) \/ PublishAnswered(r)
             \/ RecoverAccept(r) \/ DeleteRun(r)
      PROVE  loop' = loop
  BY <1>2 DEF FlowFails, FlowIsEmpty, AskHeadline, Complete, ArticlePosted, BatchAnswered,
       NoticeStop, KilledEnds, WorkerRaises, StopRun, PublishAsked, PublishAnswered,
       RecoverAccept, DeleteRun, memory
<1>3. CASE \/ \E q \in Queues : DeleteQueue(q) \/ SetQueue(q) \/ Enqueue(q)
           \/ \E i \in Topics : RetryAsked(i) \/ RetryAnswered(i)
           \/ PublishBatch
  BY <1>3 DEF DeleteQueue, SetQueue, Enqueue, RetryAsked, RetryAnswered,
       PublishBatch, memory
<1> QED
  BY <1>1, <1>2, <1>3 DEF Next, vars, memory

LEMMA HaltingHolds ==
  ASSUME TypeOK, Halting, [Next]_vars
  PROVE  Halting'
<1>1. CASE loop' = loop \/ loop'.at # "clearing"
  BY <1>1, NoRunStarts DEF Halting
<1>2. ASSUME NEW q \in Queues, ClearStops(q)
      PROVE  Halting'
  <2>1. loop'.topics = Scope(q)
    BY <1>2 DEF ClearStops
  <2>2. status' = Cancelled(Running(RunsOf(Scope(q))))
    BY <1>2 DEF ClearStops, HardStop
  <2>3. \A r \in Runs : TopicOf[r] \in Scope(q) => status'[r] # "running"
    BY <2>2 DEF Cancelled, Running, RunsOf
  <2> QED
    BY <2>1, <2>3 DEF Halting
<1> QED
  BY <1>1, <1>2, OnlyClearStopsClears

\* What the second half of a clear leaves.
LEMMA ClearsAll ==
  ASSUME TypeOK, Halting, ClearDeletes, queue[loop.queue] # "gone", loop.topics # {}
  PROVE  /\ \A i \in Topics : topic[i].queue = loop.queue
              => topic'[i].status \in {"gone", "completed"}
         /\ \A r \in Runs : TopicOf[r] \in loop.topics
              => status'[r] \in {"gone", "completed"}
<1> DEFINE I == {i \in Scope(loop.queue) :
                   loop.topics # {} /\ topic[i].status \in {"queued", "running", "failed"}}
<1>1. topic' = Reconciled(Without(I), status) /\ status' = Dropped(Stale)
  BY DEF ClearDeletes
<1>2. ASSUME NEW i \in Topics, topic[i].queue = loop.queue
      PROVE  topic'[i].status \in {"gone", "completed"}
  <2>1. topic[i] \in Row
    BY DEF TypeOK, Row
  <2>2. i \in I \/ topic[i].status \in {"gone", "completed"}
    BY <1>2, <2>1 DEF Scope, Present, Exists, Row
  <2>3. Without(I)[i].status \in {"gone", "completed"}
    BY <2>1, <2>2 DEF Without, Row
  <2> HIDE DEF I
  <2>4. topic'[i] = Without(I)[i]
    BY <1>1, <2>3 DEF Reconciled
  <2> QED
    BY <2>3, <2>4
<1>3. ASSUME NEW r \in Runs, TopicOf[r] \in loop.topics
      PROVE  status'[r] \in {"gone", "completed"}
  <2>1. status[r] \in {"completed", "failed", "cancelled", "gone"}
    BY <1>3 DEF Halting, ClearDeletes, TypeOK, Ended
  <2>2. r \in Stale \/ status[r] \in {"completed", "gone"}
    BY <1>3, <2>1 DEF Stale, RunsOf
  <2> QED
    BY <1>1, <2>1, <2>2 DEF Dropped
<1> QED
  BY <1>2, <1>3

Clears ==
  (loop.at = "clearing" /\ loop'.at = "free" /\ faults' = faults
     /\ queue[loop.queue] # "gone" /\ loop.topics # {})
  => /\ \A i \in Topics : topic[i].queue = loop.queue
          => topic'[i].status \in {"gone", "completed"}
     /\ \A r \in Runs : TopicOf[r] \in loop.topics
          => status'[r] \in {"gone", "completed"}

LEMMA OnlyClearDeletesFrees ==
  ASSUME TypeOK, [Next]_vars, loop.at = "clearing", loop'.at = "free", faults' = faults
  PROVE  ClearDeletes
<1>1. loop' # loop
  OBVIOUS
<1>2. ~Restart
  BY DEF Restart, TypeOK
<1> QED
  BY <1>1, <1>2 DEF Next, vars, rows, memory, OnLoop, Drives, FlowFails, FlowIsEmpty, AskHeadline,
     Complete, ArticlePosted, BatchAnswered, NoticeStop, KilledEnds, WorkerRaises, StopRun, StopAll,
     SoftStop, UpdateTopics, ClearHistory, StartPrompt, RetryAsked, RetryAnswered, PublishAsked, PublishAnswered,
     ClearStops, PublishBatch, RecoverAccept, DeleteRun, DeleteQueue, SetQueue, Enqueue

\* Whatever threads commit between the two halves of a clear, it leaves no
\* topic of its queue but completed ones, and no run that was stopped.
THEOREM ClearedIsEmpty == Spec => ClearLeavesNothing
<1>1. Init => Halting
  BY DEF Init, Halting, Idle
<1>2. TypeOK /\ Halting /\ [Next]_vars => Halting' /\ [Clears]_vars
  BY HaltingHolds, OnlyClearDeletesFrees, ClearsAll DEF Clears
<1>3. Spec => [][Clears]_vars
  BY <1>1, <1>2, InitTyped, StepTyped, PTL DEF Spec
<1> QED
  BY <1>3 DEF ClearLeavesNothing, Clears

-----------------------------------------------------------------------------
(* The batch.                                                              *)

\* Runs that change have ended and stay so, or are deleted.
Fades ==
  \A r \in Runs : status'[r] # status[r] => status[r] \in Ended /\ status'[r] \in Ended \cup {"gone"}

\* So they complete no batch.
LEMMA FadingCompletesNothing ==
  ASSUME TypeOK, TypeOK', Fades
  PROVE  /\ BatchComplete(status') => BatchComplete(status)
         /\ \A r \in Runs : status'[r] # "gone" => status[r] # "gone"
BY RunAssumption DEF TypeOK, Fades, BatchComplete, Ended

\* The run that ended last in its worker was not killed, and its worker has
\* passed its outcome; when the worker is done the batch was posted.  A
\* request that recovers the run comes after that.
Posted ==
  closer # 0 =>
    /\ closer \notin killed
    /\ pc[closer] \notin {"work", "headline"}
    /\ (/\ closer \in Batch /\ status[closer] # "gone" /\ pc[closer] \in {"none", "recover"}
        /\ BatchComplete(status)) => showroom # "open"

LEMMA WorkerPosts ==
  ASSUME TypeOK, TypeOK', Posted, NEW r \in Runs,
         \/ FlowFails(r) \/ FlowIsEmpty(r) \/ AskHeadline(r) \/ Complete(r)
         \/ ArticlePosted(r) \/ BatchAnswered(r)
         \/ NoticeStop(r) \/ KilledEnds(r) \/ WorkerRaises(r)
  PROVE  Posted'
<1> USE RunAssumption DEF Posted, Drives
<1>0. pc \in [Runs -> {"none"} \cup Working \cup Posting] /\ closer \in Runs \cup {0}
  BY DEF TypeOK
<1>1. CASE FlowFails(r) \/ FlowIsEmpty(r) \/ NoticeStop(r)
  <2>1. closer' = r /\ r \notin killed' /\ \E at \in {"unmarked", "batch", "unflag"} : Onward(r, at)
    BY <1>1 DEF FlowFails, FlowIsEmpty, NoticeStop
  <2> QED
    BY <1>0, <2>1 DEF Onward
<1>2. CASE AskHeadline(r)
  BY <1>0, <1>2 DEF AskHeadline, rows
<1>3. CASE Complete(r)
  <2>1. CASE status[r] = "gone" \/ r \in article
    BY <1>0, <1>3, <2>1 DEF Complete, Back, rows
  <2>2. CASE ~(status[r] = "gone" \/ r \in article)
    BY <1>0, <1>3, <2>2 DEF Complete
  <2> QED
    BY <2>1, <2>2
<1>4. CASE ArticlePosted(r)
  BY <1>0, <1>4 DEF ArticlePosted, Onward, Back
<1>5. CASE BatchAnswered(r)
  BY <1>0, <1>5 DEF BatchAnswered
<1>6. CASE KilledEnds(r)
  BY <1>0, <1>6 DEF KilledEnds, Back, rows
<1>7. CASE WorkerRaises(r)
  BY <1>7 DEF WorkerRaises
<1> QED
  BY <1>1, <1>2, <1>3, <1>4, <1>5, <1>6, <1>7

\* A stop of no run changes nothing; any other leaves no last one out.
LEMMA StopPosts ==
  ASSUME TypeOK, Posted, NEW R \in SUBSET Runs, HardStop(R), UNCHANGED <<pc, showroom>>
  PROVE  Posted'
<1>1. CASE R = {}
  <2>1. status' = status /\ killed' = killed /\ closer' = closer
    BY <1>1 DEF HardStop, Cancelled, TypeOK
  <2> QED
    BY <2>1 DEF Posted
<1>2. CASE R # {}
  BY <1>2 DEF HardStop, Posted
<1> QED
  BY <1>1, <1>2

LEMMA StepPosts ==
  ASSUME TypeOK, TypeOK', Posted, [Next]_vars
  PROVE  Posted'
<1>1. ASSUME NEW r \in Runs, StopRun(r) PROVE Posted'
  BY <1>1, StopPosts DEF StopRun
<1>2. ASSUME NEW next \in {"free", "switching", "updating"}, StopAll(next) PROVE Posted'
  BY <1>2, StopPosts DEF StopAll, Running
<1>3. ASSUME NEW q \in Queues, ClearStops(q) PROVE Posted'
  BY <1>3, StopPosts DEF ClearStops, Running, RunsOf
<1>4. CASE \/ \E r \in Runs : PublishAnswered(r) \/ DeleteRun(r)
           \/ ClearHistory \/ ClearDeletes
  <2>1. Fades
    <3>0. status \in [Runs -> Ended \cup {"running", "gone"}]
      BY DEF TypeOK
    <3>1. ASSUME NEW r \in Runs, PublishAnswered(r) PROVE Fades
      BY <3>0, <3>1 DEF PublishAnswered, Fades, Ended
    <3>2. ASSUME NEW r \in Runs, DeleteRun(r) PROVE Fades
      BY <3>0, <3>2 DEF DeleteRun, Fades, Ended
    <3>3. CASE ClearHistory
      BY <3>0, <3>3 DEF ClearHistory, Dropped, Fades, Ended
    <3>4. CASE ClearDeletes
      BY <3>0, <3>4 DEF ClearDeletes, Dropped, Stale, RunsOf, Fades, Ended
    <3> QED
      BY <1>4, <3>1, <3>2, <3>3, <3>4
  <2>2. UNCHANGED <<pc, killed, closer, showroom>>
    BY <1>4 DEF PublishAnswered, DeleteRun, ClearHistory, ClearDeletes, memory
  <2>3. closer \in Runs \cup {0}
    BY DEF TypeOK
  <2> QED
    BY <2>1, <2>2, <2>3, FadingCompletesNothing DEF Posted
<1>5. ASSUME NEW r \in Runs, RecoverAccept(r) PROVE Posted'
  <2>1. pc' = [pc EXCEPT ![r] = "recover"] /\ pc[r] = "none" /\ pc \in [Runs -> {"none"} \cup Working \cup Posting]
    BY <1>5 DEF RecoverAccept, TypeOK
  <2>2. UNCHANGED <<status, killed, closer, showroom>> /\ closer \in Runs \cup {0}
    BY <1>5 DEF RecoverAccept, rows, TypeOK
  <2> QED
    BY <2>1, <2>2 DEF Posted
<1>6. CASE PublishBatch
  BY <1>6 DEF PublishBatch, Posted, memory
<1>7. CASE Restart
  BY <1>7 DEF Restart, Posted
<1>8. CASE \/ \E f \in Flows, update \in BOOLEAN : SoftStop(f, update) \/ UpdateTopics(f, update)
           \/ \E f \in Flows : StartPrompt(f)
           \/ \E q \in Queues : DeleteQueue(q) \/ SetQueue(q) \/ Enqueue(q)
           \/ \E i \in Topics : RetryAsked(i) \/ RetryAnswered(i)
           \/ \E r \in Runs : PublishAsked(r)
           \/ UNCHANGED vars
  <2>1. UNCHANGED <<status, pc, killed, closer, showroom>>
    BY <1>8 DEF SoftStop, UpdateTopics, StartPrompt, DeleteQueue, SetQueue, Enqueue, RetryAsked,
         RetryAnswered, PublishAsked, vars, rows, memory
  <2> QED
    BY <2>1 DEF Posted
<1> QED
  BY <1>1, <1>2, <1>3, <1>4, <1>5, <1>6, <1>7, <1>8, WorkerPosts DEF Next

\* Whoever ends last in its worker posts the batch, for any runs, stops,
\* deletions and restarts.
THEOREM LastOutPosts == Spec => []CompleteBatchIsPosted
<1>1. Init => Posted
  BY DEF Init, Posted
<1>2. TypeOK /\ Posted /\ [Next]_vars => Posted'
  BY StepTyped, StepPosts
<1>3. TypeOK /\ Posted => CompleteBatchIsPosted
  BY RunAssumption DEF Posted, CompleteBatchIsPosted
<1> QED
  BY <1>1, <1>2, <1>3, InitTyped, StepTyped, PTL DEF Spec

-----------------------------------------------------------------------------
(* Articles.                                                               *)

Unwritten == \A r \in Runs : status[r] = "running" => r \notin article

LEMMA ArticleEnds ==
  ASSUME TypeOK, Unwritten, [Next]_vars
  PROVE  Unwritten'
<1>1. \A r \in Runs : r \in article' => r \in article \/ status'[r] = "completed"
  <2>1. CASE article' \subseteq article
    BY <2>1
  <2>2. ASSUME NEW r \in Runs, Complete(r)
        PROVE  \A x \in Runs : x \in article' => x \in article \/ status'[x] = "completed"
    BY <2>2 DEF Complete, Ends, TypeOK, rows
  <2>3. article' \subseteq article \/ \E r \in Runs : Complete(r)
    <3>1. ASSUME NEW r \in Runs,
                 \/ FlowFails(r) \/ FlowIsEmpty(r) \/ AskHeadline(r) \/ ArticlePosted(r)
                 \/ BatchAnswered(r) \/ NoticeStop(r) \/ KilledEnds(r) \/ WorkerRaises(r)
                 \/ StopRun(r) \/ PublishAsked(r) \/ PublishAnswered(r)
                 \/ RecoverAccept(r) \/ DeleteRun(r)
          PROVE  article' \subseteq article
      BY <3>1 DEF FlowFails, FlowIsEmpty, AskHeadline, ArticlePosted, BatchAnswered, NoticeStop,
           KilledEnds, WorkerRaises, StopRun, PublishAsked, PublishAnswered, RecoverAccept,
           DeleteRun, rows
    <3>2. CASE \/ \E next \in {"free", "switching", "updating"} : StopAll(next)
               \/ ClearHistory \/ ClearDeletes \/ Restart
               \/ \E q \in Queues : ClearStops(q)
               \/ \E f \in Flows : StartPrompt(f)
      BY <3>2 DEF StopAll, ClearHistory, ClearDeletes, Restart, ClearStops, StartPrompt
    <3>3. CASE \/ \E f \in Flows, update \in BOOLEAN : SoftStop(f, update) \/ UpdateTopics(f, update)
               \/ \E q \in Queues : DeleteQueue(q) \/ SetQueue(q) \/ Enqueue(q)
               \/ \E i \in Topics : RetryAsked(i) \/ RetryAnswered(i)
               \/ PublishBatch
      BY <3>3 DEF SoftStop, UpdateTopics, DeleteQueue, SetQueue, Enqueue, RetryAsked, RetryAnswered,
           PublishBatch, rows
    <3> QED
      BY <3>1, <3>2, <3>3 DEF Next, vars, rows
  <2> QED
    BY <2>1, <2>2, <2>3
<1> QED
  BY <1>1, NoRunStarts DEF Unwritten

-----------------------------------------------------------------------------
(* Topics that wait for a new flow.                                        *)

\* A worker that may still write to its topic as the worker of a run that was
\* in the database from the start.
Fresh(r) == pc[r] \in {"work", "headline", "posting", "unmarked"}

Rivals(r, x) == r # x /\ TopicOf[r] = TopicOf[x]

RunningIsDriven ==
  \A r \in Runs : status[r] = "running" <=> pc[r] \in {"work", "headline"} /\ r \notin killed
WishIsKnown ==
  \A r \in Runs : status[r] = "running" /\ wish[r] # NoFlow => requeue[r] = wish[r]
NoRivals ==
  \A r \in Runs, x \in Runs : Rivals(r, x) /\ Fresh(x) => ~Fresh(r) /\ wish[r] = NoFlow
UnmarkedIsOver ==
  \A r \in Runs : pc[r] = "unmarked" => status[r] # "cancelled"

\* No other worker touches a topic that was stopped for a new flow.
Requeued ==
  RunningIsDriven /\ WishIsKnown /\ NoRivals /\ UnmarkedIsOver /\ SoftStopRequeues

LEMMA InitRequeued == ASSUME Init PROVE Requeued
<1>1. PICK st \in Starts : status = st /\ pc = [r \in Runs |-> IF st[r] = "running" THEN "work" ELSE "none"]
  BY DEF Init
<1>2. RunningIsDriven /\ WishIsKnown /\ UnmarkedIsOver /\ SoftStopRequeues
  BY <1>1 DEF Init, RunningIsDriven, WishIsKnown, UnmarkedIsOver, SoftStopRequeues
<1>3. \A r \in Runs : Fresh(r) => st[r] = "running"
  BY <1>1 DEF Fresh
<1>4. NoRivals
  BY <1>1, <1>3, StartAssumption DEF Init, NoRivals, Rivals
<1> QED
  BY <1>2, <1>4 DEF Requeued

\* Marking the topic of a run leaves the topics of others alone.
LEMMA OthersUnmarked ==
  ASSUME TypeOK, NEW r \in Runs, NEW to, NEW x \in Runs, TopicOf[x] # TopicOf[r]
  PROVE  Mark(r, to)[TopicOf[x]] = topic[TopicOf[x]]
BY RunAssumption DEF TypeOK, Mark, Topics

\* A worker that ends a run which has rivals for its topic: none of them was
\* stopped for a new flow.
LEMMA MarkKeeps ==
  ASSUME TypeOK, Requeued, NEW r \in Runs, Fresh(r), NEW to,
         topic' = Mark(r, to), wish' = wish, status'[r] # "cancelled",
         \A x \in Runs \ {r} : status'[x] = status[x]
  PROVE  SoftStopRequeues'
<1> SUFFICES ASSUME NEW x \in Runs, status'[x] = "cancelled", wish'[x] # NoFlow, Exists(TopicOf[x])'
             PROVE  topic'[TopicOf[x]].status = "queued" /\ topic'[TopicOf[x]].flow = wish'[x]
  BY DEF SoftStopRequeues
<1>1. x # r /\ status[x] = "cancelled" /\ wish[x] # NoFlow
  OBVIOUS
<1>2. TopicOf[x] # TopicOf[r]
  BY <1>1 DEF Requeued, NoRivals, Rivals
<1>3. topic'[TopicOf[x]] = topic[TopicOf[x]]
  BY <1>2, OthersUnmarked
<1> QED
  BY <1>1, <1>3 DEF Requeued, SoftStopRequeues, Exists

LEMMA WorkerRequeues ==
  ASSUME TypeOK, Requeued, NEW r \in Runs,
         \/ FlowFails(r) \/ FlowIsEmpty(r) \/ WorkerRaises(r)
         \/ BatchAnswered(r) \/ AskHeadline(r) \/ ArticlePosted(r)
  PROVE  Requeued'
<1> USE DEF Requeued, Drives
<1>0. /\ pc \in [Runs -> {"none"} \cup Working \cup Posting]
      /\ status \in [Runs -> Ended \cup {"running", "gone"}]
  BY DEF TypeOK
<1>1. CASE FlowFails(r) \/ FlowIsEmpty(r) \/ WorkerRaises(r)
  <2>1. /\ Fresh(r) /\ r \notin killed
        /\ status' = [status EXCEPT ![r] = "failed"]
        /\ \E at \in {"none", "unmarked", "batch"} : pc' = [pc EXCEPT ![r] = at]
        /\ topic' = Mark(r, "failed") \/ topic' = topic
        /\ UNCHANGED <<killed, requeue, wish>>
    BY <1>1 DEF FlowFails, FlowIsEmpty, WorkerRaises, Fresh, Ends, Onward, Back
  <2>2. RunningIsDriven' /\ WishIsKnown' /\ UnmarkedIsOver'
    BY <1>0, <2>1 DEF RunningIsDriven, WishIsKnown, UnmarkedIsOver
  <2>3. NoRivals'
    BY <1>0, <2>1 DEF NoRivals, Rivals, Fresh
  <2>4. SoftStopRequeues'
    <3>1. CASE topic' = topic
      BY <1>0, <2>1, <3>1 DEF SoftStopRequeues, Exists
    <3>2. CASE topic' = Mark(r, "failed")
      BY <1>0, <2>1, <3>2, MarkKeeps
    <3> QED
      BY <2>1, <3>1, <3>2
  <2> QED
    BY <2>2, <2>3, <2>4
<1>2. CASE BatchAnswered(r) \/ AskHeadline(r) \/ ArticlePosted(r)
  <2>1. /\ status' = status
        /\ UNCHANGED <<killed, requeue, wish>>
        /\ \E at \in {"none", "headline", "batch", "again"} :
             pc' = [pc EXCEPT ![r] = at] /\ (at = "headline" <=> pc[r] = "work")
             /\ (pc[r] = "headline" => at = "headline")
    BY <1>0, <1>2 DEF BatchAnswered, AskHeadline, ArticlePosted, Onward, Back, rows
  <2>2. RunningIsDriven' /\ WishIsKnown' /\ UnmarkedIsOver'
    BY <1>0, <2>1 DEF RunningIsDriven, WishIsKnown, UnmarkedIsOver
  <2>3. NoRivals'
    BY <1>0, <2>1 DEF NoRivals, Rivals, Fresh
  <2>4. SoftStopRequeues'
    <3>1. CASE topic' = topic
      BY <2>1, <3>1 DEF SoftStopRequeues, Exists
    <3>2. CASE topic' # topic
      <4>1. Fresh(r) /\ topic' = Mark(r, "failed") /\ status[r] # "cancelled"
        BY <1>2, <3>2 DEF BatchAnswered, AskHeadline, ArticlePosted, Fresh, UnmarkedIsOver, rows
      <4> QED
        BY <2>1, <4>1, MarkKeeps
    <3> QED
      BY <3>1, <3>2
  <2> QED
    BY <2>2, <2>3, <2>4
<1> QED
  BY <1>1, <1>2

LEMMA CompleteRequeues ==
  ASSUME TypeOK, Requeued, Unwritten, NEW r \in Runs, Complete(r)
  PROVE  Requeued'
<1> USE DEF Requeued, Drives
<1>0. /\ pc \in [Runs -> {"none"} \cup Working \cup Posting]
      /\ status \in [Runs -> Ended \cup {"running", "gone"}]
      /\ wish \in [Runs -> Flows \cup {NoFlow}]
      /\ pc[r] \in {"headline", "recover"} /\ r \notin killed
      /\ UNCHANGED <<killed, requeue>>
  BY DEF TypeOK, Complete
<1>1. CASE status[r] = "gone" \/ r \in article
  <2>1. UNCHANGED <<status, topic, wish>> /\ pc' = [pc EXCEPT ![r] = "none"]
    BY <1>1 DEF Complete, Back, rows
  <2>2. pc[r] = "recover"
    BY <1>0, <1>1 DEF RunningIsDriven, Unwritten
  <2>3. RunningIsDriven' /\ WishIsKnown' /\ UnmarkedIsOver' /\ SoftStopRequeues'
    BY <1>0, <2>1, <2>2 DEF RunningIsDriven, WishIsKnown, UnmarkedIsOver, SoftStopRequeues, Exists
  <2>4. NoRivals'
    BY <1>0, <2>1 DEF NoRivals, Rivals, Fresh
  <2> QED
    BY <2>3, <2>4
<1>2. CASE ~(status[r] = "gone" \/ r \in article)
  <2>1. /\ status' = [status EXCEPT ![r] = "completed"]
        /\ topic' = Mark(r, "completed")
        /\ wish' = [x \in Runs |-> IF TopicOf[x] = TopicOf[r] THEN NoFlow ELSE wish[x]]
        /\ pc' = [pc EXCEPT ![r] = IF @ = "headline" THEN "posting" ELSE "reposting"]
    BY <1>2 DEF Complete, Ends
  <2>2. RunningIsDriven' /\ WishIsKnown' /\ UnmarkedIsOver'
    BY <1>0, <2>1 DEF RunningIsDriven, WishIsKnown, UnmarkedIsOver
  <2>3. NoRivals'
    BY <1>0, <2>1 DEF NoRivals, Rivals, Fresh
  <2>4. SoftStopRequeues'
    <3> SUFFICES ASSUME NEW x \in Runs, status'[x] = "cancelled", wish'[x] # NoFlow, Exists(TopicOf[x])'
                 PROVE  topic'[TopicOf[x]].status = "queued" /\ topic'[TopicOf[x]].flow = wish'[x]
      BY DEF SoftStopRequeues
    <3>1. TopicOf[x] # TopicOf[r] /\ wish'[x] = wish[x] /\ status[x] = "cancelled"
      BY <1>0, <2>1
    <3>2. topic'[TopicOf[x]] = topic[TopicOf[x]]
      BY <2>1, <3>1, OthersUnmarked
    <3> QED
      BY <3>1, <3>2 DEF SoftStopRequeues, Exists
  <2> QED
    BY <2>2, <2>3, <2>4
<1> QED
  BY <1>1, <1>2

LEMMA NoticeRequeues ==
  ASSUME TypeOK, Requeued, NEW r \in Runs, NoticeStop(r)
  PROVE  Requeued'
<1> USE DEF Requeued
<1>0. /\ pc \in [Runs -> {"none"} \cup Working \cup Posting]
      /\ status \in [Runs -> Ended \cup {"running", "gone"}]
      /\ requeue \in [Runs -> Flows \cup {NoFlow}]
      /\ topic \in [Topics -> Row]
  BY DEF TypeOK, Row
<1>1. /\ pc[r] = "work" /\ r \notin killed
      /\ status' = [status EXCEPT ![r] = "cancelled"]
      /\ \E at \in {"none", "unflag"} : pc' = [pc EXCEPT ![r] = at]
      /\ topic' = AfterStop(r)
      /\ requeue' = [requeue EXCEPT ![r] = NoFlow]
      /\ UNCHANGED <<killed, wish>>
  BY DEF NoticeStop, Drives, Ends, Onward
<1>2. status[r] = "running" /\ Fresh(r)
  BY <1>1 DEF RunningIsDriven, Fresh
<1>3. RunningIsDriven' /\ WishIsKnown' /\ UnmarkedIsOver'
  BY <1>0, <1>1 DEF RunningIsDriven, WishIsKnown, UnmarkedIsOver
<1>4. NoRivals'
  BY <1>0, <1>1 DEF NoRivals, Rivals, Fresh
<1>5. SoftStopRequeues'
  <2> SUFFICES ASSUME NEW x \in Runs, status'[x] = "cancelled", wish'[x] # NoFlow, Exists(TopicOf[x])'
               PROVE  topic'[TopicOf[x]].status = "queued" /\ topic'[TopicOf[x]].flow = wish'[x]
    BY DEF SoftStopRequeues
  <2>0. TopicOf[r] \in Topics /\ TopicOf[x] \in Topics
    BY RunAssumption DEF Topics
  <2>1. CASE x = r
    <3>1. requeue[r] = wish[r] /\ requeue[r] # NoFlow
      BY <1>1, <1>2, <2>1 DEF WishIsKnown
    <3>2. topic[TopicOf[r]].status # "gone"
      BY <1>0, <1>1, <2>0, <2>1, <3>1 DEF AfterStop, Exists
    <3>3. topic'[TopicOf[r]] = [topic[TopicOf[r]] EXCEPT !.status = "queued", !.flow = requeue[r]]
      BY <1>0, <1>1, <2>0, <3>1, <3>2 DEF AfterStop
    <3> QED
      BY <1>0, <1>1, <2>0, <2>1, <3>1, <3>3 DEF Row
  <2>2. CASE x # r
    <3>1. status[x] = "cancelled" /\ wish[x] # NoFlow
      BY <1>0, <1>1, <2>2
    <3>2. TopicOf[x] # TopicOf[r]
      BY <1>2, <2>2, <3>1 DEF NoRivals, Rivals
    <3>3. topic'[TopicOf[x]] = topic[TopicOf[x]]
      BY <1>0, <1>1, <2>0, <3>2 DEF AfterStop, Mark
    <3> QED
      BY <1>1, <3>1, <3>3 DEF SoftStopRequeues, Exists
  <2> QED
    BY <2>1, <2>2
<1> QED
  BY <1>3, <1>4, <1>5

LEMMA KilledRequeues ==
  ASSUME TypeOK, Requeued, NEW r \in Runs, KilledEnds(r)
  PROVE  Requeued'
<1> USE DEF Requeued
<1>0. /\ pc \in [Runs -> {"none"} \cup Working \cup Posting]
      /\ requeue \in [Runs -> Flows \cup {NoFlow}]
  BY DEF TypeOK
<1>1. /\ r \in killed /\ killed' = killed \ {r}
      /\ pc' = [pc EXCEPT ![r] = "none"]
      /\ requeue' = requeue \/ requeue' = [requeue EXCEPT ![r] = NoFlow]
      /\ UNCHANGED <<status, topic, wish>>
  BY DEF KilledEnds, Back, rows
<1>2. status[r] # "running"
  BY <1>1 DEF RunningIsDriven
<1>3. RunningIsDriven' /\ WishIsKnown' /\ UnmarkedIsOver' /\ SoftStopRequeues'
  BY <1>0, <1>1, <1>2 DEF RunningIsDriven, WishIsKnown, UnmarkedIsOver, SoftStopRequeues, Exists
<1>4. NoRivals'
  BY <1>0, <1>1 DEF NoRivals, Rivals, Fresh
<1> QED
  BY <1>3, <1>4

-----------------------------------------------------------------------------
(* Stops and switches.                                                     *)

\* Topics change only where their runs are forgotten or where they do not wait.
LEMMA TopicsKeep ==
  ASSUME TypeOK, Requeued,
         \A x \in Runs : status'[x] = "cancelled" /\ wish'[x] # NoFlow /\ Exists(TopicOf[x])' =>
           /\ status[x] = "cancelled" /\ wish'[x] = wish[x] /\ Exists(TopicOf[x])
           /\ topic[TopicOf[x]].status = "queued" =>
                topic'[TopicOf[x]].status = "queued" /\ topic'[TopicOf[x]].flow = topic[TopicOf[x]].flow
  PROVE  SoftStopRequeues'
BY DEF Requeued, SoftStopRequeues

\* Topics that stay where they are, or come back to their queue.
LEMMA SteadyTopicsKeep ==
  ASSUME TypeOK, Requeued, UNCHANGED wish,
         \A x \in Runs : status'[x] = "cancelled" => status[x] = "cancelled",
         \A j \in Topics : /\ topic'[j].flow = topic[j].flow
                           /\ topic[j].status = "queued" => topic'[j].status = "queued"
                           /\ topic'[j].status # "gone" => topic[j].status # "gone"
  PROVE  SoftStopRequeues'
<1>1. \A x \in Runs : TopicOf[x] \in Topics
  BY RunAssumption DEF Topics
<1> QED
  BY <1>1, TopicsKeep DEF Exists

LEMMA HaltedWaits ==
  ASSUME TypeOK, NEW i \in Topics, NEW R, NEW st
  PROVE  /\ topic[i].status = "queued" => Reconciled(Halted(R), st)[i] = topic[i]
         /\ Reconciled(Halted(R), st)[i].status # "gone" => topic[i].status # "gone"
BY DEF TypeOK, Halted, Reconciled

LEMMA StopRequeues ==
  ASSUME TypeOK, Requeued, NEW R \in SUBSET Runs, HardStop(R), UNCHANGED pc,
         \A r \in R : status[r] = "running",
         topic' = topic \/ topic' = Reconciled(Halted(R), status')
  PROVE  Requeued'
<1> USE DEF Requeued
<1>1. /\ status' = Cancelled(R) /\ killed' = killed \cup R
      /\ requeue' = [r \in Runs |-> IF r \in R THEN NoFlow ELSE requeue[r]]
      /\ wish' = [r \in Runs |-> IF r \in R THEN NoFlow ELSE wish[r]]
  BY DEF HardStop
<1>2. RunningIsDriven' /\ WishIsKnown' /\ UnmarkedIsOver'
  BY <1>1 DEF RunningIsDriven, WishIsKnown, UnmarkedIsOver, Cancelled
<1>3. NoRivals'
  BY <1>1 DEF NoRivals, Rivals, Fresh
<1>4. SoftStopRequeues'
  <2> SUFFICES ASSUME NEW x \in Runs, status'[x] = "cancelled", wish'[x] # NoFlow, Exists(TopicOf[x])'
               PROVE  /\ status[x] = "cancelled" /\ wish'[x] = wish[x] /\ Exists(TopicOf[x])
                      /\ topic[TopicOf[x]].status = "queued" =>
                           topic'[TopicOf[x]].status = "queued" /\ topic'[TopicOf[x]].flow = topic[TopicOf[x]].flow
    BY TopicsKeep
  <2>1. TopicOf[x] \in Topics
    BY RunAssumption DEF Topics
  <2>2. status[x] = "cancelled" /\ wish'[x] = wish[x]
    BY <1>1 DEF Cancelled
  <2> QED
    BY <2>1, <2>2, HaltedWaits DEF Exists
<1> QED
  BY <1>2, <1>3, <1>4

LEMMA SoftStops ==
  ASSUME TypeOK, Requeued, NEW f \in Flows, NEW update \in BOOLEAN, SoftStop(f, update)
  PROVE  Requeued'
<1> USE DEF Requeued
<1> DEFINE R == Running(Runs)
           T == IF update THEN Open ELSE {}
<1>1. /\ requeue' = [r \in Runs |-> IF r \in R THEN f ELSE requeue[r]]
      /\ topic' = [i \in Topics |-> IF i \in T THEN [topic[i] EXCEPT !.flow = f] ELSE topic[i]]
      /\ wish' = [r \in Runs |-> IF r \in R THEN f
                                 ELSE IF TopicOf[r] \in T THEN NoFlow ELSE wish[r]]
      /\ UNCHANGED <<status, pc, killed>>
  BY DEF SoftStop, Redirected, Forgotten, Running
<1>2. \A r \in Runs : r \in R <=> status[r] = "running"
  BY DEF Running
<1>3. \A x \in Runs : TopicOf[x] \in Topics
  BY RunAssumption DEF Topics
<1> HIDE DEF R, T
<1>4. RunningIsDriven' /\ WishIsKnown' /\ UnmarkedIsOver'
  BY <1>1, <1>2 DEF RunningIsDriven, WishIsKnown, UnmarkedIsOver
<1>5. \A r \in R : Fresh(r)
  BY <1>2 DEF RunningIsDriven, Fresh, R, Running
<1>6. NoRivals'
  BY <1>1, <1>2, <1>5 DEF NoRivals, Rivals, Fresh
<1>7. SoftStopRequeues'
  BY <1>1, <1>2, <1>3, TopicsKeep DEF Exists
<1> QED
  BY <1>4, <1>6, <1>7

\* Steps that leave the workers alone, and the stopped runs or their topics.
LEMMA AsideRequeues ==
  ASSUME TypeOK, Requeued, UNCHANGED <<killed, requeue>>,
         \A r \in Runs : pc'[r] = pc[r] \/ (pc[r] = "none" /\ pc'[r] = "recover"),
         \A r \in Runs : status'[r] = status[r] \/
           (status[r] # "running" /\ status'[r] \notin {"running", "cancelled"}),
         \A r \in Runs : wish'[r] \in {wish[r], NoFlow},
         SoftStopRequeues'
  PROVE  Requeued'
<1> USE DEF Requeued
<1>1. RunningIsDriven' /\ WishIsKnown' /\ UnmarkedIsOver'
  BY DEF RunningIsDriven, WishIsKnown, UnmarkedIsOver
<1>2. NoRivals'
  BY DEF NoRivals, Rivals, Fresh
<1> QED
  BY <1>1, <1>2

LEMMA UpdatesRequeue ==
  ASSUME TypeOK, Requeued, NEW f \in Flows, NEW update \in BOOLEAN, UpdateTopics(f, update)
  PROVE  Requeued'
<1> DEFINE T == IF update THEN Open ELSE {}
<1>1. /\ topic' = [i \in Topics |-> IF i \in T THEN [topic[i] EXCEPT !.flow = f] ELSE topic[i]]
      /\ wish' = [r \in Runs |-> IF TopicOf[r] \in T THEN NoFlow ELSE wish[r]]
      /\ UNCHANGED <<status, pc, killed, requeue>>
  BY DEF UpdateTopics, Redirected, Forgotten
<1>2. \A x \in Runs : TopicOf[x] \in Topics
  BY RunAssumption DEF Topics
<1> HIDE DEF T
<1>3. SoftStopRequeues'
  BY <1>1, <1>2 DEF Requeued, SoftStopRequeues, Exists
<1>4. \A r \in Runs : wish'[r] \in {wish[r], NoFlow}
  BY <1>1
<1> QED
  BY <1>1, <1>3, <1>4, AsideRequeues

\* What topics may come to beside stops: they go, or change while no run
\* waits for them, or come back to their queue.
LEMMA TopicStepsKeep ==
  ASSUME TypeOK, Requeued,
         \/ ClearHistory \/ ClearDeletes
         \/ \E f \in Flows : StartPrompt(f)
         \/ \E q \in Queues : DeleteQueue(q) \/ Enqueue(q)
         \/ \E i \in Topics : RetryAnswered(i)
         \/ \E r \in Runs : PublishAnswered(r) \/ DeleteRun(r)
  PROVE  SoftStopRequeues'
<1> USE DEF Requeued
<1>0. /\ \A x \in Runs : TopicOf[x] \in Topics
      /\ topic \in [Topics -> Row]
      /\ status \in [Runs -> Ended \cup {"running", "gone"}]
      /\ wish \in [Runs -> Flows \cup {NoFlow}]
  BY RunAssumption DEF Topics, TypeOK, Row
<1>1. CASE ClearHistory
  BY <1>0, <1>1 DEF ClearHistory, Without, SoftStopRequeues, Exists
<1>2. CASE ClearDeletes
  <2>1. CASE UNCHANGED <<topic, status, wish>>
    BY <2>1 DEF SoftStopRequeues, Exists
  <2>2. ASSUME NEW I, topic' = Reconciled(Without(I), status), status' = Dropped(Stale), wish' = Forgotten(I)
        PROVE  SoftStopRequeues'
    <3>1. \A i \in Topics \ I : topic[i].status = "queued" => topic'[i] = topic[i]
      BY <1>0, <2>2 DEF Reconciled, Without
    <3>2. \A i \in Topics \ I : topic'[i].status # "gone" => topic[i].status # "gone"
      BY <1>0, <2>2 DEF Reconciled, Without
    <3>3. \A x \in Runs : status'[x] = "cancelled" => status[x] = "cancelled"
      BY <2>2 DEF Dropped
    <3>4. \A x \in Runs : wish'[x] # NoFlow => TopicOf[x] \notin I /\ wish'[x] = wish[x]
      BY <2>2 DEF Forgotten
    <3> QED
      BY <1>0, <3>1, <3>2, <3>3, <3>4, TopicsKeep DEF Exists
  <2> QED
    BY <1>2, <2>1, <2>2 DEF ClearDeletes
<1>3. ASSUME NEW q, NEW f \in Flows, NewTopic(q, f), UNCHANGED status
      PROVE  SoftStopRequeues'
  <2>1. \A i \in Topics : i # NextTopic => topic'[i] = topic[i]
    BY <1>0, <1>3 DEF NewTopic
  <2>2. \A x \in Runs : wish'[x] # NoFlow => TopicOf[x] # NextTopic /\ wish'[x] = wish[x]
    BY <1>3 DEF NewTopic, Forgotten
  <2> QED
    BY <1>0, <1>3, <2>1, <2>2 DEF SoftStopRequeues, Exists
<1>4. CASE \E f \in Flows : StartPrompt(f)
  BY <1>3, <1>4 DEF StartPrompt, SoftStopRequeues, Exists
<1>5. CASE \E q \in Queues : Enqueue(q)
  BY <1>3, <1>5 DEF Enqueue
<1>6. ASSUME NEW q \in Queues, DeleteQueue(q)
      PROVE  SoftStopRequeues'
  BY <1>0, <1>6 DEF DeleteQueue, Without, Forgotten, SoftStopRequeues, Exists
<1>7. ASSUME NEW i \in Topics, RetryAnswered(i)
      PROVE  SoftStopRequeues'
  <2>1. \A j \in Topics : /\ topic'[j].flow = topic[j].flow
                          /\ topic[j].status = "queued" => topic'[j].status = "queued"
                          /\ topic'[j].status # "gone" => topic[j].status # "gone"
    BY <1>0, <1>7 DEF RetryAnswered, Exists, Row
  <2>2. UNCHANGED wish
    BY <1>7 DEF RetryAnswered
  <2>3. \A x \in Runs : status'[x] = "cancelled" => status[x] = "cancelled"
    BY <1>7 DEF RetryAnswered
  <2> QED
    BY ONLY TypeOK, Requeued, <2>1, <2>2, <2>3, SteadyTopicsKeep
<1>8. ASSUME NEW r \in Runs, PublishAnswered(r)
      PROVE  SoftStopRequeues'
  <2>1. \A j \in Topics : /\ topic'[j].flow = topic[j].flow
                          /\ topic[j].status = "queued" => topic'[j].status = "queued"
                          /\ topic'[j].status # "gone" => topic[j].status # "gone"
    BY <1>0, <1>8 DEF PublishAnswered, Row
  <2>2. \A x \in Runs : status'[x] = "cancelled" => status[x] = "cancelled"
    BY <1>0, <1>8 DEF PublishAnswered
  <2>3. UNCHANGED wish
    BY <1>8 DEF PublishAnswered
  <2> QED
    BY ONLY TypeOK, Requeued, <2>1, <2>2, <2>3, SteadyTopicsKeep
<1>9. ASSUME NEW r \in Runs, DeleteRun(r)
      PROVE  SoftStopRequeues'
  <2>1. \A j \in Topics : /\ topic'[j].flow = topic[j].flow
                          /\ topic[j].status = "queued" => topic'[j].status = "queued"
                          /\ topic'[j].status # "gone" => topic[j].status # "gone"
    BY <1>0, <1>9 DEF DeleteRun, Mark, Row
  <2>2. \A x \in Runs : status'[x] = "cancelled" => status[x] = "cancelled"
    BY <1>0, <1>9 DEF DeleteRun
  <2>3. UNCHANGED wish
    BY <1>9 DEF DeleteRun
  <2> QED
    BY ONLY TypeOK, Requeued, <2>1, <2>2, <2>3, SteadyTopicsKeep
<1> QED
  BY <1>1, <1>2, <1>4, <1>5, <1>6, <1>7, <1>8, <1>9

LEMMA StepRequeues ==
  ASSUME TypeOK, Requeued, Unwritten, [Next]_vars
  PROVE  Requeued'
<1>0. /\ pc \in [Runs -> {"none"} \cup Working \cup Posting]
      /\ status \in [Runs -> Ended \cup {"running", "gone"}]
      /\ wish \in [Runs -> Flows \cup {NoFlow}]
  BY DEF TypeOK
<1>1. ASSUME NEW r \in Runs, StopRun(r) PROVE Requeued'
  BY <1>1, StopRequeues DEF StopRun
<1>2. ASSUME NEW next \in {"free", "switching", "updating"}, StopAll(next) PROVE Requeued'
  BY <1>2, StopRequeues DEF StopAll, Running
<1>3. ASSUME NEW q \in Queues, ClearStops(q) PROVE Requeued'
  BY <1>3, StopRequeues DEF ClearStops, Running, RunsOf
<1>4. CASE \/ ClearHistory \/ ClearDeletes
           \/ \E f \in Flows : StartPrompt(f)
           \/ \E q \in Queues : DeleteQueue(q) \/ Enqueue(q)
           \/ \E i \in Topics : RetryAnswered(i)
           \/ \E r \in Runs : PublishAnswered(r) \/ DeleteRun(r)
  <2>1. UNCHANGED <<killed, requeue, pc>>
    BY <1>4 DEF ClearHistory, ClearDeletes, StartPrompt, DeleteQueue, Enqueue, RetryAnswered,
         PublishAnswered, DeleteRun, memory
  <2>2. \A r \in Runs : status'[r] = status[r] \/
          (status[r] # "running" /\ status'[r] \notin {"running", "cancelled"})
    <3>1. ASSUME NEW R, status' = Dropped(R), \A r \in R : status[r] # "running"
          PROVE  \A x \in Runs : status'[x] = status[x] \/
                   (status[x] # "running" /\ status'[x] \notin {"running", "cancelled"})
      BY <3>1 DEF Dropped
    <3>2. CASE ClearHistory
      BY <3>1, <3>2 DEF ClearHistory
    <3>3. ASSUME NEW r \in Runs, PublishAnswered(r)
          PROVE  \A x \in Runs : status'[x] = status[x] \/
                   (status[x] # "running" /\ status'[x] \notin {"running", "cancelled"})
      BY <1>0, <3>3 DEF PublishAnswered
    <3>4. ASSUME NEW r \in Runs, DeleteRun(r)
          PROVE  \A x \in Runs : status'[x] = status[x] \/
                   (status[x] # "running" /\ status'[x] \notin {"running", "cancelled"})
      BY <1>0, <3>4 DEF DeleteRun, Ended
    <3>5. CASE UNCHANGED status
      BY <3>5
    <3>6. CASE ClearDeletes
      <4>1. \A r \in Stale : status[r] # "running"
        BY DEF Stale
      <4> QED
        BY <3>1, <3>5, <3>6, <4>1 DEF ClearDeletes
    <3>7. \/ ClearHistory \/ ClearDeletes \/ UNCHANGED status
          \/ \E r \in Runs : PublishAnswered(r) \/ DeleteRun(r)
      BY <1>4 DEF StartPrompt, DeleteQueue, Enqueue, RetryAnswered
    <3> QED
      BY <3>2, <3>3, <3>4, <3>5, <3>6, <3>7
  <2>3. \A r \in Runs : wish'[r] \in {wish[r], NoFlow}
    BY <1>0, <1>4 DEF ClearHistory, ClearDeletes, StartPrompt, DeleteQueue, Enqueue, RetryAnswered,
         PublishAnswered, DeleteRun, NewTopic, Forgotten
  <2> QED
    <3>1. SoftStopRequeues'
      BY ONLY TypeOK, Requeued, <1>4, TopicStepsKeep
    <3>2. \A r \in Runs : pc'[r] = pc[r] \/ (pc[r] = "none" /\ pc'[r] = "recover")
      BY <2>1
    <3>3. UNCHANGED <<killed, requeue>>
      BY <2>1
    <3> QED
      BY ONLY TypeOK, Requeued, <2>2, <2>3, <3>1, <3>2, <3>3, AsideRequeues
<1>5. CASE \/ \E r \in Runs : RecoverAccept(r) \/ PublishAsked(r)
           \/ \E i \in Topics : RetryAsked(i)
           \/ \E q \in Queues : SetQueue(q)
           \/ PublishBatch \/ UNCHANGED vars
  <2>1. UNCHANGED <<topic, status, wish, killed, requeue>>
    BY <1>5 DEF RecoverAccept, PublishAsked, RetryAsked, SetQueue, PublishBatch, vars, rows, memory
  <2>2. \A r \in Runs : pc'[r] = pc[r] \/ (pc[r] = "none" /\ pc'[r] = "recover")
    <3>1. ASSUME NEW r \in Runs, RecoverAccept(r)
          PROVE  \A x \in Runs : pc'[x] = pc[x] \/ (pc[x] = "none" /\ pc'[x] = "recover")
      BY <1>0, <3>1 DEF RecoverAccept
    <3>2. CASE UNCHANGED pc
      BY <3>2
    <3>3. (\E r \in Runs : RecoverAccept(r)) \/ UNCHANGED pc
      BY <1>5 DEF PublishAsked, RetryAsked, SetQueue, PublishBatch, vars, memory
    <3> QED
      BY <3>1, <3>2, <3>3
  <2>3. SoftStopRequeues'
    BY <2>1 DEF Requeued, SoftStopRequeues, Exists
  <2>4. \A r \in Runs : status'[r] = status[r] \/
          (status[r] # "running" /\ status'[r] \notin {"running", "cancelled"})
    BY <2>1
  <2>5. \A r \in Runs : wish'[r] \in {wish[r], NoFlow}
    BY <2>1
  <2>6. UNCHANGED <<killed, requeue>>
    BY <2>1
  <2> QED
    BY ONLY TypeOK, Requeued, <2>2, <2>3, <2>4, <2>5, <2>6, AsideRequeues
<1>6. CASE Restart
  <2>1. PICK R \in SUBSET Running(Runs) :
          /\ status' = [r \in Runs |-> IF r \in R THEN "failed" ELSE status[r]]
          /\ pc' = [r \in Runs |-> IF r \in Running(Runs) \ R THEN "work" ELSE "none"]
          /\ killed' = {} /\ wish' = [r \in Runs |-> NoFlow]
    BY <1>6 DEF Restart
  <2>2. RunningIsDriven' /\ WishIsKnown' /\ UnmarkedIsOver' /\ SoftStopRequeues'
    BY <2>1 DEF RunningIsDriven, WishIsKnown, UnmarkedIsOver, SoftStopRequeues, Running
  <2>3. \A r \in Runs : Fresh(r)' => status[r] = "running"
    BY <2>1 DEF Fresh, Running
  <2>4. \A r \in Runs : status[r] = "running" => Fresh(r)
    BY DEF Requeued, RunningIsDriven, Fresh
  <2>5. NoRivals'
    BY <2>1, <2>3, <2>4 DEF Requeued, NoRivals, Rivals
  <2> QED
    BY <2>2, <2>5 DEF Requeued
<1> QED
  BY <1>1, <1>2, <1>3, <1>4, <1>5, <1>6, WorkerRequeues, CompleteRequeues, NoticeRequeues,
     KilledRequeues, SoftStops, UpdatesRequeue DEF Next

\* However stops, switches, retries and deletions follow each other: a topic
\* whose run stopped for a new flow waits under the flow asked for last.
THEOREM StoppedTopicWaits == Spec => []SoftStopRequeues
<1>1. Init => Requeued /\ Unwritten
  BY InitRequeued DEF Init, Unwritten
<1>2. TypeOK /\ Requeued /\ Unwritten /\ [Next]_vars => Requeued' /\ Unwritten'
  BY StepRequeues, ArticleEnds
<1>3. Requeued => SoftStopRequeues
  BY DEF Requeued
<1> QED
  BY <1>1, <1>2, <1>3, InitTyped, StepTyped, PTL DEF Spec
=============================================================================
