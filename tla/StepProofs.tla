------------------------------ MODULE StepProofs ------------------------------
(***************************************************************************)
(* Proofs about StepExecutor, for any setups and timeouts: its types, how  *)
(* often it submits and what a stop leaves it to do; then what is          *)
(* submitted again, which answers are used, and what an execution says of  *)
(* its task.                                                               *)
(***************************************************************************)
EXTENDS StepExecutor, TLAPS

-----------------------------------------------------------------------------
(* What a step of the system does to the tasks.                            *)

NewTask == [retry |-> retry, round |-> round, state |-> "queued", claimed |-> FALSE]

\* A task is added,
Grown ==
  /\ Len(tasks') = Len(tasks) + 1
  /\ \A k \in 1 .. Len(tasks) : tasks'[k] = tasks[k]
  /\ tasks'[Len(tasks) + 1] = NewTask

\* or all of them stay what they are of, and go on.
Kept ==
  /\ Len(tasks') = Len(tasks)
  /\ \A k \in 1 .. Len(tasks) :
       /\ tasks'[k].retry = tasks[k].retry
       /\ tasks'[k].round = tasks[k].round
       /\ tasks[k].state = "answered" => tasks'[k].state = "answered"
       /\ tasks[k].state # "queued" => tasks'[k].state # "queued"

LEMMA TaskMovesKeeps ==
  ASSUME tasks \in Seq(Task), Fetch \/ GetAnswer
  PROVE  /\ tasks' \in Seq(Task)
         /\ Kept
         /\ \A k \in 1 .. Len(tasks) : tasks'[k].claimed = tasks[k].claimed
<1>1. PICK from \in {"queued", "fetched"}, to \in {"fetched", "answered"} : TaskMoves(from, to)
  BY DEF Fetch, GetAnswer
<1>2. PICK i \in DOMAIN tasks :
        /\ tasks[i].state = from
        /\ tasks' = [tasks EXCEPT ![i].state = to]
  BY <1>1 DEF TaskMoves
<1>3. DOMAIN tasks = 1 .. Len(tasks) /\ Len(tasks) \in Nat
  OBVIOUS
<1>4. \A k \in 1 .. Len(tasks) : tasks[k] \in Task
  OBVIOUS
<1>5. /\ tasks' = [k \in 1 .. Len(tasks) |-> tasks'[k]]
      /\ \A k \in 1 .. Len(tasks) :
           tasks'[k] = IF k = i THEN [tasks[k] EXCEPT !.state = to] ELSE tasks[k]
  BY <1>2, <1>3
<1>6. \A k \in 1 .. Len(tasks) :
        /\ tasks'[k] \in Task
        /\ tasks'[k].retry = tasks[k].retry
        /\ tasks'[k].round = tasks[k].round
        /\ tasks'[k].claimed = tasks[k].claimed
        /\ tasks[k].state = "answered" => tasks'[k].state = "answered"
        /\ tasks[k].state # "queued" => tasks'[k].state # "queued"
  BY <1>2, <1>4, <1>5 DEF Task, TaskStates
<1>7. tasks' \in [1 .. Len(tasks) -> Task]
  BY <1>5, <1>6
<1>8. tasks' \in Seq(Task) /\ Len(tasks') = Len(tasks)
  BY <1>3, <1>7
<1> QED
  BY <1>6, <1>8 DEF Kept

LEMMA ClaimKeeps ==
  ASSUME tasks \in Seq(Task), Len(tasks) > 0, NEW seen \in BOOLEAN, tasks' = Claim(seen)
  PROVE  /\ tasks' \in Seq(Task)
         /\ Kept
         /\ \A k \in 1 .. Len(tasks) :
              /\ tasks'[k].state = tasks[k].state
              /\ tasks'[k].claimed =
                   IF k = Len(tasks) THEN tasks[k].claimed \/ seen ELSE tasks[k].claimed
<1>1. DOMAIN tasks = 1 .. Len(tasks) /\ Len(tasks) \in Nat /\ Len(tasks) \in 1 .. Len(tasks)
  OBVIOUS
<1>2. \A k \in 1 .. Len(tasks) : tasks[k] \in Task
  OBVIOUS
<1>3. /\ tasks' = [k \in 1 .. Len(tasks) |-> tasks'[k]]
      /\ \A k \in 1 .. Len(tasks) :
           tasks'[k] = IF k = Len(tasks)
                       THEN [tasks[k] EXCEPT !.claimed = tasks[k].claimed \/ seen] ELSE tasks[k]
  BY <1>1 DEF Claim, Current
<1>4. \A k \in 1 .. Len(tasks) :
        /\ tasks'[k] \in Task
        /\ tasks'[k].retry = tasks[k].retry
        /\ tasks'[k].round = tasks[k].round
        /\ tasks'[k].state = tasks[k].state
        /\ tasks'[k].claimed =
             IF k = Len(tasks) THEN tasks[k].claimed \/ seen ELSE tasks[k].claimed
  <2> SUFFICES ASSUME NEW k \in 1 .. Len(tasks)
               PROVE  /\ tasks'[k] \in Task
                      /\ tasks'[k].retry = tasks[k].retry
                      /\ tasks'[k].round = tasks[k].round
                      /\ tasks'[k].state = tasks[k].state
                      /\ tasks'[k].claimed =
                           IF k = Len(tasks) THEN tasks[k].claimed \/ seen ELSE tasks[k].claimed
    OBVIOUS
  <2>1. (tasks[k].claimed \/ seen) \in BOOLEAN
    OBVIOUS
  <2>2. CASE k = Len(tasks)
    BY <1>2, <1>3, <2>1, <2>2 DEF Task
  <2>3. CASE k # Len(tasks)
    BY <1>2, <1>3, <2>3
  <2> QED
    BY <2>2, <2>3
<1>5. tasks' \in [1 .. Len(tasks) -> Task]
  BY <1>3, <1>4
<1>6. tasks' \in Seq(Task) /\ Len(tasks') = Len(tasks)
  BY <1>1, <1>5
<1> QED
  BY <1>4, <1>6 DEF Kept

LEMMA NewTaskGrows ==
  ASSUME tasks \in Seq(Task), retry \in Nat, round \in Nat, tasks' = Append(tasks, NewTask)
  PROVE  tasks' \in Seq(Task) /\ Grown
<1>1. NewTask \in Task
  BY DEF NewTask, Task, TaskStates
<1> HIDE DEF NewTask
<1> QED
  BY <1>1 DEF Grown

-----------------------------------------------------------------------------
(* Types.                                                                  *)

Polling == pc \in {"poll", "decide", "confirm", "collect"}

\* Where a task is polled there is one, and where none is the locals of the
\* poll are as they were at first.
TypeInv ==
  /\ TypeOK
  /\ Polling => Len(tasks) > 0
  /\ ~Polling => heard = "nothing" /\ ~pulled /\ ~wasAlive

LEMMA SetupTypes ==
  ASSUME setup \in Setups
  PROVE  /\ setup.retries \in Nat \ {0}
         /\ setup.rounds \in Nat \ {0}
         /\ setup.attempts \in Nat \ {0}
BY SetupsAssumption DEF Setup, Positive

LEMMA SubmitGrows ==
  ASSUME TypeInv, Submit \/ SubmitBreaks
  PROVE  tasks' \in Seq(Task) /\ Grown
<1>1. tasks \in Seq(Task) /\ retry \in Nat /\ round \in Nat
  BY SetupTypes DEF TypeInv, TypeOK
<1>2. tasks' = Append(tasks, NewTask)
  BY DEF Submit, SubmitBreaks, NewTask
<1> QED
  BY <1>1, <1>2, NewTaskGrows

\* Every other step lets the tasks go on.
LEMMA OthersKeep ==
  ASSUME TypeInv, [Next]_vars, ~(Submit \/ SubmitBreaks)
  PROVE  tasks' \in Seq(Task) /\ Kept
<1>1. tasks \in Seq(Task) /\ pulled \in BOOLEAN
  BY DEF TypeInv, TypeOK
<1>2. CASE Fetch \/ GetAnswer
  BY <1>1, <1>2, TaskMovesKeeps
<1>3. CASE LookAround
  <2>1. PICK known \in BOOLEAN, heartbeat \in BOOLEAN :
          tasks' = Claim(known \/ heartbeat)
    BY <1>1, <1>3 DEF LookAround
  <2>2. Len(tasks) > 0
    BY <1>3 DEF LookAround, TypeInv, Polling
  <2>3. (known \/ heartbeat) \in BOOLEAN
    OBVIOUS
  <2> QED
    BY <1>1, <2>1, <2>2, <2>3, ClaimKeeps
<1>4. CASE Confirm
  <2>1. PICK seen \in BOOLEAN : tasks' = Claim(seen)
    BY <1>4 DEF Confirm
  <2>2. Len(tasks) > 0
    BY <1>4 DEF Confirm, TypeInv, Polling
  <2> QED
    BY <1>1, <2>1, <2>2, ClaimKeeps
<1>5. CASE UNCHANGED tasks
  BY <1>1, <1>5 DEF Kept
<1>6. ASSUME ~(Fetch \/ GetAnswer), ~LookAround, ~Confirm
      PROVE  UNCHANGED tasks
  BY <1>6 DEF Next, Worker, vars, RequestBreaks, NoticesStop, KeepWaiting, Resubmit, GiveUp,
              Sleep, TakeText, UseTools, Nudge, TakeError, RequestStop, StopRun, KillWorker
<1> QED
  BY <1>2, <1>3, <1>4, <1>5, <1>6

\* A round ends with the step, with a retry, or with nothing but empty answers.
LastRound(text) ==
  \/ /\ text # 0 /\ answer' = text
     /\ Ends("answered")
     /\ UNCHANGED <<effort, transcript>>
  \/ /\ retry < setup.retries
     /\ retry' = retry + 1
     /\ round' = 1 /\ attempt' = 1 /\ nudged' = FALSE
     /\ transcript' = <<>> /\ answer' = 0
     /\ pc' = "submit" /\ Unwatched
     /\ UNCHANGED <<setup, row, outcome>>
  \/ /\ answer' = 0
     /\ Ends("empty")
     /\ UNCHANGED <<effort, transcript>>

\* Or it leads to the next one.
NextRound(text) ==
  /\ round < setup.rounds
  /\ round' = round + 1 /\ attempt' = 1
  /\ nudged' \in BOOLEAN
  /\ transcript' = Append(transcript, Len(tasks))
  /\ answer' = text
  /\ pc' = "submit" /\ Unwatched
  /\ UNCHANGED <<setup, retry, row, outcome>>

Receives == TakeText \/ UseTools \/ Nudge

\* What is done with an answer that is no error.
LEMMA ReceiveSteps ==
  ASSUME TypeInv, Receives
  PROVE  /\ pc = "collect" /\ tasks[Len(tasks)].state = "answered"
         /\ UNCHANGED <<tasks, stop, late>>
         /\ \E text \in {0, Len(tasks), answer} : LastRound(text) \/ NextRound(text)
<1>1. nudged \in BOOLEAN /\ answer \in Nat /\ Len(tasks) \in Nat
  BY DEF TypeInv, TypeOK
<1>2. pc = "collect" /\ tasks[Len(tasks)].state = "answered"
  BY DEF Receives, TakeText, UseTools, Nudge, Responded, Response, Current
<1>3. UNCHANGED <<tasks, stop, late>>
  BY DEF Receives, TakeText, UseTools, Nudge
<1>4. ASSUME NEW text, Concludes(text)
      PROVE  LastRound(text)
  BY <1>4 DEF Concludes, LastRound
<1>5. ASSUME NEW text, Continues(text), round < setup.rounds => nudged' \in BOOLEAN
      PROVE  LastRound(text) \/ NextRound(text)
  BY <1>4, <1>5 DEF Continues, NextRound, Response, Current
<1>6. CASE TakeText
  <2>1. PICK reply \in Replies : Concludes(Body(reply))
    BY <1>6 DEF TakeText
  <2>2. Body(reply) \in {0, Len(tasks)}
    BY DEF Body, Response, Current
  <2> QED
    BY <1>2, <1>3, <1>4, <2>1, <2>2
<1>7. CASE UseTools
  <2>1. PICK reply \in Replies :
          Continues(Body(reply)) /\ (round < setup.rounds => UNCHANGED nudged)
    BY <1>7 DEF UseTools
  <2>2. Body(reply) \in {0, Len(tasks)}
    BY DEF Body, Response, Current
  <2> QED
    BY <1>1, <1>2, <1>3, <1>5, <2>1, <2>2
<1>8. CASE Nudge
  <2>1. Continues(answer) /\ (round < setup.rounds => nudged' = TRUE)
    BY <1>8 DEF Nudge
  <2> QED
    BY <1>2, <1>3, <1>5, <2>1
<1> QED
  BY <1>6, <1>7, <1>8 DEF Receives

\* The ways to end a step other than with a text.
Fails == SubmitBreaks \/ RequestBreaks \/ NoticesStop \/ GiveUp \/ TakeError \/ KillWorker

LEMMA FailSteps ==
  ASSUME TypeInv, Fails
  PROVE  /\ \E result \in Outcomes \ {"answered"} : Ends(result)
         /\ pc # "ended"
         /\ UNCHANGED <<effort, texts>> /\ stop' \in {stop, "closed"}
<1>1. CASE SubmitBreaks
  BY <1>1 DEF SubmitBreaks, Outcomes, Raised
<1>2. CASE RequestBreaks
  BY <1>2 DEF RequestBreaks, Outcomes, Raised
<1>3. CASE NoticesStop
  BY <1>3 DEF NoticesStop, Outcomes, Raised
<1>4. CASE GiveUp
  BY <1>4 DEF GiveUp, Outcomes, Raised
<1>5. CASE TakeError
  BY <1>5 DEF TakeError, Responded, Outcomes, Raised
<1>6. CASE KillWorker
  BY <1>6 DEF KillWorker, Outcomes, Raised
<1> QED
  BY <1>1, <1>2, <1>3, <1>4, <1>5, <1>6 DEF Fails

\* The locals of a poll that is over.
LEMMA UnwatchedTypes ==
  ASSUME Unwatched
  PROVE  /\ now' \in 0 .. MaxWait /\ fetchedAt' \in 0 .. MaxWait /\ aliveAt' \in 0 .. MaxWait
         /\ heard' = "nothing" /\ heard' \in TaskStates \cup {"nothing"}
         /\ pulled' \in BOOLEAN /\ alive' \in BOOLEAN /\ wasAlive' \in BOOLEAN
         /\ ~pulled' /\ ~wasAlive'
<1>1. 0 \in 0 .. MaxWait
  BY TimesAssumption DEF Positive
<1>2. now' = 0 /\ fetchedAt' = 0 /\ aliveAt' = 0 /\ heard' = "nothing"
  BY DEF Unwatched
<1>3. pulled' = FALSE /\ alive' = FALSE /\ wasAlive' = FALSE
  BY DEF Unwatched
<1>4. /\ pulled' \in BOOLEAN /\ alive' \in BOOLEAN /\ wasAlive' \in BOOLEAN
      /\ ~pulled' /\ ~wasAlive'
  BY <1>3
<1> QED
  BY <1>1, <1>2, <1>4

LEMMA TypeInit == Init => TypeInv
<1> SUFFICES ASSUME Init PROVE TypeInv
  OBVIOUS
<1>1. tasks \in Seq(Task) /\ transcript \in Seq(Nat)
  BY DEF Init
<1>2. MaxWait \in Nat
  BY TimesAssumption DEF Positive
<1>3. 1 \in 1 .. setup.retries /\ 1 \in 1 .. setup.rounds /\ 1 \in 1 .. setup.attempts
  BY SetupTypes DEF Init
<1>4. /\ setup \in Setups
      /\ retry \in 1 .. setup.retries /\ round \in 1 .. setup.rounds
      /\ attempt \in 1 .. setup.attempts
  BY <1>3 DEF Init
<1>5. /\ now \in 0 .. MaxWait /\ fetchedAt \in 0 .. MaxWait /\ aliveAt \in 0 .. MaxWait
      /\ answer \in Nat /\ late \in Nat
  BY <1>2 DEF Init
<1>6. /\ nudged \in BOOLEAN /\ pulled \in BOOLEAN /\ alive \in BOOLEAN /\ wasAlive \in BOOLEAN
      /\ ~pulled /\ ~wasAlive
  BY DEF Init
<1>7. /\ pc = "submit" /\ heard = "nothing" /\ row = "pending"
      /\ outcome = "none" /\ stop = "none"
  BY DEF Init
<1> QED
  BY <1>1, <1>4, <1>5, <1>6, <1>7 DEF TypeInv, TypeOK, Polling, Open

LEMMA TypeStep ==
  ASSUME TypeInv, [Next]_vars
  PROVE  TypeInv'
<1>1. /\ MaxWait \in Nat \ {0}
      /\ setup.retries \in Nat \ {0}
      /\ setup.rounds \in Nat \ {0}
      /\ setup.attempts \in Nat \ {0}
  BY TimesAssumption, SetupTypes DEF TypeInv, TypeOK, Positive
<1>2. tasks' \in Seq(Task) /\ Len(tasks') >= Len(tasks) /\ Len(tasks) \in Nat
  BY SubmitGrows, OthersKeep DEF Grown, Kept, TypeInv, TypeOK
<1> USE DEF Polling
<1>3. CASE Submit
  <2>1. Len(tasks') > 0
    BY <1>2, <1>3, SubmitGrows DEF Grown
  <2>2. late' \in Nat
    BY <1>3 DEF Submit, TypeInv, TypeOK
  <2> QED
    BY <1>2, <1>3, <2>1, <2>2 DEF Submit, TypeInv, TypeOK, effort, texts, watch, Open
<1>4. CASE Fails
  <2>1. late' \in Nat
    BY <1>4 DEF Fails, SubmitBreaks, RequestBreaks, NoticesStop, GiveUp, TakeError, KillWorker,
            TypeInv, TypeOK
  <2>2. PICK result \in Outcomes \ {"answered"} : Ends(result)
    BY <1>4, FailSteps
  <2>3. /\ outcome' \in Outcomes \cup {"none"}
        /\ row' \in Open \cup {"completed", "failed"}
        /\ pc' = "ended" /\ Unwatched
    BY <2>2 DEF Ends
  <2>4. UNCHANGED <<effort, texts>> /\ stop' \in {stop, "closed"}
    BY <1>4, FailSteps
  <2> QED
    BY <1>2, <2>1, <2>3, <2>4, UnwatchedTypes DEF TypeInv, TypeOK, effort, texts
<1>5. CASE LookAround
  <2>1. PICK status \in {heard, tasks[Current].state, "nothing"}, asked \in BOOLEAN, beats \in BOOLEAN :
          LET known == pulled \/ status \in {"fetched", "answered"}
          IN  /\ heard' = status
              /\ alive' = IF asked THEN beats ELSE alive
              /\ wasAlive' = (wasAlive \/ (asked /\ beats))
              /\ aliveAt' = IF asked /\ beats THEN now ELSE aliveAt
              /\ pulled' = known
              /\ fetchedAt' = IF known /\ ~pulled THEN now ELSE fetchedAt
              /\ row' \in IF known /\ ~pulled
                          THEN Marked({"submitted", "waiting"}, "pulled") ELSE {row}
    BY <1>5 DEF LookAround
  <2>2. tasks[Current].state \in TaskStates
    <3>1. tasks \in Seq(Task) /\ Len(tasks) \in 1 .. Len(tasks)
      BY <1>2, <1>5 DEF LookAround, TypeInv, TypeOK
    <3>2. tasks[Current] \in Task
      BY <3>1 DEF Current
    <3> QED
      BY <3>2 DEF Task
  <2>3. /\ heard' \in TaskStates \cup {"nothing"}
        /\ alive' \in BOOLEAN
        /\ aliveAt' \in 0 .. MaxWait
        /\ fetchedAt' \in 0 .. MaxWait
        /\ row' \in Open \cup {"completed", "failed"}
    BY <2>1, <2>2 DEF TypeInv, TypeOK, Marked, Open
  <2>4. wasAlive' \in BOOLEAN /\ pulled' \in BOOLEAN
    BY <2>1
  <2>5. /\ Len(tasks') > 0 /\ pc' = "decide"
        /\ UNCHANGED <<effort, texts, now, outcome, stop, late>>
    BY <1>2, <1>5 DEF LookAround, TypeInv
  <2> QED
    BY <1>2, <2>3, <2>4, <2>5 DEF TypeInv, TypeOK, effort, texts
<1>6. CASE KeepWaiting
  BY <1>2, <1>6 DEF KeepWaiting, MarkWaiting, Marked, TypeInv, TypeOK, effort, texts, watch, Open
<1>7. CASE Resubmit
  <2>1. attempt' \in 1 .. setup.attempts
    BY <1>1, <1>7 DEF Resubmit, MayResubmit, TypeInv, TypeOK
  <2>2. /\ pc' = "submit" /\ Unwatched
        /\ UNCHANGED <<setup, retry, round, nudged, transcript, answer, row, outcome, stop, late>>
    BY <1>7 DEF Resubmit, texts
  <2> QED
    BY <1>2, <2>1, <2>2, UnwatchedTypes DEF TypeInv, TypeOK
<1>8. CASE Confirm
  <2>1. PICK seen \in BOOLEAN :
          /\ pulled' = seen
          /\ fetchedAt' = IF seen THEN now ELSE fetchedAt
          /\ row' \in IF seen THEN Marked({"submitted", "waiting"}, "pulled")
                      ELSE IF now > 0 THEN Marked({"submitted"}, "waiting") ELSE {row}
    BY <1>8 DEF Confirm
  <2>2. pulled' \in BOOLEAN /\ fetchedAt' \in 0 .. MaxWait /\ row' \in Open \cup {"completed", "failed"}
    BY <2>1 DEF TypeInv, TypeOK, Marked, Open
  <2>3. /\ Len(tasks') > 0 /\ pc' = "collect"
        /\ UNCHANGED <<effort, texts, now, heard, alive, wasAlive, aliveAt, outcome, stop, late>>
    BY <1>2, <1>8 DEF Confirm, TypeInv
  <2> QED
    BY <1>2, <2>2, <2>3 DEF TypeInv, TypeOK, effort, texts
<1>9. CASE Sleep
  <2>1. now' \in 0 .. MaxWait
    BY <1>1, <1>9, TimesAssumption DEF Sleep, TypeInv, TypeOK, Positive
  <2> QED
    BY <1>2, <1>9, <2>1 DEF Sleep, TypeInv, TypeOK, effort, texts
<1>10. CASE Receives
  <2>1. PICK text \in {0, Len(tasks), answer} : LastRound(text) \/ NextRound(text)
    BY <1>10, ReceiveSteps
  <2>2. text \in Nat /\ transcript \in Seq(Nat)
    BY <1>2 DEF TypeInv, TypeOK
  <2>3. transcript' \in Seq(Nat) /\ answer' \in Nat
    <3>1. Append(transcript, Len(tasks)) \in Seq(Nat) /\ <<>> \in Seq(Nat)
      BY <1>2, <2>2
    <3>2. CASE LastRound(text)
      <4>1. transcript' = transcript \/ transcript' = <<>>
        BY <3>2 DEF LastRound
      <4>2. answer' = text \/ answer' = 0
        BY <3>2 DEF LastRound
      <4>3. transcript' \in Seq(Nat)
        BY <2>2, <3>1, <4>1, Zenon
      <4>4. answer' \in Nat
        BY <2>2, <4>2
      <4> QED
        BY <4>3, <4>4
    <3>3. CASE NextRound(text)
      BY <2>2, <3>1, <3>3 DEF NextRound
    <3> QED
      BY <2>1, <3>2, <3>3
  <2>4. /\ setup' = setup
        /\ retry' \in 1 .. setup.retries
        /\ round' \in 1 .. setup.rounds
        /\ attempt' \in 1 .. setup.attempts
        /\ nudged' \in BOOLEAN
    <3>1. /\ retry \in 1 .. setup.retries /\ round \in 1 .. setup.rounds
          /\ attempt \in 1 .. setup.attempts /\ nudged \in BOOLEAN
      BY DEF TypeInv, TypeOK
    <3>2. CASE LastRound(text)
      <4>1. /\ setup' = setup
            /\ retry' = retry \/ (retry < setup.retries /\ retry' = retry + 1)
            /\ round' = round \/ round' = 1
            /\ attempt' = attempt \/ attempt' = 1
            /\ nudged' = nudged \/ nudged' = FALSE
        BY <3>2 DEF LastRound, effort
      <4>2. /\ retry' \in 1 .. setup.retries /\ round' \in 1 .. setup.rounds
            /\ attempt' \in 1 .. setup.attempts
        BY <1>1, <3>1, <4>1
      <4>3. nudged' \in BOOLEAN
        BY <3>1, <4>1
      <4> QED
        BY <4>1, <4>2, <4>3
    <3>3. CASE NextRound(text)
      BY <1>1, <3>1, <3>3 DEF NextRound
    <3> QED
      BY <2>1, <3>2, <3>3
  <2>5. /\ pc' \in {"submit", "ended"} /\ Unwatched
        /\ row' \in Open \cup {"completed", "failed"}
        /\ outcome' \in Outcomes \cup {"none"}
    BY <2>1 DEF LastRound, NextRound, Ends, TypeInv, TypeOK, Outcomes, Raised
  <2>6. UNCHANGED <<tasks, stop, late>> /\ setup' \in Setups
    BY <1>10, <2>4, ReceiveSteps DEF TypeInv, TypeOK
  <2>7. stop' \in {"none", "flagged", "closed"} /\ late' \in Nat
    BY <2>6 DEF TypeInv, TypeOK
  <2> QED
    BY <1>2, <2>3, <2>4, <2>5, <2>6, <2>7, UnwatchedTypes DEF TypeInv, TypeOK
<1>11. CASE Fetch \/ GetAnswer
  BY <1>2, <1>11 DEF Fetch, GetAnswer, TaskMoves, TypeInv, TypeOK, effort, texts, watch
<1>12. CASE RequestStop \/ StopRun
  BY <1>2, <1>12 DEF RequestStop, StopRun, TypeInv, TypeOK, effort, texts, watch
<1>13. CASE UNCHANGED vars
  BY <1>13 DEF TypeInv, TypeOK, vars, effort, texts, watch
<1> QED
  BY <1>3, <1>4, <1>5, <1>6, <1>7, <1>8, <1>9, <1>10, <1>11, <1>12, <1>13
     DEF Next, Worker, Fails, Receives

\* For any setups and timeouts, tasks, texts and the marks of the execution keep
\* their types.  execute_step, StepTracer
THEOREM TypeCorrect == Spec => []TypeOK
<1>1. TypeInv => TypeOK
  BY DEF TypeInv
<1>2. TypeInv /\ [Next]_vars => TypeInv'
  BY TypeStep
<1> QED
  BY <1>1, <1>2, TypeInit, PTL DEF Spec

-----------------------------------------------------------------------------
(* Stops, and how an execution is left.                                    *)

\* A task that was submitted under the flag is polled next, and the stop is
\* noticed then; once a hard stop has cleared the flag nothing is counted.
StopInv ==
  \/ late = 0
  \/ late = 1 /\ (stop = "closed" \/ (stop = "flagged" /\ pc \in {"poll", "ended"}))

LEMMA StopStep ==
  ASSUME TypeInv, StopInv, [Next]_vars
  PROVE  StopInv'
<1> USE DEF StopInv, Flagged
<1>1. CASE Submit \/ SubmitBreaks
  BY <1>1 DEF Submit, SubmitBreaks, Ends
<1>2. CASE RequestBreaks \/ NoticesStop \/ GiveUp \/ TakeError
  BY <1>2 DEF RequestBreaks, NoticesStop, GiveUp, TakeError, Responded, Ends
<1>3. CASE LookAround
  BY <1>3 DEF LookAround
<1>4. CASE KeepWaiting \/ Resubmit \/ Confirm \/ Sleep
  BY <1>4 DEF KeepWaiting, Resubmit, Confirm, Sleep
<1>5. CASE Receives
  BY <1>5, ReceiveSteps
<1>6. CASE Fetch \/ GetAnswer
  BY <1>6 DEF Fetch, GetAnswer, TaskMoves
<1>7. CASE RequestStop \/ StopRun \/ KillWorker
  BY <1>7 DEF RequestStop, StopRun, KillWorker
<1>8. CASE UNCHANGED vars
  BY <1>8 DEF vars
<1> QED
  BY <1>1, <1>2, <1>3, <1>4, <1>5, <1>6, <1>7, <1>8 DEF Next, Worker, Receives

\* While the flag of a stop stands at most one task is submitted, whatever hard
\* stops, with or without the worker, come before and after.
\* execute_step, _poll_step_response
THEOREM OneTaskWhileFlagged == Spec => []FlagAllowsOneTask
<1>1. Init => StopInv
  BY DEF Init, StopInv
<1>2. TypeInv /\ StopInv /\ [Next]_vars => TypeInv' /\ StopInv'
  BY TypeStep, StopStep
<1>3. StopInv => FlagAllowsOneTask
  BY DEF StopInv, FlagAllowsOneTask
<1> QED
  BY <1>1, <1>2, <1>3, TypeInit, PTL DEF Spec

LEMMA RowStep ==
  ASSUME TypeInv, RowTellsOutcome, [Next]_vars
  PROVE  RowTellsOutcome'
<1> USE DEF RowTellsOutcome
<1>1. CASE Submit \/ LookAround \/ KeepWaiting \/ Resubmit \/ Confirm \/ Sleep
  BY <1>1 DEF Submit, LookAround, KeepWaiting, Resubmit, Confirm, Sleep
<1>2. CASE Fails
  BY <1>2, FailSteps DEF Ends
<1>3. CASE Receives
  <2>1. PICK text \in {0, Len(tasks), answer} : LastRound(text) \/ NextRound(text)
    BY <1>3, ReceiveSteps
  <2> QED
    BY <2>1 DEF LastRound, NextRound, Ends
<1>4. CASE Fetch \/ GetAnswer
  BY <1>4 DEF Fetch, GetAnswer, TaskMoves
<1>5. CASE RequestStop \/ StopRun
  BY <1>5 DEF RequestStop, StopRun, Open, texts
<1>6. CASE UNCHANGED vars
  BY <1>6 DEF vars, texts
<1> QED
  BY <1>1, <1>2, <1>3, <1>4, <1>5, <1>6 DEF Next, Worker, Fails, Receives

\* When a step is over its execution is closed, in the way that fits what the
\* step returned or raised.  execute_step, run_step_from_context
THEOREM RowIsClosed == Spec => []RowTellsOutcome
<1>1. Init => RowTellsOutcome
  BY DEF Init, RowTellsOutcome
<1>2. TypeInv /\ RowTellsOutcome /\ [Next]_vars => TypeInv' /\ RowTellsOutcome'
  BY TypeStep, RowStep
<1> QED
  BY <1>1, <1>2, TypeInit, PTL DEF Spec

-----------------------------------------------------------------------------
(* The number of submissions.                                              *)

\* A task is submitted for every attempt of the current round that has begun,
\* and at most MaxAttempts for every earlier round.
Begun == IF pc = "submit" THEN attempt - 1 ELSE attempt

CountInv ==
  Len(tasks) <= (retry - 1) * (setup.rounds * setup.attempts)
                + ((round - 1) * setup.attempts + Begun)

LEMMA OneMore ==
  ASSUME NEW n \in Nat \ {0}, NEW a \in Nat
  PROVE  n * a = (n - 1) * a + a
OBVIOUS

LEMMA OneLess == \A n \in Nat : n >= 1 => n - 1 \in Nat
OBVIOUS

LEMMA Product ==
  ASSUME NEW n \in Nat, NEW m \in Nat
  PROVE  n * m \in Nat
OBVIOUS

LEMMA AtMost ==
  ASSUME NEW n \in Nat, NEW m \in Nat, n <= m, NEW a \in Nat
  PROVE  n * a <= m * a
OBVIOUS

LEMMA CountStep ==
  ASSUME TypeInv, CountInv, [Next]_vars
  PROVE  CountInv'
<1>1. /\ setup.retries \in Nat \ {0}
      /\ setup.rounds \in Nat \ {0}
      /\ setup.attempts \in Nat \ {0}
      /\ retry \in 1 .. setup.retries /\ round \in 1 .. setup.rounds
      /\ attempt \in 1 .. setup.attempts
      /\ Len(tasks) \in Nat
  BY SetupTypes DEF TypeInv, TypeOK
<1> DEFINE total == setup.rounds * setup.attempts
           early == (retry - 1) * total
           done  == (round - 1) * setup.attempts
<1>2. total \in Nat /\ early \in Nat /\ done \in Nat
  <2>1. retry - 1 \in Nat /\ round - 1 \in Nat /\ setup.rounds \in Nat /\ setup.attempts \in Nat
    BY <1>1
  <2>2. total \in Nat
    BY <2>1, Product
  <2> HIDE DEF total
  <2> QED
    BY <2>1, <2>2, Product
<1>3. Len(tasks) <= early + (done + Begun)
  BY DEF CountInv
<1>4. ASSUME UNCHANGED <<setup, retry, round>>, Len(tasks') <= Len(tasks) + (Begun' - Begun)
      PROVE  CountInv'
  <2>1. Begun \in Nat /\ Begun' \in Nat /\ Len(tasks') \in Nat
    <3>1. TypeInv'
      BY TypeStep
    <3>2. attempt' \in 1 .. setup.attempts
      BY <1>4, <3>1 DEF TypeInv, TypeOK
    <3>3. Len(tasks') \in Nat
      <4>1. tasks' \in Seq(Task)
        BY <3>1 DEF TypeInv, TypeOK
      <4> QED
        BY <4>1
    <3>4. Begun \in Nat
      BY <1>1 DEF Begun
    <3>5. attempt' \in Nat /\ attempt' >= 1
      BY <1>1, <3>2
    <3>6. Begun' \in Nat
      <4>1. attempt' - 1 \in Nat
        BY <3>5, OneLess
      <4>2. Begun' = IF pc' = "submit" THEN attempt' - 1 ELSE attempt'
        BY DEF Begun
      <4> QED
        BY <3>5, <4>1, <4>2
    <3> QED
      BY <3>3, <3>4, <3>6
  <2>2. early' = early /\ done' = done
    BY <1>4
  <2> HIDE DEF early, done
  <2>3. Len(tasks') <= early + (done + Begun')
    BY <1>2, <1>3, <1>4, <2>1
  <2> QED
    BY <2>2, <2>3 DEF CountInv, early, done
<1>5. CASE Submit
  BY <1>1, <1>4, <1>5, SubmitGrows DEF Submit, Grown, Begun, effort
<1>6. CASE Fails
  <2>1. /\ UNCHANGED <<setup, retry, round, attempt>>
        /\ pc' = "ended"
    BY <1>6, FailSteps DEF Ends, effort
  <2>2. CASE SubmitBreaks
    BY <1>1, <1>4, <2>1, <2>2, SubmitGrows DEF SubmitBreaks, Grown, Begun
  <2>3. CASE ~SubmitBreaks
    <3>1. UNCHANGED tasks
      BY <1>6, <2>3 DEF Fails, RequestBreaks, NoticesStop, GiveUp, TakeError, KillWorker
    <3> QED
      BY <1>1, <1>4, <2>1, <3>1 DEF Begun
  <2> QED
    BY <2>2, <2>3
<1>7. CASE Resubmit
  BY <1>1, <1>4, <1>7 DEF Resubmit, Begun
<1>8. CASE Receives
  <2>1. PICK text \in {0, Len(tasks), answer} : LastRound(text) \/ NextRound(text)
    BY <1>8, ReceiveSteps
  <2>2. pc = "collect" /\ UNCHANGED tasks
    BY <1>8, ReceiveSteps
  <2>3. Len(tasks) <= early + (done + setup.attempts)
    <3> HIDE DEF early, done
    <3> QED
      BY <1>1, <1>2, <1>3, <2>2 DEF Begun
  <2>4. round * setup.attempts = done + setup.attempts
    BY <1>1, OneMore
  <2>5. CASE LastRound(text)
    <3>1. CASE retry' = retry + 1
      <4>1. /\ setup' = setup /\ round' = 1 /\ attempt' = 1 /\ pc' = "submit"
        BY <1>1, <2>5, <3>1 DEF LastRound, effort
      <4>2. round * setup.attempts <= total
        BY <1>1, AtMost
      <4>3. retry * total = early + total
        BY <1>1, <1>2, OneMore
      <4>4. Len(tasks) <= retry * total
        <5> HIDE DEF early, done, total
        <5>1. round * setup.attempts \in Nat /\ retry * total \in Nat
          BY <1>1, <1>2
        <5> QED
          BY <1>1, <1>2, <2>3, <2>4, <4>2, <4>3, <5>1
      <4>5. (retry' - 1) * (setup'.rounds * setup'.attempts) = retry * total
        BY <1>1, <3>1, <4>1
      <4>6. (round' - 1) * setup'.attempts + Begun' = 0
        BY <1>1, <4>1 DEF Begun
      <4>7. retry * total \in Nat
        BY <1>1, <1>2
      <4> HIDE DEF total
      <4> QED
        BY <2>2, <4>4, <4>5, <4>6, <4>7 DEF CountInv
    <3>2. CASE retry' # retry + 1
      <4>1. UNCHANGED <<setup, retry, round, attempt>> /\ pc' = "ended"
        BY <2>5, <3>2 DEF LastRound, Ends, effort
      <4> QED
        BY <1>1, <1>4, <2>2, <4>1 DEF Begun
    <3> QED
      BY <3>1, <3>2
  <2>6. CASE NextRound(text)
    <3>1. /\ UNCHANGED <<setup, retry>> /\ round' = round + 1 /\ attempt' = 1 /\ pc' = "submit"
      BY <2>6 DEF NextRound
    <3>2. (round' - 1) * setup'.attempts + Begun' = done + setup.attempts
      BY <1>1, <2>4, <3>1 DEF Begun
    <3>3. (retry' - 1) * (setup'.rounds * setup'.attempts) = early
      BY <3>1
    <3> HIDE DEF early, done
    <3> QED
      BY <2>2, <2>3, <3>2, <3>3 DEF CountInv
  <2> QED
    BY <2>1, <2>5, <2>6
<1>9. CASE LookAround \/ KeepWaiting \/ Confirm \/ Sleep \/ Fetch \/ GetAnswer
  <2>1. /\ UNCHANGED <<setup, retry, round, attempt>>
        /\ (pc # "submit" /\ pc' # "submit") \/ UNCHANGED pc
    BY <1>9 DEF LookAround, KeepWaiting, Confirm, Sleep, Fetch, GetAnswer, TaskMoves, effort
  <2>2. Len(tasks') = Len(tasks)
    BY <1>1, <1>9, OthersKeep, SubmitGrows DEF Kept, LookAround, KeepWaiting, Confirm, Sleep, Fetch,
         GetAnswer, TaskMoves, Submit, SubmitBreaks, Ends
  <2> QED
    BY <1>1, <1>4, <2>1, <2>2 DEF Begun
<1>10. CASE RequestStop \/ StopRun \/ UNCHANGED vars
  <2>1. UNCHANGED <<setup, retry, round, attempt, pc, tasks>>
    BY <1>10 DEF RequestStop, StopRun, vars, effort
  <2> QED
    BY <1>1, <1>4, <2>1 DEF Begun
<1> QED
  BY <1>5, <1>6, <1>7, <1>8, <1>9, <1>10 DEF Next, Worker, Fails, Receives

\* However answers come and fail to come, a step is submitted at most as often
\* as retries, rounds and attempts allow.  _submit_and_wait_for_round, execute_step
THEOREM BoundedSubmissions == Spec => []SubmissionsBounded
<1>1. Init => CountInv
  <2> SUFFICES ASSUME Init PROVE CountInv
    OBVIOUS
  <2>1. (retry - 1) * (setup.rounds * setup.attempts) = 0 /\ (round - 1) * setup.attempts = 0
    BY SetupTypes DEF Init
  <2> QED
    BY <2>1 DEF Init, CountInv, Begun
<1>2. TypeInv /\ CountInv /\ [Next]_vars => TypeInv' /\ CountInv'
  BY TypeStep, CountStep
<1>3. TypeInv /\ CountInv => SubmissionsBounded
  <2> SUFFICES ASSUME TypeInv, CountInv PROVE SubmissionsBounded
    OBVIOUS
  <2>1. /\ setup.retries \in Nat \ {0}
        /\ setup.rounds \in Nat \ {0}
        /\ setup.attempts \in Nat \ {0}
        /\ retry \in 1 .. setup.retries /\ round \in 1 .. setup.rounds
        /\ attempt \in 1 .. setup.attempts
        /\ Len(tasks) \in Nat
    BY SetupTypes DEF TypeInv, TypeOK
  <2> DEFINE total == setup.rounds * setup.attempts
  <2>2. total \in Nat
    BY <2>1, Product
  <2>3. round * setup.attempts = (round - 1) * setup.attempts + setup.attempts
    BY <2>1, OneMore
  <2>4. round * setup.attempts <= total
    BY <2>1, AtMost
  <2>5. retry * total = (retry - 1) * total + total
    BY <2>1, <2>2, OneMore
  <2>6. retry * total <= setup.retries * total
    BY <2>1, <2>2, AtMost
  <2>7. Len(tasks) <= (retry - 1) * total + ((round - 1) * setup.attempts + Begun)
    BY DEF CountInv
  <2>8. Begun \in Nat /\ Begun <= setup.attempts
    BY <2>1 DEF Begun
  <2>9. /\ (retry - 1) * total \in Nat /\ (round - 1) * setup.attempts \in Nat
        /\ retry * total \in Nat /\ setup.retries * total \in Nat /\ round * setup.attempts \in Nat
    <3>1. retry - 1 \in Nat /\ round - 1 \in Nat
      BY <2>1
    <3> HIDE DEF total
    <3> QED
      BY <2>1, <2>2, <3>1, Product
  <2> HIDE DEF total
  <2>10. Len(tasks) <= setup.retries * total
    <3> DEFINE early == (retry - 1) * total
               done  == (round - 1) * setup.attempts
               so    == round * setup.attempts
               all   == setup.retries * total
               until == retry * total
    <3>1. /\ early \in Nat /\ done \in Nat /\ so \in Nat /\ all \in Nat /\ until \in Nat
          /\ so = done + setup.attempts /\ so <= total /\ until = early + total
          /\ until <= all /\ Len(tasks) <= early + (done + Begun)
      BY <2>3, <2>4, <2>5, <2>6, <2>7, <2>9
    <3> SUFFICES Len(tasks) <= all
      OBVIOUS
    <3> HIDE DEF early, done, so, all, until
    <3> QED
      BY <2>1, <2>2, <2>8, <3>1
  <2> QED
    BY <2>10 DEF SubmissionsBounded, Current, total
<1> QED
  BY <1>1, <1>2, <1>3, TypeInit, PTL DEF Spec


-----------------------------------------------------------------------------
(* Where the tasks stand.                                                  *)

\* No task is of a later retry or round than the executor, and the one that is
\* polled is of its own.
PlaceInv ==
  /\ \A i \in 1 .. Len(tasks) :
       /\ tasks[i].retry <= retry
       /\ tasks[i].retry = retry => tasks[i].round <= round
  /\ Polling => tasks[Len(tasks)].retry = retry /\ tasks[Len(tasks)].round = round

\* Where the executor stands after a step.
LEMMA Moves ==
  ASSUME TypeInv, [Next]_vars
  PROVE  \/ UNCHANGED <<retry, round>>
         \/ /\ pc = "collect" /\ pc' = "submit" /\ UNCHANGED tasks
            /\ \/ retry' = retry + 1
               \/ retry' = retry /\ round' = round + 1
<1>1. CASE Receives
  <2>1. PICK text \in {0, Len(tasks), answer} : LastRound(text) \/ NextRound(text)
    BY <1>1, ReceiveSteps
  <2>2. pc = "collect" /\ UNCHANGED tasks
    BY <1>1, ReceiveSteps
  <2>3. CASE LastRound(text)
    BY <2>2, <2>3 DEF LastRound, effort
  <2>4. CASE NextRound(text)
    BY <2>2, <2>4 DEF NextRound
  <2> QED
    BY <2>1, <2>3, <2>4
<1>2. CASE Fails
  BY <1>2, FailSteps DEF effort
<1>3. ASSUME ~Receives, ~Fails
      PROVE  UNCHANGED <<retry, round>>
  BY <1>3 DEF Next, Worker, Receives, Fails, vars, effort, Submit, LookAround, KeepWaiting,
              Resubmit, Confirm, Sleep, Fetch, GetAnswer, TaskMoves, RequestStop, StopRun
<1> QED
  BY <1>1, <1>2, <1>3

\* A task is polled after the step if it was before, or has just been submitted.
LEMMA PollingBegins ==
  ASSUME TypeInv, [Next]_vars, Polling'
  PROVE  Submit \/ (Polling /\ ~SubmitBreaks)
<1>1. CASE Receives
  <2>1. PICK text \in {0, Len(tasks), answer} : LastRound(text) \/ NextRound(text)
    BY <1>1, ReceiveSteps
  <2> QED
    BY <2>1 DEF LastRound, NextRound, Ends, Polling
<1>2. CASE Fails
  BY <1>2, FailSteps DEF Polling, Ends
<1>3. ASSUME ~Receives, ~Fails, ~Submit
      PROVE  Polling
  BY <1>3 DEF Next, Worker, Receives, Fails, vars, Polling, LookAround, KeepWaiting,
              Resubmit, Confirm, Sleep, Fetch, GetAnswer, TaskMoves, RequestStop, StopRun
<1>4. SubmitBreaks => pc' = "ended"
  BY DEF SubmitBreaks, Ends
<1> QED
  BY <1>1, <1>2, <1>3, <1>4 DEF Polling

LEMMA PlaceStep ==
  ASSUME TypeInv, PlaceInv, [Next]_vars
  PROVE  PlaceInv'
<1>1. /\ tasks \in Seq(Task) /\ Len(tasks) \in Nat
      /\ retry \in Nat /\ round \in Nat
      /\ \A i \in 1 .. Len(tasks) : tasks[i].retry \in Nat /\ tasks[i].round \in Nat
  <2>1. tasks \in Seq(Task) /\ retry \in Nat /\ round \in Nat
    BY SetupTypes DEF TypeInv, TypeOK
  <2>2. \A i \in 1 .. Len(tasks) : tasks[i] \in Task
    BY <2>1
  <2> QED
    BY <2>1, <2>2 DEF Task
<1>2. CASE Submit \/ SubmitBreaks
  <2>1. Grown
    BY <1>2, SubmitGrows
  <2>2. UNCHANGED <<retry, round>>
    BY <1>2 DEF Submit, SubmitBreaks, effort
  <2>3. tasks'[Len(tasks')].retry = retry /\ tasks'[Len(tasks')].round = round
    BY <2>1 DEF Grown, NewTask
  <2>4. \A i \in 1 .. Len(tasks') : i \in 1 .. Len(tasks) \/ i = Len(tasks')
    BY <1>1, <2>1 DEF Grown
  <2> QED
    BY <1>1, <2>1, <2>2, <2>3, <2>4 DEF PlaceInv, Grown
<1>3. CASE ~(Submit \/ SubmitBreaks)
  <2>1. Kept
    BY <1>3, OthersKeep
  <2>2. CASE UNCHANGED <<retry, round>>
    <3>1. Polling' => Polling /\ Len(tasks) \in 1 .. Len(tasks)
      BY <1>1, <1>3, PollingBegins DEF TypeInv
    <3> QED
      BY <1>1, <2>1, <2>2, <3>1 DEF PlaceInv, Kept
  <2>3. CASE ~UNCHANGED <<retry, round>>
    <3>1. /\ pc' = "submit" /\ UNCHANGED tasks
          /\ retry' = retry + 1 \/ (retry' = retry /\ round' = round + 1)
      BY <2>3, Moves
    <3> QED
      BY <1>1, <3>1 DEF PlaceInv, Polling
  <2> QED
    BY <2>2, <2>3
<1> QED
  BY <1>2, <1>3

LEMMA PlaceInit == Init => PlaceInv
BY DEF Init, PlaceInv, Polling

\* Facts about single tasks, for any module that reasons about them.
LEMMA TaskTypes ==
  ASSUME TypeInv
  PROVE  /\ tasks \in Seq(Task) /\ Len(tasks) \in Nat
         /\ retry \in Nat /\ round \in Nat
         /\ Polling => Len(tasks) \in 1 .. Len(tasks)
         /\ \A i \in 1 .. Len(tasks) : tasks[i].retry \in Nat /\ tasks[i].round \in Nat
<1>1. tasks \in Seq(Task) /\ retry \in Nat /\ round \in Nat
  BY SetupTypes DEF TypeInv, TypeOK
<1>2. \A i \in 1 .. Len(tasks) : tasks[i] \in Task
  BY <1>1
<1>3. Polling => Len(tasks) \in 1 .. Len(tasks)
  BY <1>1 DEF TypeInv
<1> QED
  BY <1>1, <1>2, <1>3 DEF Task

-----------------------------------------------------------------------------
(* What is submitted again.                                                *)

Same(i, j) == tasks[i].retry = tasks[j].retry /\ tasks[i].round = tasks[j].round

\* The task that is polled is known to be claimed, and where one is about to be
\* submitted none of its round is.
ClaimInv ==
  /\ \A i, j \in 1 .. Len(tasks) : i < j /\ tasks[i].claimed => ~Same(i, j)
  /\ pc = "submit" =>
       \A i \in 1 .. Len(tasks) :
         tasks[i].claimed => ~(tasks[i].retry = retry /\ tasks[i].round = round)
  /\ Polling /\ tasks[Len(tasks)].claimed => pulled \/ wasAlive
  /\ pc = "confirm" => ~pulled

\* Only the latest task may become claimed.
Unclaimed ==
  /\ Kept
  /\ \A k \in 1 .. Len(tasks) : k < Len(tasks) => tasks'[k].claimed = tasks[k].claimed

LEMMA PairsStay ==
  ASSUME TypeInv, ClaimInv, Unclaimed
  PROVE  \A i, j \in 1 .. Len(tasks') : i < j /\ tasks'[i].claimed => ~Same(i, j)'
<1>1. Len(tasks) \in Nat /\ Len(tasks') = Len(tasks)
  BY TaskTypes DEF Unclaimed, Kept
<1> SUFFICES ASSUME NEW i \in 1 .. Len(tasks), NEW j \in 1 .. Len(tasks), i < j, tasks'[i].claimed
             PROVE  ~Same(i, j)'
  BY <1>1
<1>2. tasks'[i].claimed = tasks[i].claimed
  <2>1. i < Len(tasks)
    BY <1>1
  <2> QED
    BY <2>1 DEF Unclaimed
<1>3. ~Same(i, j)
  BY <1>2 DEF ClaimInv
<1> QED
  BY <1>3 DEF Same, Unclaimed, Kept

LEMMA ClaimStep ==
  ASSUME TypeInv, PlaceInv, ClaimInv, [Next]_vars
  PROVE  ClaimInv'
<1>1. /\ tasks \in Seq(Task) /\ Len(tasks) \in Nat
      /\ Polling => Len(tasks) \in 1 .. Len(tasks)
  BY TaskTypes
<1>2. CASE Submit \/ SubmitBreaks
  <2>1. Grown
    BY <1>2, SubmitGrows
  <2>2. ~tasks'[Len(tasks')].claimed
    BY <1>1, <2>1 DEF Grown, NewTask
  <2>3. \A i \in 1 .. Len(tasks') : i \in 1 .. Len(tasks) \/ i = Len(tasks')
    BY <1>1, <2>1 DEF Grown
  <2>4. pc = "submit" /\ pc' \in {"poll", "ended"}
    BY <1>2 DEF Submit, SubmitBreaks, Ends
  <2>5. ASSUME NEW i \in 1 .. Len(tasks'), NEW j \in 1 .. Len(tasks'), i < j, tasks'[i].claimed
        PROVE  ~Same(i, j)'
    <3>1. i \in 1 .. Len(tasks) /\ tasks'[i] = tasks[i]
      BY <2>1, <2>2, <2>3, <2>5 DEF Grown
    <3>2. CASE j = Len(tasks')
      <4>1. tasks'[j] = NewTask
        BY <1>1, <2>1, <3>2 DEF Grown
      <4>2. ~(tasks[i].retry = retry /\ tasks[i].round = round)
        BY <2>4, <2>5, <3>1 DEF ClaimInv
      <4> QED
        BY <3>1, <4>1, <4>2 DEF Same, NewTask
    <3>3. CASE j # Len(tasks')
      <4>1. j \in 1 .. Len(tasks) /\ tasks'[j] = tasks[j]
        BY <2>1, <2>3, <3>3 DEF Grown
      <4> QED
        BY <2>5, <3>1, <4>1 DEF Same, ClaimInv
    <3> QED
      BY <3>2, <3>3
  <2> QED
    BY <2>2, <2>4, <2>5 DEF ClaimInv
<1>3. CASE LookAround
  <2>1. PICK status \in {heard, tasks[Current].state, "nothing"}, asked \in BOOLEAN, beats \in BOOLEAN :
          /\ wasAlive' = (wasAlive \/ (asked /\ beats))
          /\ pulled' = (pulled \/ status \in {"fetched", "answered"})
          /\ tasks' = Claim((pulled \/ status \in {"fetched", "answered"}) \/ (asked /\ beats))
    BY <1>3 DEF LookAround
  <2> DEFINE seen == (pulled \/ status \in {"fetched", "answered"}) \/ (asked /\ beats)
  <2>2. seen \in BOOLEAN /\ (seen => pulled' \/ wasAlive')
    BY <2>1
  <2>3. (pulled => pulled') /\ (wasAlive => wasAlive')
    BY <2>1
  <2>4. tasks' = Claim(seen)
    BY <2>1
  <2>5. pc = "poll" /\ pc' = "decide" /\ Polling
    BY <1>3 DEF LookAround, Polling
  <2> HIDE DEF seen
  <2>6. /\ Unclaimed
        /\ tasks'[Len(tasks)].claimed = (tasks[Len(tasks)].claimed \/ seen)
        /\ Len(tasks') = Len(tasks)
    <3>1. Len(tasks) > 0
      BY <1>1, <2>5
    <3>2. /\ Kept
          /\ \A k \in 1 .. Len(tasks) :
               tasks'[k].claimed = IF k = Len(tasks) THEN tasks[k].claimed \/ seen ELSE tasks[k].claimed
      BY <1>1, <2>2, <2>4, <3>1, ClaimKeeps
    <3> QED
      BY <1>1, <2>5, <3>2 DEF Unclaimed, Kept
  <2>7. tasks'[Len(tasks')].claimed => pulled' \/ wasAlive'
    BY <2>2, <2>3, <2>5, <2>6 DEF ClaimInv
  <2>8. \A i, j \in 1 .. Len(tasks') : i < j /\ tasks'[i].claimed => ~Same(i, j)'
    BY <2>6, PairsStay
  <2> QED
    BY <2>5, <2>7, <2>8 DEF ClaimInv
<1>4. CASE Confirm
  <2>1. PICK seen \in BOOLEAN : pulled' = seen /\ tasks' = Claim(seen)
    BY <1>4 DEF Confirm
  <2>2. pc = "confirm" /\ pc' = "collect" /\ Polling /\ wasAlive' = wasAlive
    BY <1>4 DEF Confirm, Polling
  <2>3. /\ Unclaimed
        /\ tasks'[Len(tasks)].claimed = (tasks[Len(tasks)].claimed \/ seen)
        /\ Len(tasks') = Len(tasks)
    <3>1. Len(tasks) > 0
      BY <1>1, <2>2
    <3>2. /\ Kept
          /\ \A k \in 1 .. Len(tasks) :
               tasks'[k].claimed = IF k = Len(tasks) THEN tasks[k].claimed \/ seen ELSE tasks[k].claimed
      BY <1>1, <2>1, <3>1, ClaimKeeps
    <3> QED
      BY <1>1, <2>2, <3>2 DEF Unclaimed, Kept
  <2>4. ~pulled
    BY <2>2 DEF ClaimInv
  <2>5. tasks'[Len(tasks')].claimed => pulled' \/ wasAlive'
    BY <2>1, <2>2, <2>3, <2>4 DEF ClaimInv
  <2>6. \A i, j \in 1 .. Len(tasks') : i < j /\ tasks'[i].claimed => ~Same(i, j)'
    BY <2>3, PairsStay
  <2> QED
    BY <2>2, <2>5, <2>6 DEF ClaimInv
<1>5. CASE Fetch \/ GetAnswer
  <2>1. Kept /\ \A k \in 1 .. Len(tasks) : tasks'[k].claimed = tasks[k].claimed
    BY <1>1, <1>5, TaskMovesKeeps
  <2>2. \A i, j \in 1 .. Len(tasks') : i < j /\ tasks'[i].claimed => ~Same(i, j)'
    BY <2>1, PairsStay DEF Unclaimed
  <2>3. UNCHANGED <<pc, pulled, wasAlive, retry, round>>
    BY <1>5 DEF Fetch, GetAnswer, TaskMoves, watch, effort
  <2> QED
    BY <1>1, <2>1, <2>2, <2>3 DEF ClaimInv, Polling, Kept
<1>6. CASE Resubmit
  <2>1. /\ pc = "decide" /\ pc' = "submit" /\ ~pulled /\ ~wasAlive
        /\ UNCHANGED <<tasks, retry, round>>
    BY <1>6 DEF Resubmit, MayResubmit
  <2>2. /\ ~tasks[Len(tasks)].claimed
        /\ tasks[Len(tasks)].retry = retry /\ tasks[Len(tasks)].round = round
    BY <2>1 DEF ClaimInv, PlaceInv, Polling
  <2>3. ASSUME NEW i \in 1 .. Len(tasks), tasks[i].claimed
        PROVE  ~(tasks[i].retry = retry /\ tasks[i].round = round)
    <3>1. i < Len(tasks) /\ Len(tasks) \in 1 .. Len(tasks)
      BY <1>1, <2>2, <2>3
    <3> QED
      BY <2>2, <2>3, <3>1 DEF ClaimInv, Same
  <2> QED
    BY <2>1, <2>3 DEF ClaimInv, Same, Polling
<1>7. CASE Receives
  <2>1. PICK text \in {0, Len(tasks), answer} : LastRound(text) \/ NextRound(text)
    BY <1>7, ReceiveSteps
  <2>2. UNCHANGED tasks /\ pc' \in {"submit", "ended"}
    BY <1>7, <2>1, ReceiveSteps DEF LastRound, NextRound, Ends
  <2>3. CASE pc' = "submit"
    <3>1. retry' = retry + 1 \/ (retry' = retry /\ round' = round + 1)
      BY <2>1, <2>3 DEF LastRound, NextRound, Ends
    <3>2. \A i \in 1 .. Len(tasks) : ~(tasks[i].retry = retry' /\ tasks[i].round = round')
      BY <3>1, TaskTypes DEF PlaceInv
    <3> QED
      BY <2>2, <2>3, <3>2 DEF ClaimInv, Same, Polling
  <2>4. CASE pc' = "ended"
    BY <2>2, <2>4 DEF ClaimInv, Same, Polling
  <2> QED
    BY <2>2, <2>3, <2>4
<1>8. CASE RequestBreaks \/ NoticesStop \/ GiveUp \/ TakeError \/ KillWorker
  <2>1. UNCHANGED tasks /\ pc' = "ended"
    BY <1>8 DEF RequestBreaks, NoticesStop, GiveUp, TakeError, KillWorker, Ends
  <2> QED
    BY <2>1 DEF ClaimInv, Same, Polling
<1>9. CASE KeepWaiting \/ Sleep
  BY <1>9 DEF KeepWaiting, Sleep, ClaimInv, Same, Polling, watch, effort
<1>10. CASE RequestStop \/ StopRun \/ UNCHANGED vars
  BY <1>10 DEF RequestStop, StopRun, vars, ClaimInv, Same, Polling, watch, effort
<1> QED
  BY <1>2, <1>3, <1>4, <1>5, <1>6, <1>7, <1>8, <1>9, <1>10 DEF Next, Worker, Receives

\* A task that was seen with a puller, or whose puller was seen alive, is not
\* submitted a second time, whatever the timeouts are.  _submit_and_wait_for_round
THEOREM ClaimedOnce == Spec => []ClaimedIsNotRepeated
<1>1. Init => ClaimInv
  BY DEF Init, ClaimInv, Polling
<1>2. TypeInv /\ PlaceInv /\ ClaimInv /\ [Next]_vars => TypeInv' /\ PlaceInv' /\ ClaimInv'
  BY TypeStep, PlaceStep, ClaimStep
<1>3. TypeInv /\ ClaimInv => ClaimedIsNotRepeated
  <2> SUFFICES ASSUME TypeInv, ClaimInv PROVE ClaimedIsNotRepeated
    OBVIOUS
  <2>1. DOMAIN tasks = 1 .. Len(tasks)
    BY TaskTypes
  <2> QED
    BY <2>1 DEF ClaimInv, ClaimedIsNotRepeated, Same
<1> QED
  BY <1>1, <1>2, <1>3, TypeInit, PlaceInit, PTL DEF Spec

-----------------------------------------------------------------------------
(* What an execution says of its task.                                     *)

\* What was heard since the last submission is true of the task that is polled.
FetchedInv ==
  /\ row = "pulled" => Len(tasks) > 0 /\ tasks[Len(tasks)].state # "queued"
  /\ Polling /\ (pulled \/ heard \in {"fetched", "answered"}) => tasks[Len(tasks)].state # "queued"

LEMMA FetchedStep ==
  ASSUME TypeInv, FetchedInv, [Next]_vars
  PROVE  FetchedInv'
<1>1. /\ tasks \in Seq(Task) /\ Len(tasks) \in Nat
      /\ Polling => Len(tasks) \in 1 .. Len(tasks)
  BY TaskTypes
<1>2. CASE Submit
  BY <1>2 DEF Submit, TypeInv, FetchedInv, Polling, watch
<1>3. CASE Fails
  <2>1. PICK result \in Outcomes \ {"answered"} : Ends(result)
    BY <1>3, FailSteps
  <2> QED
    BY <2>1 DEF Ends, FetchedInv, Polling
<1>4. CASE Receives
  <2>1. PICK text \in {0, Len(tasks), answer} : LastRound(text) \/ NextRound(text)
    BY <1>4, ReceiveSteps
  <2>2. UNCHANGED tasks
    BY <1>4, ReceiveSteps
  <2>3. row' \in {row, "completed", "failed"} /\ pc' \in {"submit", "ended"}
    BY <2>1 DEF LastRound, NextRound, Ends
  <2> QED
    BY <2>2, <2>3 DEF FetchedInv, Polling
<1>5. ASSUME Kept, Polling' => Polling,
             \/ row' # "pulled"
             \/ row' = row
             \/ Polling /\ tasks[Len(tasks)].state # "queued",
             Polling /\ (pulled' \/ heard' \in {"fetched", "answered"}) => tasks[Len(tasks)].state # "queued"
      PROVE  FetchedInv'
  <2>1. Len(tasks') = Len(tasks)
    BY <1>5 DEF Kept
  <2>2. Len(tasks) > 0 /\ tasks[Len(tasks)].state # "queued" => tasks'[Len(tasks)].state # "queued"
    BY <1>1, <1>5 DEF Kept
  <2>3. row' = "pulled" => Len(tasks') > 0 /\ tasks'[Len(tasks')].state # "queued"
    BY <1>1, <1>5, <2>1, <2>2 DEF FetchedInv
  <2>4. Polling' /\ (pulled' \/ heard' \in {"fetched", "answered"}) =>
          tasks'[Len(tasks')].state # "queued"
    BY <1>1, <1>5, <2>1, <2>2
  <2> QED
    BY <2>3, <2>4 DEF FetchedInv
<1>6. CASE LookAround
  <2>1. PICK status \in {heard, tasks[Current].state, "nothing"} :
          LET known == pulled \/ status \in {"fetched", "answered"}
          IN  /\ heard' = status
              /\ pulled' = known
              /\ row' \in IF known /\ ~pulled
                          THEN Marked({"submitted", "waiting"}, "pulled") ELSE {row}
    BY <1>6 DEF LookAround
  <2>2. Polling /\ ~(Submit \/ SubmitBreaks)
    BY <1>6 DEF LookAround, Polling, Submit, SubmitBreaks
  <2>3. Kept
    BY <2>2, OthersKeep
  <2>4. pulled \/ status \in {"fetched", "answered"} => tasks[Len(tasks)].state # "queued"
    BY <2>1, <2>2 DEF FetchedInv, Current
  <2>5. row' # row => pulled \/ status \in {"fetched", "answered"}
    BY <2>1
  <2> QED
    BY <1>5, <2>1, <2>2, <2>3, <2>4, <2>5
<1>7. CASE Confirm
  <2>1. PICK seen \in BOOLEAN :
          /\ seen => tasks[Len(tasks)].state # "queued"
          /\ pulled' = seen
          /\ row' \in IF seen THEN Marked({"submitted", "waiting"}, "pulled")
                      ELSE IF now > 0 THEN Marked({"submitted"}, "waiting") ELSE {row}
    BY <1>7 DEF Confirm, Current
  <2>2. Polling /\ ~(Submit \/ SubmitBreaks) /\ heard' = heard
    BY <1>7 DEF Confirm, Polling, Submit, SubmitBreaks
  <2>3. Kept
    BY <2>2, OthersKeep
  <2>4. ~seen => row' = row \/ row' = "waiting"
    BY <2>1 DEF Marked
  <2> QED
    BY <1>5, <2>1, <2>2, <2>3, <2>4 DEF FetchedInv
<1>8. CASE KeepWaiting \/ Sleep
  <2>1. /\ Polling /\ UNCHANGED <<tasks, pulled, heard>>
        /\ row' = row \/ row' = "waiting"
    BY <1>8 DEF KeepWaiting, Sleep, Polling, MarkWaiting, Marked, watch
  <2> QED
    BY <2>1 DEF FetchedInv
<1>9. CASE Resubmit
  BY <1>9 DEF Resubmit, FetchedInv, Polling
<1>10. CASE Fetch \/ GetAnswer
  <2>1. Kept
    BY <1>1, <1>10, TaskMovesKeeps
  <2>2. UNCHANGED <<row, pc, pulled, heard>>
    BY <1>10 DEF Fetch, GetAnswer, TaskMoves, watch
  <2> QED
    BY <1>5, <2>1, <2>2 DEF FetchedInv, Polling
<1>11. CASE RequestStop \/ StopRun \/ UNCHANGED vars
  <2>1. UNCHANGED <<tasks, pc, pulled, heard>> /\ row' \in {row, "failed"}
    BY <1>11 DEF RequestStop, StopRun, vars, watch
  <2> QED
    BY <2>1 DEF FetchedInv, Polling
<1> QED
  BY <1>2, <1>3, <1>4, <1>6, <1>7, <1>8, <1>9, <1>10, <1>11 DEF Next, Worker, Receives, Fails

\* An execution that is shown as pulled has its current task with a puller,
\* however statuses are read and marks are committed.  record_cp_round, mark_pulled
THEOREM PulledMeansFetched == Spec => []PulledIsFetched
<1>1. Init => FetchedInv
  BY DEF Init, FetchedInv, Polling
<1>2. TypeInv /\ FetchedInv /\ [Next]_vars => TypeInv' /\ FetchedInv'
  BY TypeStep, FetchedStep
<1>3. FetchedInv => PulledIsFetched
  BY DEF FetchedInv, PulledIsFetched, Current
<1> QED
  BY <1>1, <1>2, <1>3, TypeInit, PTL DEF Spec

-----------------------------------------------------------------------------
(* Which answers are used.                                                 *)

\* i is the latest task of round n in this retry, and has been answered.
Used(i, n) ==
  /\ i \in 1 .. Len(tasks)
  /\ tasks[i].state = "answered" /\ tasks[i].retry = retry /\ tasks[i].round = n
  /\ \A j \in i + 1 .. Len(tasks) : tasks[j].retry = retry => tasks[j].round > n

\* Until the step is over the text that is kept is of an earlier round: the
\* current one may yet be submitted again.
AnswersInv ==
  /\ Len(transcript) = round - 1
  /\ \A n \in 1 .. round - 1 : Used(transcript[n], n)
  /\ answer # 0 => \E n \in 1 .. round : Used(answer, n)
  /\ pc # "ended" /\ answer # 0 => \E n \in 1 .. round - 1 : Used(answer, n)

LEMMA UsedKept ==
  ASSUME TypeInv, Kept, UNCHANGED retry, NEW i, NEW n, Used(i, n)
  PROVE  Used(i, n)'
<1>1. Len(tasks) \in Nat /\ Len(tasks') = Len(tasks) /\ i \in 1 .. Len(tasks)
  BY TaskTypes DEF Kept, Used
<1>2. tasks'[i].state = "answered" /\ tasks'[i].retry = retry /\ tasks'[i].round = n
  BY <1>1 DEF Kept, Used
<1>3. ASSUME NEW j \in i + 1 .. Len(tasks), tasks'[j].retry = retry
      PROVE  tasks'[j].round > n
  <2>1. j \in 1 .. Len(tasks)
    BY <1>1
  <2> QED
    BY <1>3, <2>1 DEF Kept, Used
<1> QED
  BY <1>1, <1>2, <1>3 DEF Used

LEMMA UsedGrown ==
  ASSUME TypeInv, Grown, UNCHANGED retry, NEW i, NEW n \in Nat, n < round, Used(i, n)
  PROVE  Used(i, n)'
<1>1. Len(tasks) \in Nat /\ Len(tasks') = Len(tasks) + 1 /\ i \in 1 .. Len(tasks)
  BY TaskTypes DEF Grown, Used
<1>2. tasks'[i] = tasks[i] /\ i \in 1 .. Len(tasks')
  BY <1>1 DEF Grown
<1>3. ASSUME NEW j \in i + 1 .. Len(tasks'), tasks'[j].retry = retry
      PROVE  tasks'[j].round > n
  <2>1. CASE j = Len(tasks')
    <3>1. tasks'[j].round = round /\ round \in Nat
      BY <1>1, <2>1, TaskTypes DEF Grown, NewTask
    <3> QED
      BY <3>1
  <2>2. CASE j # Len(tasks')
    <3>1. j \in i + 1 .. Len(tasks) /\ j \in 1 .. Len(tasks)
      BY <1>1, <2>2
    <3>2. tasks'[j] = tasks[j]
      BY <3>1 DEF Grown
    <3> QED
      BY <1>3, <3>1, <3>2 DEF Used
  <2> QED
    BY <2>1, <2>2
<1> QED
  BY <1>2, <1>3 DEF Used

LEMMA AnswersStep ==
  ASSUME TypeInv, PlaceInv, AnswersInv, [Next]_vars
  PROVE  AnswersInv'
<1>1. Len(tasks) \in Nat /\ round \in Nat /\ round >= 1 /\ Len(transcript) \in Nat
      /\ transcript \in Seq(Nat)
  BY TaskTypes, SetupTypes DEF TypeInv, TypeOK
<1>2. CASE Submit \/ SubmitBreaks
  <2>1. Grown /\ pc = "submit" /\ UNCHANGED <<retry, round, transcript, answer>>
    BY <1>2, SubmitGrows DEF Submit, SubmitBreaks, effort, texts
  <2>2. ASSUME NEW i, NEW n \in 1 .. round - 1, Used(i, n)
        PROVE  Used(i, n)'
    BY <1>1, <2>1, <2>2, UsedGrown
  <2>3. \A n \in 1 .. round - 1 : Used(transcript[n], n)'
    BY <2>1, <2>2 DEF AnswersInv
  <2>4. answer # 0 => \E n \in 1 .. round - 1 : Used(answer, n)'
    BY <2>1, <2>2 DEF AnswersInv
  <2>5. \A n \in 1 .. round - 1 : n \in 1 .. round
    BY <1>1
  <2> QED
    BY <2>1, <2>3, <2>4, <2>5 DEF AnswersInv
<1>3. CASE Receives
  <2>1. PICK text \in {0, Len(tasks), answer} : LastRound(text) \/ NextRound(text)
    BY <1>3, ReceiveSteps
  <2>2. pc = "collect" /\ UNCHANGED tasks /\ tasks[Len(tasks)].state = "answered"
    BY <1>3, ReceiveSteps
  <2>3. Used(Len(tasks), round)
    <3>1. Len(tasks) \in 1 .. Len(tasks)
      BY <2>2, TaskTypes DEF Polling
    <3>2. tasks[Len(tasks)].retry = retry /\ tasks[Len(tasks)].round = round
      BY <2>2 DEF PlaceInv, Polling
    <3>3. \A j \in Len(tasks) + 1 .. Len(tasks) : FALSE
      BY <1>1
    <3> QED
      BY <2>2, <3>1, <3>2, <3>3 DEF Used
  <2>4. round \in 1 .. round /\ \A n \in 1 .. round - 1 : n \in 1 .. round
    BY <1>1
  <2>5. text # 0 => \E n \in 1 .. round : Used(text, n)
    BY <2>1, <2>2, <2>3, <2>4 DEF AnswersInv
  <2>6. ASSUME UNCHANGED retry, NEW i, NEW n, Used(i, n)
        PROVE  Used(i, n)'
    BY <2>2, <2>6 DEF Used
  <2>7. CASE LastRound(text)
    <3>1. CASE retry' = retry + 1 /\ transcript' = <<>> /\ answer' = 0 /\ round' = 1
      <4>1. \A n \in 1 .. 1 - 1 : FALSE
        OBVIOUS
      <4>2. Len(transcript') = 0 /\ round' - 1 = 0
        BY <3>1
      <4> QED
        BY <3>1, <4>1, <4>2 DEF AnswersInv
    <3>2. CASE /\ UNCHANGED <<retry, round, transcript>>
               /\ pc' = "ended" /\ answer' \in {0, text}
      BY <2>5, <2>6, <3>2 DEF AnswersInv
    <3> QED
      BY <2>7, <3>1, <3>2 DEF LastRound, Ends, effort
  <2>8. CASE NextRound(text)
    <3>1. /\ UNCHANGED retry /\ round' = round + 1 /\ answer' = text
          /\ transcript' = Append(transcript, Len(tasks))
      BY <2>8 DEF NextRound
    <3>2. /\ Len(transcript') = round
          /\ \A n \in 1 .. round - 1 : transcript'[n] = transcript[n]
          /\ transcript'[round] = Len(tasks)
      BY <1>1, <3>1 DEF AnswersInv
    <3>3. \A n \in 1 .. round : Used(transcript'[n], n)
      <4> SUFFICES ASSUME NEW n \in 1 .. round PROVE Used(transcript'[n], n)
        OBVIOUS
      <4>1. CASE n = round
        BY <2>3, <3>2, <4>1
      <4>2. CASE n # round
        <5>1. n \in 1 .. round - 1
          BY <1>1, <4>2
        <5> QED
          BY <3>2, <5>1 DEF AnswersInv
      <4> QED
        BY <4>1, <4>2
    <3>4. \A n \in 1 .. round : Used(transcript[n], n)'
      BY <2>6, <3>1, <3>3
    <3>5. answer' # 0 => \E n \in 1 .. round : Used(answer, n)'
      BY <2>5, <2>6, <3>1
    <3>6. round' - 1 = round /\ \A n \in 1 .. round : n \in 1 .. round'
      BY <1>1, <3>1
    <3> QED
      BY <3>2, <3>4, <3>5, <3>6 DEF AnswersInv
  <2> QED
    BY <2>1, <2>7, <2>8
<1>4. CASE ~(Submit \/ SubmitBreaks) /\ ~Receives
  <2>1. Kept
    BY <1>4, OthersKeep
  <2>2. UNCHANGED <<retry, round, transcript, answer>>
    BY <1>4 DEF Next, Worker, Receives, vars, effort, texts, RequestBreaks, NoticesStop, GiveUp,
                TakeError, LookAround, KeepWaiting, Resubmit, Confirm, Sleep, Fetch, GetAnswer,
                TaskMoves, RequestStop, StopRun, KillWorker, Ends
  <2>3. pc = "ended" => pc' = "ended"
    BY <1>4 DEF Next, Worker, Receives, vars, RequestBreaks, NoticesStop, GiveUp, Responded,
                TakeError, LookAround, KeepWaiting, Resubmit, Confirm, Sleep, Fetch, GetAnswer,
                TaskMoves, RequestStop, StopRun, KillWorker, Ends
  <2>4. ASSUME NEW i, NEW n, Used(i, n)
        PROVE  Used(i, n)'
    BY <2>1, <2>2, <2>4, UsedKept
  <2>5. \A n \in 1 .. round - 1 : Used(transcript[n], n)'
    BY <2>2, <2>4 DEF AnswersInv
  <2>6. answer # 0 => \E n \in 1 .. round : Used(answer, n)'
    BY <2>2, <2>4 DEF AnswersInv
  <2>7. pc # "ended" /\ answer # 0 => \E n \in 1 .. round - 1 : Used(answer, n)'
    BY <2>2, <2>4 DEF AnswersInv
  <2> QED
    BY <2>2, <2>3, <2>5, <2>6, <2>7 DEF AnswersInv
<1> QED
  BY <1>2, <1>3, <1>4

\* What the next round is shown, and what the step returns, are answers of this
\* retry, one of every round, and of the task submitted last in it, whatever
\* pullers answer and when.  _poll_step_response, execute_step
THEOREM LatestAnswers == Spec => []OnlyLatestAnswers
<1>1. Init => AnswersInv
  <2> SUFFICES ASSUME Init PROVE AnswersInv
    OBVIOUS
  <2>1. \A n \in 1 .. 1 - 1 : FALSE
    OBVIOUS
  <2>2. Len(transcript) = 0 /\ round = 1 /\ round - 1 = 0 /\ answer = 0
    BY DEF Init
  <2> QED
    BY <2>1, <2>2 DEF AnswersInv
<1>2. TypeInv /\ PlaceInv /\ AnswersInv /\ [Next]_vars => TypeInv' /\ PlaceInv' /\ AnswersInv'
  BY TypeStep, PlaceStep, AnswersStep
<1>3. TypeInv /\ AnswersInv => OnlyLatestAnswers
  <2> SUFFICES ASSUME TypeInv, AnswersInv PROVE OnlyLatestAnswers
    OBVIOUS
  <2>1. DOMAIN tasks = 1 .. Len(tasks) /\ DOMAIN transcript = 1 .. round - 1
    BY TaskTypes DEF TypeInv, TypeOK, AnswersInv
  <2> QED
    BY <2>1 DEF AnswersInv, Used, OnlyLatestAnswers, Current
<1> QED
  BY <1>1, <1>2, <1>3, TypeInit, PlaceInit, PTL DEF Spec

=============================================================================
