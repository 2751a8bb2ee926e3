------------------------------ MODULE FlowProofs ------------------------------
(***************************************************************************)
(* Proofs about FlowPipeline, and about RunTelemetry, which is computed    *)
(* from what it leaves: for any flows that the schema admits, any number   *)
(* of steps and iterations and any number of crashes.                      *)
(***************************************************************************)
EXTENDS RunTelemetry, NumberLemmas, FiniteSetTheorems, TLAPS

-----------------------------------------------------------------------------
(* Types.                                                                  *)

\* Closing executions changes neither their number nor what they are of.
LEMMA FailOpenTypes ==
  ASSUME execs \in Seq(Execution), NEW S
  PROVE  /\ FailOpen(S) \in Seq(Execution)
         /\ Len(FailOpen(S)) = Len(execs)
         /\ \A k \in 1 .. Len(execs) :
              /\ FailOpen(S)[k].step = execs[k].step
              /\ FailOpen(S)[k].state # "open" \/ FailOpen(S)[k].state = execs[k].state
              /\ execs[k].step \in S => FailOpen(S)[k].state # "open"
<1>1. DOMAIN execs = 1 .. Len(execs) /\ Len(execs) \in Nat
  OBVIOUS
<1>2. \A k \in 1 .. Len(execs) : execs[k] \in Execution
  OBVIOUS
<1>3. \A k \in 1 .. Len(execs) :
        /\ FailOpen(S)[k] \in Execution
        /\ FailOpen(S)[k].step = execs[k].step
        /\ FailOpen(S)[k].state # "open" \/ FailOpen(S)[k].state = execs[k].state
        /\ execs[k].step \in S => FailOpen(S)[k].state # "open"
  BY <1>1, <1>2 DEF FailOpen, Execution
<1>4. FailOpen(S) \in [1 .. Len(execs) -> Execution]
  BY <1>1, <1>3 DEF FailOpen
<1>5. FailOpen(S) \in Seq(Execution) /\ Len(FailOpen(S)) = Len(execs)
  BY <1>1, <1>4
<1> QED
  BY <1>3, <1>5

\* An answer closes the latest execution and no other.
LEMMA AnswerTypes ==
  ASSUME execs \in Seq(Execution), Answer
  PROVE  /\ execs' \in Seq(Execution)
         /\ Len(execs') = Len(execs)
         /\ \A k \in 1 .. Len(execs) :
              /\ execs'[k].step = execs[k].step
              /\ k # Attempts => execs'[k] = execs[k]
              /\ k = Attempts => execs'[k].state \in {"completed", "failed"}
<1>1. PICK state \in {"completed", "failed"}, reply \in Replies(at) \cup {"empty"} :
        execs' = [execs EXCEPT ![Attempts].state = state, ![Attempts].reply = reply]
  BY DEF Answer
<1>2. reply \in Verdicts \cup {"none", "empty"}
  BY <1>1 DEF Replies, Verdicts
<1> DEFINE closed == [execs EXCEPT ![Attempts].state = state]
<1>3. DOMAIN execs = 1 .. Len(execs) /\ Len(execs) \in Nat
  OBVIOUS
<1>4. \A k \in 1 .. Len(execs) : execs[k] \in Execution
  OBVIOUS
<1>5. /\ DOMAIN closed = 1 .. Len(execs)
      /\ \A k \in 1 .. Len(execs) :
           closed[k] = IF k = Attempts THEN [execs[k] EXCEPT !.state = state] ELSE execs[k]
  BY <1>3
<1>6. execs' = [closed EXCEPT ![Attempts].reply = reply]
  BY <1>1
<1> HIDE DEF closed
<1>7. /\ execs' = [k \in 1 .. Len(execs) |-> execs'[k]]
      /\ \A k \in 1 .. Len(execs) :
           execs'[k] = IF k = Attempts THEN [closed[k] EXCEPT !.reply = reply] ELSE closed[k]
  BY <1>5, <1>6
<1>8. \A k \in 1 .. Len(execs) :
        /\ execs'[k] \in Execution
        /\ execs'[k].step = execs[k].step
        /\ k # Attempts => execs'[k] = execs[k]
        /\ k = Attempts => execs'[k].state \in {"completed", "failed"}
  <2> SUFFICES ASSUME NEW k \in 1 .. Len(execs)
               PROVE  /\ execs'[k] \in Execution
                      /\ execs'[k].step = execs[k].step
                      /\ k # Attempts => execs'[k] = execs[k]
                      /\ k = Attempts => execs'[k].state \in {"completed", "failed"}
    OBVIOUS
  <2>1. CASE k = Attempts
    BY <2>1, <1>1, <1>2, <1>4, <1>5, <1>7 DEF Execution
  <2>2. CASE k # Attempts
    BY <2>2, <1>4, <1>5, <1>7
  <2> QED
    BY <2>1, <2>2
<1>9. execs' \in [1 .. Len(execs) -> Execution]
  BY <1>7, <1>8
<1>10. execs' \in Seq(Execution) /\ Len(execs') = Len(execs)
  BY <1>3, <1>9
<1> QED
  BY <1>8, <1>10

\* A row that is appended comes last.
LEMMA AppendElements ==
  ASSUME NEW S, NEW s \in Seq(S), NEW e
  PROVE  /\ Append(s, e)[Len(s) + 1] = e
         /\ \A k \in 1 .. Len(s) : Append(s, e)[k] = s[k]
OBVIOUS

\* A blank record of work is one.
LEMMA FreshType == Fresh \in WorkRecord
BY DEF Fresh, WorkRecord

\* The last of a set of executions is one of them, or 0.
LEMMA NewestType ==
  ASSUME NEW K \in SUBSET Nat
  PROVE  Newest(K) \in Nat
<1>1. CASE \E k \in K : IsNewest(k, K)
  BY <1>1 DEF Newest
<1>2. CASE ~ \E k \in K : IsNewest(k, K)
  BY <1>2 DEF Newest
<1> QED
  BY <1>1, <1>2

\* A flow that was admitted loops back to one of its steps.
LEMMA FlowType ==
  ASSUME TypeOK
  PROVE  /\ Steps \in Nat \ {0}
         /\ flow \in FlowShape
         /\ 1 \in Step
         /\ \A i \in Step : Target(i) \in 0 .. Steps
BY FlowsAssumption, StepsAssumption DEF TypeOK, Admitted, FlowShape, Target, Step

\* Reading an answer and counting a round leave the work a record of work.
LEMMA WorkTypes ==
  ASSUME TypeOK
  PROVE  /\ Attempts \in Nat
         /\ Read \in WorkRecord
         /\ Read.iteration = work.iteration
         /\ SentBack \in WorkRecord
<1>1. Attempts \in Nat
  BY DEF TypeOK, Attempts
<1>2. Read \in WorkRecord /\ Read.iteration = work.iteration
  BY <1>1 DEF TypeOK, Read, WorkRecord
<1> QED
  BY <1>1, <1>2 DEF TypeOK, SentBack, WorkRecord

\* What is rebuilt from the executions is a record of work.
LEMMA RebuiltType ==
  ASSUME TypeOK
  PROVE  /\ Rebuilt \in WorkRecord
         /\ IsFiniteSet(GateRejections)
         /\ Cardinality(GateRejections) \in Nat
<1>1. DOMAIN execs = 1 .. Len(execs) /\ Len(execs) \in Nat
  BY DEF TypeOK
<1>2. IsFiniteSet(1 .. Len(execs))
  BY <1>1, FS_Interval
<1>3. GateRejections \in SUBSET (1 .. Len(execs))
  BY <1>1 DEF GateRejections, CompletedOf
<1>4. IsFiniteSet(GateRejections) /\ Cardinality(GateRejections) \in Nat
  BY <1>2, <1>3, FS_Subset, FS_CardinalityType
<1>5. \A i \in Step : CompletedOf(i) \in SUBSET Nat
  BY <1>1 DEF CompletedOf
<1>6. \A i \in Step : Newest(CompletedOf(i)) \in Nat
  BY <1>5, NewestType
<1>7. Newest(GateRejections) \in Nat
  <2>1. GateRejections \in SUBSET Nat
    BY <1>1, <1>3
  <2> QED
    BY <2>1, NewestType
<1> QED
  BY <1>4, <1>6, <1>7 DEF Rebuilt, WorkRecord

\* A run starts with typed variables.
LEMMA TypeInit == Init => TypeOK
<1> SUFFICES ASSUME Init PROVE TypeOK
  OBVIOUS
<1>1. execs \in Seq(Execution)
  BY DEF Init
<1>2. current \in Step /\ at \in Step
  BY StepsAssumption DEF Init, Step
<1>3. crashes \in 0 .. MaxCrashes
  BY BoundsAssumption DEF Init
<1> QED
  BY <1>1, <1>2, <1>3, FreshType DEF Init, TypeOK


\* Every action keeps the types.
LEMMA TypeStep ==
  ASSUME TypeOK, [Next]_vars
  PROVE  TypeOK'
<1> USE DEF TypeOK, db, Ends, Save, Forget
<1> USE FlowType, WorkTypes, FreshType
<1>1. CASE RunsOut
  BY <1>1 DEF RunsOut
<1>2. CASE CheckStep
  BY <1>2 DEF CheckStep
<1>3. CASE OpenStep
  <2>1. FailOpen({at}) \in Seq(Execution)
    BY FailOpenTypes
  <2>2. DraftFor(work.outputs, at) \in Nat
    BY DEF DraftFor, WorkRecord, FlowShape, Step
  <2>3. [step |-> at, state |-> "open", reply |-> "none",
         draft |-> DraftFor(work.outputs, at), remarks |-> work.remarks,
         late |-> flagged \/ status # "running"] \in Execution
    BY <2>2 DEF Execution, WorkRecord
  <2>4. execs' \in Seq(Execution)
    BY <1>3, <2>1, <2>3 DEF OpenStep
  <2> QED
    BY <1>3, <2>4 DEF OpenStep
<1>4. CASE Answer
  <2>1. execs' \in Seq(Execution)
    BY <1>4, AnswerTypes
  <2> QED
    BY <1>4, <2>1 DEF Answer
<1>5. CASE StepRaises
  BY <1>5, FailOpenTypes DEF StepRaises
<1>6. CASE NoticesStop
  <2>1. execs' \in Seq(Execution)
    BY <1>6, FailOpenTypes DEF NoticesStop
  <2> QED
    BY <1>6, <2>1 DEF NoticesStop
<1>7. CASE Advance
  <2>1. at' \in Step
    BY <1>7 DEF Advance, Step
  <2> QED
    BY <1>7, <2>1 DEF Advance, WorkRecord
<1>8. CASE SendBack
  <2>1. at' \in Step
    BY <1>8 DEF SendBack, Rejected, Step
  <2>2. SentBack.iteration \in Nat
    BY DEF WorkRecord
  <2> QED
    BY <1>8, <2>1, <2>2 DEF SendBack
<1>9. CASE Spent
  BY <1>9 DEF Spent
<1>10. CASE Accept
  BY <1>10 DEF Accept
<1>11. CASE AcceptNothing
  BY <1>11 DEF AcceptNothing
<1>12. CASE Undecided
  BY <1>12 DEF Undecided
<1>13. CASE Deliver
  <2>1. article' \in Nat
    BY <1>13 DEF Deliver, ArticleBody, WorkRecord, FlowShape
  <2> QED
    BY <1>13, <2>1 DEF Deliver
<1>14. CASE RequestStop
  BY <1>14 DEF RequestStop
<1>15. CASE StopRun
  <2>1. execs' \in Seq(Execution)
    BY <1>15, FailOpenTypes DEF StopRun
  <2>2. pc' = pc \/ pc' = "ended"
    BY <1>15 DEF StopRun
  <2> QED
    BY <1>15, <2>1, <2>2 DEF StopRun
<1>16. CASE Crash
  <2>1. at' \in Step /\ crashes' \in 0 .. MaxCrashes
    BY <1>16, StepsAssumption, BoundsAssumption DEF Crash, Step
  <2> QED
    BY <1>16, <2>1 DEF Crash
<1>17. CASE Restart
  <2>1. Rebuilt \in WorkRecord /\ Rebuilt.iteration \in Nat
    BY RebuiltType DEF WorkRecord
  <2> QED
    BY <1>17, <2>1 DEF Restart
<1>18. CASE Continue
  <2>1. work' \in WorkRecord
    BY <1>18 DEF Continue, WorkRecord
  <2> QED
    BY <1>18, <2>1 DEF Continue
<1>19. CASE UNCHANGED vars
  BY <1>19 DEF vars, memory
<1> QED
  BY <1>1, <1>2, <1>3, <1>4, <1>5, <1>6, <1>7, <1>8, <1>9, <1>10, <1>11, <1>12, <1>13,
     <1>14, <1>15, <1>16, <1>17, <1>18, <1>19 DEF Next, Worker, Judge

\* Rows, checkpoints and the worker's memory keep their types.
THEOREM TypeCorrect == Spec => []TypeOK
<1>1. Init => TypeOK
  BY TypeInit
<1>2. TypeOK /\ [Next]_vars => TypeOK'
  BY TypeStep
<1> QED
  BY <1>1, <1>2, PTL DEF Spec

-----------------------------------------------------------------------------
(* The work for a run is bounded.                                          *)

Active == {"ready", "emit", "step", "answered", "spent", "headline"}

\* What r iterations may cost.
Quota(r) == Steps * r

\* A round is counted in the database and in the worker alike, and a worker
\* in a round too many does not execute.
RoundsInv ==
  /\ rounds <= MaxIterations + 1
  /\ pc \in {"emit", "step", "answered", "headline"} => rounds <= MaxIterations
  /\ pc \in {"emit", "step", "answered"} => current = at
  /\ pc \in Active => work.iteration = rounds

\* A run that goes on has a checkpoint of its round, or is at its first step.
CheckpointInv ==
  status = "running" =>
    IF saved THEN kept.iteration = rounds
    ELSE /\ rounds = 0
         /\ current = 1
         /\ pc \in Active => at = 1
         /\ \A k \in 1 .. Attempts : execs[k].step = 1

\* A round costs at most an execution for every step up to the current one,
\* and one that is about to be opened has been allowed for.
AttemptsInv ==
  /\ ExecutionsBounded
  /\ pc \in Active \cup {"down", "up"} => Attempts <= Quota(rounds) + current + crashes
  /\ pc \in {"ready", "emit"} => Attempts + 1 <= Quota(rounds) + at + crashes
  /\ pc \in {"down", "up"} => Attempts + 1 <= Quota(rounds) + current + crashes

\* Only a run that is not over has a worker, or may get one.
PhaseInv == pc # "ended" => status \in {"running", "cancelled"}

WorkInv == TypeOK /\ RoundsInv /\ CheckpointInv /\ AttemptsInv /\ PhaseInv

\* Iterations cost a multiple of the steps.
LEMMA QuotaFacts ==
  /\ Quota(0) = 0
  /\ \A r \in Nat : Quota(r) \in Nat /\ Quota(r + 1) = Quota(r) + Steps
  /\ \A r \in Nat : r <= MaxIterations => Quota(r) + Steps <= Steps * (MaxIterations + 1)
<1> USE StepsAssumption, BoundsAssumption
<1>1. Quota(0) = 0
  BY DEF Quota
<1>2. \A r \in Nat : Quota(r) \in Nat /\ Quota(r + 1) = Quota(r) + Steps
  BY DEF Quota
<1>3. ASSUME NEW r \in Nat, r <= MaxIterations
      PROVE  Quota(r) + Steps <= Steps * (MaxIterations + 1)
  <2>1. PICK d \in Nat : MaxIterations = r + d
    <3>1. MaxIterations - r \in Nat /\ MaxIterations = r + (MaxIterations - r)
      BY <1>3
    <3> QED
      BY <3>1
  <2>2. Steps * (MaxIterations + 1) = Steps * r + Steps * d + Steps
    BY <2>1
  <2>3. Steps * d \in Nat /\ Steps * r \in Nat
    OBVIOUS
  <2> QED
    BY <2>2, <2>3 DEF Quota
<1> QED
  BY <1>1, <1>2, <1>3

\* Only OpenStep adds an execution; no action changes what one is of.
LEMMA OnlyOpenStepAdds ==
  ASSUME TypeOK, [Next]_vars, ~OpenStep
  PROVE  /\ Attempts' = Attempts
         /\ \A k \in 1 .. Attempts : execs'[k].step = execs[k].step
<1>0. execs \in Seq(Execution)
  BY DEF TypeOK
<1>1. CASE Answer
  BY <1>0, <1>1, AnswerTypes DEF Attempts
<1>2. CASE UNCHANGED execs
  BY <1>2 DEF Attempts
<1>3. CASE execs' = FailOpen(Step)
  BY <1>0, <1>3, FailOpenTypes DEF Attempts
<1>4. execs' = FailOpen(Step) \/ UNCHANGED execs \/ Answer
  BY DEF Next, Worker, Judge, vars, db, RunsOut, CheckStep, StepRaises, NoticesStop, Advance,
         SendBack, Spent, Accept, AcceptNothing, Undecided, Deliver, RequestStop, StopRun,
         Crash, Restart, Continue
<1> QED
  BY <1>1, <1>2, <1>3, <1>4

\* While all executions are of the first step, no gate has rejected.
LEMMA NothingToRebuild ==
  ASSUME TypeOK, \A k \in 1 .. Attempts : execs[k].step = 1
  PROVE  Rebuilt.iteration = 0
<1>1. flow.gate # 0 => flow.gate # Steps /\ flow.gate \in 0 .. Steps
  BY FlowsAssumption DEF TypeOK, Admitted, FlowShape
<1>2. flow.gate # 0 => Steps # 1
  BY <1>1, StepsAssumption
<1>3. \A k \in DOMAIN execs : execs[k].step = 1
  BY DEF TypeOK, Attempts
<1>4. GateRejections = {}
  BY <1>2, <1>3 DEF GateRejections, CompletedOf
<1>5. Cardinality(GateRejections) = 0
  BY <1>4, FS_EmptySet
<1> QED
  BY <1>5 DEF Rebuilt

\* At the start there is no work yet.
LEMMA WorkInit == Init => WorkInv
<1> SUFFICES ASSUME Init PROVE WorkInv
  OBVIOUS
<1>1. TypeOK
  BY TypeInit
<1>2. Attempts = 0
  BY DEF Init, Attempts
<1>3. 0 <= Steps * (MaxIterations + 1)
  BY StepsAssumption, BoundsAssumption
<1>4. RoundsInv /\ PhaseInv
  BY BoundsAssumption DEF Init, RoundsInv, PhaseInv, Fresh
<1>5. CheckpointInv
  BY <1>2 DEF Init, CheckpointInv
<1>6. AttemptsInv
  <2>1. pc = "ready" /\ current = 1 /\ at = 1 /\ rounds = 0 /\ crashes = 0
    BY DEF Init
  <2>2. Quota(rounds) = 0
    BY <2>1, QuotaFacts
  <2>3. ExecutionsBounded
    BY <1>2, <1>3, <2>1, StepsAssumption, BoundsAssumption DEF ExecutionsBounded
  <2> QED
    BY <1>2, <2>1, <2>2, <2>3 DEF AttemptsInv
<1> QED
  BY <1>1, <1>4, <1>5, <1>6 DEF WorkInv

\* Every action keeps the invariant.
LEMMA WorkStep ==
  ASSUME WorkInv, [Next]_vars
  PROVE  WorkInv'
<1>1. TypeOK /\ RoundsInv /\ CheckpointInv /\ AttemptsInv /\ PhaseInv
  BY DEF WorkInv
<1>2. TypeOK'
  BY <1>1, TypeStep
<1>3. /\ Steps \in Nat \ {0} /\ MaxIterations \in Nat
      /\ current \in Step /\ at \in Step /\ at \in Nat /\ current \in Nat
      /\ rounds \in Nat /\ crashes \in Nat
      /\ work.iteration \in Nat /\ kept.iteration \in Nat
  BY <1>1, WorkTypes, StepsAssumption, BoundsAssumption DEF TypeOK, Step, WorkRecord
<1>4. Attempts \in Nat
  BY <1>1 DEF TypeOK, Attempts
<1>5. Quota(rounds) \in Nat /\ Steps * (MaxIterations + 1) \in Nat
  BY <1>3, QuotaFacts
<1>6. ~OpenStep => /\ Attempts' = Attempts
                   /\ \A k \in 1 .. Attempts : execs'[k].step = execs[k].step
  BY <1>1, OnlyOpenStepAdds
<1>7. ASSUME pc' = "ended", status' # "running", UNCHANGED <<rounds, crashes>>,
             Attempts' = Attempts
      PROVE  WorkInv'
  BY <1>1, <1>2, <1>7
     DEF WorkInv, RoundsInv, CheckpointInv, AttemptsInv, PhaseInv, Active, ExecutionsBounded
<1>8. CASE RunsOut \/ StepRaises \/ Spent \/ AcceptNothing \/ Undecided \/ Deliver
  <2>1. /\ pc' = "ended" /\ status' # "running" /\ UNCHANGED <<rounds, crashes>>
        /\ ~OpenStep
    BY <1>8 DEF RunsOut, StepRaises, Spent, AcceptNothing, Undecided, Deliver, Ends, OpenStep
  <2> QED
    BY <2>1, <1>6, <1>7
<1>9. CASE NoticesStop
  <2>1. pc = "ready" \/ pc = "step" \/ pc = "answered"
    BY <1>9 DEF NoticesStop
  <2>2. /\ pc' = "ended" /\ status' # "running" /\ UNCHANGED <<rounds, crashes>>
        /\ ~OpenStep
    BY <1>9, <2>1 DEF NoticesStop, Ends, OpenStep
  <2> QED
    BY <2>2, <1>6, <1>7
<1>10. CASE CheckStep
  <2>1. /\ pc = "ready" /\ pc' = "emit" /\ current' = at
        /\ work.iteration <= MaxIterations
        /\ UNCHANGED <<status, execs, saved, kept, rounds, at, work, crashes>>
    BY <1>10 DEF CheckStep
  <2>2. Attempts' = Attempts
    BY <2>1 DEF Attempts
  <2>3. RoundsInv' /\ PhaseInv'
    BY <2>1, <1>1 DEF RoundsInv, PhaseInv, Active
  <2>4. CheckpointInv'
    BY <2>1, <2>2, <1>1 DEF CheckpointInv, Active
  <2>5. AttemptsInv'
    BY <2>1, <2>2, <1>1, <1>3, <1>4, <1>5 DEF AttemptsInv, Active, ExecutionsBounded, Quota
  <2> QED
    BY <2>3, <2>4, <2>5, <1>2 DEF WorkInv
<1>11. CASE OpenStep
  <2>1. /\ pc = "emit" /\ pc' = "step"
        /\ UNCHANGED <<status, current, saved, kept, rounds, at, work, crashes>>
    BY <1>11 DEF OpenStep
  <2>2. /\ FailOpen({at}) \in Seq(Execution) /\ Len(FailOpen({at})) = Attempts
        /\ \A k \in 1 .. Attempts : FailOpen({at})[k].step = execs[k].step
    BY <1>1, FailOpenTypes DEF TypeOK, Attempts
  <2> DEFINE opened ==
        [step |-> at, state |-> "open", reply |-> "none",
         draft |-> DraftFor(work.outputs, at), remarks |-> work.remarks,
         late |-> flagged \/ status # "running"]
  <2>3. opened.step = at /\ execs' = Append(FailOpen({at}), opened)
    BY <1>11 DEF OpenStep
  <2> HIDE DEF opened
  <2>4. Attempts' = Attempts + 1
    BY <2>2, <2>3 DEF Attempts
  <2>5. \A k \in 1 .. Attempts + 1 :
          execs'[k].step = IF k = Attempts + 1 THEN at ELSE execs[k].step
    <3> DEFINE closed == FailOpen({at})
    <3>1. closed \in Seq(Execution) /\ Len(closed) = Attempts
      BY <2>2
    <3>2. execs' = Append(closed, opened)
      BY <2>3
    <3> HIDE DEF closed
    <3>3. /\ Append(closed, opened)[Len(closed) + 1] = opened
          /\ \A k \in 1 .. Len(closed) : Append(closed, opened)[k] = closed[k]
      BY <3>1, AppendElements
    <3>4. /\ execs'[Attempts + 1] = opened
          /\ \A k \in 1 .. Attempts : execs'[k] = closed[k]
      BY <3>1, <3>2, <3>3
    <3>5. \A k \in 1 .. Attempts + 1 : k # Attempts + 1 => k \in 1 .. Attempts
      BY <1>4
    <3> QED
      BY <2>2, <2>3, <3>4, <3>5 DEF closed
  <2>6. RoundsInv' /\ PhaseInv'
    BY <2>1, <1>1 DEF RoundsInv, PhaseInv, Active
  <2>7. CheckpointInv'
    BY <2>1, <2>4, <2>5, <1>1, <1>4 DEF CheckpointInv, Active
  <2>8. /\ rounds <= MaxIterations /\ current = at
        /\ Attempts + 1 <= Quota(rounds) + at + crashes
    BY <2>1, <1>1 DEF RoundsInv, AttemptsInv
  <2>9. Quota(rounds) + Steps <= Steps * (MaxIterations + 1)
    BY <2>8, <1>3, QuotaFacts
  <2>10. at <= Steps
    BY <1>3 DEF Step
  <2>11. Attempts + 1 <= Steps * (MaxIterations + 1) + crashes
    BY <2>8, <2>9, <2>10, <1>3, <1>4, <1>5
  <2>12. AttemptsInv'
    BY <2>1, <2>4, <2>8, <2>11, <1>1 DEF AttemptsInv, Active, ExecutionsBounded, Quota
  <2> QED
    BY <2>6, <2>7, <2>12, <1>2 DEF WorkInv
<1>12. CASE Answer
  <2>1. /\ pc = "step" /\ pc' = "answered" /\ ~OpenStep
        /\ UNCHANGED <<status, current, saved, kept, rounds, at, work, crashes>>
    BY <1>12 DEF Answer, OpenStep
  <2>2. RoundsInv' /\ PhaseInv'
    BY <2>1, <1>1 DEF RoundsInv, PhaseInv, Active
  <2>3. CheckpointInv'
    BY <2>1, <1>1, <1>6 DEF CheckpointInv, Active
  <2>4. AttemptsInv'
    BY <2>1, <1>1, <1>6 DEF AttemptsInv, Active, ExecutionsBounded, Quota
  <2> QED
    BY <2>2, <2>3, <2>4, <1>2 DEF WorkInv
<1>13. CASE Advance
  <2>1. /\ pc = "answered" /\ pc' = "ready" /\ status = "running" /\ status' = status
        /\ at' = at + 1 /\ work' = Read /\ saved' = TRUE /\ kept' = Read
        /\ rounds' = Read.iteration
        /\ UNCHANGED <<current, execs, crashes>>
    BY <1>13 DEF Advance, Judging, Stopped, Save
  <2>2. Read.iteration = work.iteration
    BY <1>1 DEF TypeOK, WorkRecord, Read
  <2>3. rounds' = rounds /\ work'.iteration = rounds /\ kept'.iteration = rounds
    BY <2>1, <2>2, <1>1 DEF RoundsInv, Active
  <2>4. Attempts' = Attempts
    BY <2>1 DEF Attempts
  <2>5. RoundsInv' /\ PhaseInv'
    BY <2>1, <2>3, <1>1 DEF RoundsInv, PhaseInv, Active
  <2>6. CheckpointInv'
    BY <2>1, <2>3 DEF CheckpointInv
  <2>7. current = at /\ Attempts <= Quota(rounds) + current + crashes
    BY <2>1, <1>1 DEF RoundsInv, AttemptsInv, Active
  <2>8. Attempts + 1 <= Quota(rounds) + (at + 1) + crashes
    BY <2>7, <1>3, <1>4, <1>5
  <2>9. AttemptsInv'
    BY <2>1, <2>3, <2>4, <2>7, <2>8, <1>1 DEF AttemptsInv, Active, ExecutionsBounded, Quota
  <2> QED
    BY <2>5, <2>6, <2>9, <1>2 DEF WorkInv
<1>14. CASE SendBack
  <2>1. /\ pc = "answered" /\ status = "running" /\ status' = status
        /\ pc' \in {"ready", "spent"}
        /\ work' = SentBack /\ saved' = TRUE /\ kept' = SentBack
        /\ rounds' = SentBack.iteration
        /\ UNCHANGED <<current, execs, crashes>>
    BY <1>14 DEF SendBack, Judging, Stopped, Save
  <2>2. SentBack.iteration = work.iteration + 1
    BY DEF SentBack
  <2>3. /\ rounds' = rounds + 1 /\ rounds <= MaxIterations
        /\ work'.iteration = rounds + 1 /\ kept'.iteration = rounds + 1
    BY <2>1, <2>2, <1>1 DEF RoundsInv, Active
  <2>4. Attempts' = Attempts
    BY <2>1 DEF Attempts
  <2>5. RoundsInv' /\ PhaseInv'
    BY <2>1, <2>3, <1>1, <1>3 DEF RoundsInv, PhaseInv, Active
  <2>6. CheckpointInv'
    BY <2>1, <2>3 DEF CheckpointInv
  <2>7. Attempts <= Quota(rounds) + current + crashes
    BY <2>1, <1>1 DEF AttemptsInv, Active
  <2>8. Quota(rounds + 1) = Quota(rounds) + Steps /\ current <= Steps
    BY <1>3, QuotaFacts DEF Step
  <2>9. at' >= 1 /\ at' \in Nat
    BY <1>2, <1>3 DEF TypeOK, Step
  <2>10. /\ Attempts <= Quota(rounds + 1) + current + crashes
         /\ Attempts + 1 <= Quota(rounds + 1) + at' + crashes
    BY <2>7, <2>8, <2>9, <1>3, <1>4, <1>5
  <2>11. AttemptsInv'
    BY <2>1, <2>3, <2>4, <2>10, <1>1 DEF AttemptsInv, Active, ExecutionsBounded, Quota
  <2> QED
    BY <2>5, <2>6, <2>11, <1>2 DEF WorkInv
<1>15. CASE Accept
  <2>1. /\ pc = "answered" /\ pc' = "headline" /\ work' = Read
        /\ UNCHANGED <<status, current, execs, saved, kept, rounds, at, crashes>>
    BY <1>15 DEF Accept, Judging, db
  <2>2. Read.iteration = work.iteration
    BY <1>1 DEF TypeOK, WorkRecord, Read
  <2>3. Attempts' = Attempts
    BY <2>1 DEF Attempts
  <2>4. RoundsInv' /\ PhaseInv' /\ CheckpointInv'
    BY <2>1, <2>2, <2>3, <1>1 DEF RoundsInv, PhaseInv, CheckpointInv, Active
  <2>5. AttemptsInv'
    BY <2>1, <2>3, <1>1 DEF AttemptsInv, Active, ExecutionsBounded, Quota
  <2> QED
    BY <2>4, <2>5, <1>2 DEF WorkInv
<1>16. CASE RequestStop
  <2>1. UNCHANGED <<status, current, execs, saved, kept, rounds, pc, at, work, crashes>>
    BY <1>16 DEF RequestStop, db
  <2> QED
    BY <2>1, <1>1, <1>2
       DEF WorkInv, RoundsInv, CheckpointInv, AttemptsInv, PhaseInv, Attempts, Quota,
           ExecutionsBounded
<1>17. CASE StopRun
  <2>1. /\ pc' = pc \/ pc' = "ended"
        /\ status' = "cancelled" /\ ~OpenStep
        /\ UNCHANGED <<current, rounds, at, work, crashes>>
    <3>1. Awaiting \/ pc = "up"
      BY <1>17 DEF StopRun
    <3>2. status = "running" /\ status' = "cancelled" /\ UNCHANGED at
      BY <1>17 DEF StopRun
    <3>3. ~OpenStep
      BY <3>2 DEF OpenStep
    <3> QED
      BY <1>17, <3>3 DEF StopRun
  <2>2. RoundsInv' /\ PhaseInv' /\ CheckpointInv'
    BY <2>1, <1>1 DEF RoundsInv, PhaseInv, CheckpointInv, Active
  <2>3. AttemptsInv'
    BY <2>1, <1>1, <1>6 DEF AttemptsInv, Active, ExecutionsBounded, Quota
  <2> QED
    BY <2>2, <2>3, <1>2 DEF WorkInv
<1>18. CASE Crash
  <2>1. /\ pc # "ended" /\ pc' = "down" /\ crashes' = crashes + 1
        /\ UNCHANGED <<status, current, execs, saved, kept, rounds>>
    BY <1>18 DEF Crash, db
  <2>2. Attempts' = Attempts
    BY <2>1 DEF Attempts
  <2>3. RoundsInv' /\ PhaseInv' /\ CheckpointInv'
    BY <2>1, <2>2, <1>1 DEF RoundsInv, PhaseInv, CheckpointInv, Active
  <2>4. pc \in Active \cup {"down", "up"}
    BY <2>1, <1>1 DEF TypeOK, Active
  <2>5. /\ Attempts <= Quota(rounds) + current + crashes
        /\ Attempts <= Steps * (MaxIterations + 1) + crashes
    BY <2>4, <1>1 DEF AttemptsInv, ExecutionsBounded
  <2>6. /\ Attempts + 1 <= Quota(rounds) + current + (crashes + 1)
        /\ Attempts <= Quota(rounds) + current + (crashes + 1)
        /\ Attempts <= Steps * (MaxIterations + 1) + (crashes + 1)
    BY <2>5, <1>3, <1>4, <1>5
  <2>7. AttemptsInv'
    BY <2>1, <2>2, <2>6 DEF AttemptsInv, Active, ExecutionsBounded, Quota
  <2> QED
    BY <2>3, <2>7, <1>2 DEF WorkInv
<1>19. CASE Restart
  <2>1. /\ pc = "down" /\ status = "running"
        /\ IF Rebuildable THEN Save(Rebuilt) ELSE UNCHANGED <<saved, kept, rounds>>
        /\ UNCHANGED <<current, execs, at, work, crashes>>
    BY <1>19 DEF Restart
  <2>2. (pc' = "up" /\ status' = "running") \/ (pc' = "ended" /\ status' = "failed")
    BY <1>19, <2>1 DEF Restart, Ends
  <2>3. Attempts' = Attempts
    BY <2>1 DEF Attempts
  <2>4. CASE Rebuildable
    <3>1. /\ rounds = 0 /\ current = 1
          /\ \A k \in 1 .. Attempts : execs[k].step = 1
      BY <2>1, <2>4, <1>1 DEF Rebuildable, CheckpointInv
    <3>2. Rebuilt.iteration = 0
      BY <3>1, <1>1, NothingToRebuild
    <3>3. saved' = TRUE /\ kept'.iteration = 0 /\ rounds' = rounds
      BY <2>1, <2>4, <3>1, <3>2 DEF Save
    <3>4. RoundsInv' /\ PhaseInv' /\ CheckpointInv'
      BY <2>1, <2>2, <3>1, <3>3, <1>1 DEF RoundsInv, PhaseInv, CheckpointInv, Active
    <3>5. AttemptsInv'
      BY <2>1, <2>2, <2>3, <3>3, <1>1 DEF AttemptsInv, Active, ExecutionsBounded, Quota
    <3> QED
      BY <3>4, <3>5, <1>2 DEF WorkInv
  <2>5. CASE ~Rebuildable
    <3>1. UNCHANGED <<saved, kept, rounds>>
      BY <2>1, <2>5
    <3>2. RoundsInv' /\ PhaseInv' /\ CheckpointInv'
      BY <2>1, <2>2, <2>3, <3>1, <1>1 DEF RoundsInv, PhaseInv, CheckpointInv, Active
    <3>3. AttemptsInv'
      BY <2>1, <2>2, <2>3, <3>1, <1>1 DEF AttemptsInv, Active, ExecutionsBounded, Quota
    <3> QED
      BY <3>2, <3>3, <1>2 DEF WorkInv
  <2> QED
    BY <2>4, <2>5
<1>20. CASE Continue
  <2>1. /\ pc = "up" /\ status = "running" /\ pc' = "ready" /\ at' = current
        /\ UNCHANGED <<status, current, execs, saved, kept, rounds, crashes>>
    BY <1>20 DEF Continue, db
  <2>2. Attempts' = Attempts
    BY <2>1 DEF Attempts
  <2>3. work'.iteration = rounds
    <3>1. CASE saved
      BY <1>20, <3>1, <2>1, <1>1 DEF Continue, CheckpointInv, TypeOK, WorkRecord
    <3>2. CASE ~saved
      BY <1>20, <3>2 DEF Continue, Fresh
    <3> QED
      BY <3>1, <3>2
  <2>4. RoundsInv' /\ PhaseInv' /\ CheckpointInv'
    BY <2>1, <2>2, <2>3, <1>1 DEF RoundsInv, PhaseInv, CheckpointInv, Active
  <2>5. AttemptsInv'
    BY <2>1, <2>2, <1>1 DEF AttemptsInv, Active, ExecutionsBounded, Quota
  <2> QED
    BY <2>4, <2>5, <1>2 DEF WorkInv
<1>21. CASE UNCHANGED vars
  <2>1. UNCHANGED <<status, current, execs, saved, kept, rounds, pc, at, work, crashes>>
    BY <1>21 DEF vars, db, memory
  <2> QED
    BY <2>1, <1>1, <1>2
       DEF WorkInv, RoundsInv, CheckpointInv, AttemptsInv, PhaseInv, Attempts, Quota,
           ExecutionsBounded
<1> QED
  BY <1>8, <1>9, <1>10, <1>11, <1>12, <1>13, <1>14, <1>15, <1>16, <1>17, <1>18, <1>19,
     <1>20, <1>21 DEF Next, Worker, Judge

\* In every behaviour the invariant holds.
LEMMA WorkAlways == Spec => []WorkInv
<1>1. Init => WorkInv
  BY WorkInit
<1>2. WorkInv /\ [Next]_vars => WorkInv'
  BY WorkStep
<1> QED
  BY <1>1, <1>2, PTL DEF Spec

\* The pullers' work for one run is bounded, for every flow: also for one whose
\* first step loops, which the validator does not look at.
THEOREM BoundedWork == Spec => []ExecutionsBounded
<1>1. WorkInv => ExecutionsBounded
  BY DEF WorkInv, AttemptsInv
<1> QED
  BY <1>1, WorkAlways, PTL

-----------------------------------------------------------------------------
(* One open execution, and nothing left of a run that is over.             *)

\* What is open is the latest execution, of the current step, and no worker
\* that is past its answer has one.
OpenInv ==
  \A k \in 1 .. Attempts :
    execs[k].state = "open" =>
      /\ k = Attempts
      /\ execs[k].step = current
      /\ pc \in {"ready", "emit", "step"} => at = current
      /\ pc \notin {"answered", "spent", "headline"}

NothingOpen == \A k \in 1 .. Attempts : execs[k].state # "open"

\* Every action keeps it.
LEMMA OpenStepKeeps ==
  ASSUME WorkInv, OpenInv, [Next]_vars
  PROVE  OpenInv'
<1>1. TypeOK /\ RoundsInv /\ execs \in Seq(Execution) /\ Attempts = Len(execs)
  BY DEF WorkInv, TypeOK, Attempts
<1>2. \A k \in 1 .. Attempts : execs[k].step \in Step
  <2>1. \A k \in 1 .. Len(execs) : execs[k] \in Execution
    BY <1>1
  <2> QED
    BY <1>1, <2>1 DEF Execution
<1>3. CASE execs' = FailOpen(Step)
  <2>1. Attempts' = Attempts /\ \A k \in 1 .. Attempts : execs'[k].state # "open"
    BY <1>1, <1>2, <1>3, FailOpenTypes DEF Attempts
  <2> QED
    BY <2>1 DEF OpenInv
<1>4. CASE OpenStep
  <2>1. pc = "emit" /\ pc' = "step" /\ current' = current /\ at' = at /\ at = current
    BY <1>1, <1>4 DEF OpenStep, RoundsInv
  <2> DEFINE closed == FailOpen({at})
  <2>2. /\ closed \in Seq(Execution) /\ Len(closed) = Attempts
        /\ \A k \in 1 .. Attempts :
             /\ closed[k].state # "open" \/ closed[k].state = execs[k].state
             /\ execs[k].step = at => closed[k].state # "open"
    BY <1>1, FailOpenTypes
  <2>3. \A k \in 1 .. Attempts : closed[k].state # "open"
    BY <2>1, <2>2 DEF OpenInv
  <2> DEFINE opened ==
        [step |-> at, state |-> "open", reply |-> "none",
         draft |-> DraftFor(work.outputs, at), remarks |-> work.remarks,
         late |-> flagged \/ status # "running"]
  <2>4. opened.step = at /\ execs' = Append(closed, opened)
    BY <1>4 DEF OpenStep
  <2> HIDE DEF opened, closed
  <2>5. Attempts' = Attempts + 1 /\ Attempts \in Nat
    BY <2>2, <2>4, <1>1 DEF Attempts
  <2>6. /\ Append(closed, opened)[Len(closed) + 1] = opened
        /\ \A k \in 1 .. Len(closed) : Append(closed, opened)[k] = closed[k]
    BY <2>2, AppendElements
  <2>7. /\ execs'[Attempts + 1] = opened
        /\ \A k \in 1 .. Attempts : execs'[k] = closed[k]
    BY <2>2, <2>4, <2>6
  <2>8. \A k \in 1 .. Attempts + 1 : k # Attempts + 1 => k \in 1 .. Attempts
    BY <2>5
  <2>9. \A k \in 1 .. Attempts + 1 : execs'[k].state = "open" => k = Attempts + 1
    BY <2>3, <2>7, <2>8
  <2> QED
    BY <2>1, <2>4, <2>5, <2>7, <2>9 DEF OpenInv
<1>5. CASE Answer
  <2>1. /\ Len(execs') = Len(execs)
        /\ \A k \in 1 .. Len(execs) :
             /\ k # Attempts => execs'[k] = execs[k]
             /\ k = Attempts => execs'[k].state \in {"completed", "failed"}
    BY <1>1, <1>5, AnswerTypes
  <2>2. Attempts' = Attempts /\ \A k \in 1 .. Attempts : execs'[k].state # "open"
    BY <1>1, <2>1 DEF OpenInv, Attempts
  <2> QED
    BY <2>2 DEF OpenInv
<1>6. CASE UNCHANGED execs /\ pc \in {"answered", "spent", "headline"}
  <2>1. Attempts' = Attempts /\ NothingOpen
    BY <1>6 DEF OpenInv, Attempts, NothingOpen
  <2> QED
    BY <1>6, <2>1 DEF OpenInv, NothingOpen
<1>7. CASE UNCHANGED <<execs, current>> /\ pc' \in {"ended", "down", "up"}
  BY <1>7 DEF OpenInv, Attempts
<1>8. CASE CheckStep
  BY <1>8 DEF CheckStep, OpenInv, Attempts
<1>9. CASE UNCHANGED <<execs, current, pc, at>>
  BY <1>9 DEF OpenInv, Attempts
<1>10. CASE Continue
  BY <1>10 DEF Continue, db, OpenInv, Attempts
<1>11. CASE RunsOut \/ Crash \/ Restart
  <2>1. UNCHANGED <<execs, current>> /\ pc' \in {"ended", "down", "up"}
    BY <1>11 DEF RunsOut, Crash, Restart, Ends, db
  <2> QED
    BY <1>7, <2>1
<1>12. CASE StepRaises \/ NoticesStop \/ StopRun
  <2>1. execs' = FailOpen(Step)
    BY <1>12 DEF StepRaises, NoticesStop, StopRun
  <2> QED
    BY <1>3, <2>1
<1>13. CASE Judge \/ Spent \/ Deliver
  <2>1. UNCHANGED execs /\ pc \in {"answered", "spent", "headline"}
    BY <1>13 DEF Judge, Advance, SendBack, Accept, AcceptNothing, Undecided, Judging, Spent,
                 Deliver, db
  <2> QED
    BY <1>6, <2>1
<1>14. CASE RequestStop \/ UNCHANGED vars
  <2>1. UNCHANGED <<execs, current, pc, at>>
    BY <1>14 DEF RequestStop, vars, db, memory
  <2> QED
    BY <1>9, <2>1
<1> QED
  BY <1>4, <1>5, <1>8, <1>10, <1>11, <1>12, <1>13, <1>14 DEF Next, Worker

\* At most one execution of a run is open, and it is of the current step,
\* whatever stops and crashes have left behind.
THEOREM OneExecutionIsOpen == Spec => []OneOpenExecution
<1>1. Init => OpenInv
  BY DEF Init, OpenInv, Attempts
<1>2. WorkInv /\ OpenInv /\ [Next]_vars => OpenInv'
  BY OpenStepKeeps
<1>3. WorkInv /\ OpenInv => OneOpenExecution
  <2>1. WorkInv => DOMAIN execs = 1 .. Attempts
    BY DEF WorkInv, TypeOK, Attempts
  <2> QED
    BY <2>1 DEF OpenInv, OneOpenExecution
<1> QED
  BY <1>1, <1>2, <1>3, WorkAlways, PTL DEF Spec

\* A run that was stopped or is complete keeps no checkpoint: no worker writes
\* one back that comes late.
THEOREM EndedIsForgotten == Spec => []EndedRunIsForgotten
<1>1. Init => EndedRunIsForgotten
  BY DEF Init, EndedRunIsForgotten
<1>2. TypeOK /\ EndedRunIsForgotten /\ [Next]_vars => EndedRunIsForgotten'
  <2> SUFFICES ASSUME TypeOK, EndedRunIsForgotten, [Next]_vars
               PROVE  EndedRunIsForgotten'
    OBVIOUS
  <2>1. CASE Judging /\ status' = status
    BY <2>1 DEF Judging, Stopped, EndedRunIsForgotten
  <2>2. CASE status' = "failed" \/ status' = "running" \/ saved' = FALSE
    BY <2>2 DEF EndedRunIsForgotten
  <2>3. CASE UNCHANGED <<status, saved>>
    BY <2>3 DEF EndedRunIsForgotten
  <2>4. CASE RunsOut \/ StepRaises \/ Spent \/ AcceptNothing \/ Undecided \/ Deliver \/ StopRun
    <3>1. status' = "failed" \/ saved' = FALSE
      BY <2>4 DEF RunsOut, StepRaises, Spent, AcceptNothing, Undecided, Deliver, StopRun,
                  Ends, Forget
    <3> QED
      BY <2>2, <3>1
  <2>5. CASE NoticesStop
    <3>1. CASE status = "running"
      BY <2>2, <2>5, <3>1 DEF NoticesStop, Forget
    <3>2. CASE status # "running"
      BY <2>3, <2>5, <3>2 DEF NoticesStop, Ends
    <3> QED
      BY <3>1, <3>2
  <2>6. CASE Advance \/ SendBack
    BY <2>1, <2>6 DEF Advance, SendBack
  <2>7. CASE Restart
    BY <2>2, <2>7 DEF Restart, Ends
  <2>8. CASE CheckStep \/ OpenStep \/ Answer \/ Accept \/ RequestStop \/ Crash \/ Continue
             \/ UNCHANGED vars
    <3>1. UNCHANGED <<status, saved>>
      BY <2>8 DEF CheckStep, OpenStep, Answer, Accept, RequestStop, Crash, Continue, vars, db
    <3> QED
      BY <2>3, <3>1
  <2> QED
    BY <2>4, <2>5, <2>6, <2>7, <2>8 DEF Next, Worker, Judge
<1> QED
  BY <1>1, <1>2, TypeCorrect, PTL DEF Spec

-----------------------------------------------------------------------------
(* FlowPipeline implements ReviewCycle.                                    *)

\* A step that leaves the status and the rounds alone is a stutter.
LEMMA CycleStutter ==
  ASSUME UNCHANGED <<status, rounds>>
  PROVE  UNCHANGED Cycle!cycleVars
BY DEF Cycle!cycleVars, Phase

\* A run that is not over may fail.
LEMMA CycleDrop ==
  ASSUME status \in {"running", "cancelled"}, status' = "failed",
         UNCHANGED rounds
  PROVE  Cycle!Drop
<1>1. Phase \in {"open", "stopped"} /\ Phase' = "dropped"
  BY DEF Phase
<1> QED
  BY <1>1 DEF Cycle!Drop

\* A run that goes on may be stopped.
LEMMA CycleStop ==
  ASSUME status = "running", status' = "cancelled", UNCHANGED rounds
  PROVE  Cycle!Stop
<1>1. Phase = "open" /\ Phase' = "stopped"
  BY DEF Phase
<1> QED
  BY <1>1 DEF Cycle!Stop

\* Every step of the flow is a step of the cycle, or none.
LEMMA CycleStep ==
  ASSUME WorkInv, [Next]_vars
  PROVE  [Cycle!Next]_(Cycle!cycleVars)
<1>1. TypeOK /\ RoundsInv /\ CheckpointInv /\ PhaseInv /\ TypeOK'
  BY TypeStep DEF WorkInv
<1>2. work.iteration \in Nat
  BY <1>1 DEF TypeOK, WorkRecord
<1>3. CASE RunsOut \/ StepRaises \/ Spent \/ AcceptNothing \/ Undecided
  <2>1. pc \in {"ready", "step", "spent", "answered"}
    BY <1>3 DEF RunsOut, StepRaises, Spent, AcceptNothing, Undecided, Judging
  <2>2. status' = "failed" /\ UNCHANGED rounds
    BY <1>3 DEF RunsOut, StepRaises, Spent, AcceptNothing, Undecided, Ends
  <2>3. Cycle!Drop
    BY <2>1, <2>2, <1>1, CycleDrop DEF PhaseInv
  <2> QED
    BY <2>3 DEF Cycle!Next
<1>4. CASE NoticesStop
  <2>1. CASE status = "running"
    <3>1. status' = "cancelled" /\ UNCHANGED rounds
      BY <1>4, <2>1 DEF NoticesStop, Ends
    <3> QED
      BY <2>1, <3>1, <1>1, CycleStop DEF Cycle!Next
  <2>2. CASE status # "running"
    BY <1>4, <2>2, CycleStutter DEF NoticesStop, Ends
  <2> QED
    BY <2>1, <2>2
<1>5. CASE StopRun
  <2>1. status = "running" /\ status' = "cancelled" /\ UNCHANGED rounds
    BY <1>5 DEF StopRun
  <2> QED
    BY <2>1, <1>1, CycleStop DEF Cycle!Next
<1>6. CASE Advance
  <2>1. pc = "answered" /\ status' = status /\ rounds' = Read.iteration
    BY <1>6 DEF Advance, Judging, Save
  <2>2. Read.iteration = work.iteration
    BY <1>1 DEF TypeOK, WorkRecord, Read
  <2>3. rounds' = rounds
    BY <2>1, <2>2, <1>1 DEF RoundsInv, Active
  <2> QED
    BY <2>1, <2>3, CycleStutter
<1>7. CASE SendBack
  <2>1. /\ pc = "answered" /\ status = "running" /\ status' = status
        /\ rounds' = SentBack.iteration
    BY <1>7 DEF SendBack, Judging, Stopped, Save
  <2>2. SentBack.iteration = work.iteration + 1
    BY DEF SentBack
  <2>3. rounds <= MaxIterations /\ rounds' = rounds + 1
    BY <2>1, <2>2, <1>1 DEF RoundsInv, Active
  <2>4. Phase = "open" /\ Phase' = Phase
    BY <2>1 DEF Phase
  <2>5. Cycle!SendBack
    BY <2>3, <2>4 DEF Cycle!SendBack
  <2> QED
    BY <2>5 DEF Cycle!Next
<1>8. CASE Deliver
  <2>1. pc = "headline" /\ status' = "completed" /\ UNCHANGED rounds
    BY <1>8 DEF Deliver, Ends
  <2>2. rounds <= MaxIterations /\ status \in {"running", "cancelled"}
    BY <2>1, <1>1 DEF RoundsInv, PhaseInv
  <2>3. Phase \in {"open", "stopped"} /\ Phase' = "delivered"
    BY <2>1, <2>2 DEF Phase
  <2>4. Cycle!Deliver
    BY <2>1, <2>2, <2>3 DEF Cycle!Deliver
  <2> QED
    BY <2>4 DEF Cycle!Next
<1>9. CASE Restart
  <2>1. pc = "down" /\ status = "running"
    BY <1>9 DEF Restart
  <2>2. rounds' = rounds
    <3>1. CASE Rebuildable
      <4>1. rounds = 0 /\ \A k \in 1 .. Attempts : execs[k].step = 1
        BY <2>1, <3>1, <1>1 DEF Rebuildable, CheckpointInv
      <4>2. Rebuilt.iteration = 0
        BY <4>1, <1>1, NothingToRebuild
      <4> QED
        BY <1>9, <3>1, <4>1, <4>2 DEF Restart, Save
    <3>2. CASE ~Rebuildable
      BY <1>9, <3>2 DEF Restart
    <3> QED
      BY <3>1, <3>2
  <2>3. status' = status \/ status' = "failed"
    BY <1>9 DEF Restart, Ends
  <2>4. CASE status' = status
    BY <2>2, <2>4, CycleStutter
  <2>5. CASE status' = "failed"
    BY <2>1, <2>2, <2>5, <1>1, CycleDrop DEF Cycle!Next
  <2> QED
    BY <2>3, <2>4, <2>5
<1>10. CASE CheckStep \/ OpenStep \/ Answer \/ Accept \/ RequestStop \/ Crash \/ Continue
            \/ UNCHANGED vars
  <2>1. UNCHANGED <<status, rounds>>
    BY <1>10 DEF CheckStep, OpenStep, Answer, Accept, RequestStop, Crash, Continue, vars, db
  <2> QED
    BY <2>1, CycleStutter
<1> QED
  BY <1>3, <1>4, <1>5, <1>6, <1>7, <1>8, <1>9, <1>10 DEF Next, Worker, Judge

\* Steps, checkpoints, stops and crashes implement the abstract review cycle.
THEOREM ImplementsReviewCycle == Spec => ImplementsCycle
<1>1. Init => Cycle!Init
  BY DEF Init, Cycle!Init, Phase
<1>2. WorkInv /\ [Next]_vars => [Cycle!Next]_(Cycle!cycleVars)
  BY CycleStep
<1> QED
  BY <1>1, <1>2, WorkAlways, PTL DEF Spec, ImplementsCycle, Cycle!Spec
-----------------------------------------------------------------------------
(* What a step of the run does to its rows.                                *)

\* What of a row never changes: the step, what its prompt showed and quoted,
\* and whether it came late.
SamePrompt(a, b) ==
  a.step = b.step /\ a.draft = b.draft /\ a.remarks = b.remarks /\ a.late = b.late

\* Rows are numbered from 1.
LEMMA RowTypes ==
  ASSUME TypeOK
  PROVE  /\ Attempts \in Nat
         /\ Attempts = Len(execs)
         /\ DOMAIN execs = 1 .. Attempts
         /\ \A k \in 1 .. Attempts :
              /\ execs[k] \in Execution
              /\ execs[k].step \in Step
              /\ execs[k].draft \in Nat
<1>1. execs \in Seq(Execution) /\ Attempts = Len(execs)
  BY DEF TypeOK, Attempts
<1>2. DOMAIN execs = 1 .. Attempts /\ Attempts \in Nat
  BY <1>1
<1>3. \A k \in 1 .. Attempts : execs[k] \in Execution
  BY <1>1
<1> QED
  BY <1>1, <1>2, <1>3 DEF Execution

\* Failing open executions changes nothing of them but their state.
LEMMA FailOpenKeeps ==
  ASSUME TypeOK, NEW S
  PROVE  /\ DOMAIN FailOpen(S) = 1 .. Attempts
         /\ \A k \in 1 .. Attempts :
              /\ SamePrompt(FailOpen(S)[k], execs[k])
              /\ FailOpen(S)[k].reply = execs[k].reply
BY RowTypes DEF FailOpen, Execution, SamePrompt

\* A step is opened by a new row that says what its prompt shows.
LEMMA OpenedRow ==
  ASSUME TypeOK, OpenStep
  PROVE  /\ Attempts' = Attempts + 1
         /\ \A k \in 1 .. Attempts :
              SamePrompt(execs'[k], execs[k]) /\ execs'[k].reply = execs[k].reply
         /\ execs'[Attempts + 1].step = at
         /\ execs'[Attempts + 1].reply = "none"
         /\ execs'[Attempts + 1].draft = DraftFor(work.outputs, at)
         /\ execs'[Attempts + 1].remarks = work.remarks
         /\ execs'[Attempts + 1].late = Stopped
<1> DEFINE closed == FailOpen({at})
           opened == [step |-> at, state |-> "open", reply |-> "none",
                      draft |-> DraftFor(work.outputs, at), remarks |-> work.remarks,
                      late |-> flagged \/ status # "running"]
<1>1. closed \in Seq(Execution) /\ Len(closed) = Attempts
  BY FailOpenTypes DEF TypeOK, Attempts
<1>2. \A k \in 1 .. Attempts : SamePrompt(closed[k], execs[k]) /\ closed[k].reply = execs[k].reply
  BY FailOpenKeeps
<1>3. execs' = Append(closed, opened)
  BY DEF OpenStep
<1>4. /\ opened.step = at /\ opened.reply = "none"
      /\ opened.draft = DraftFor(work.outputs, at) /\ opened.remarks = work.remarks
  OBVIOUS
<1>5. opened.late = Stopped
  <2>1. opened.late = (flagged \/ status # "running")
    OBVIOUS
  <2>2. (flagged \/ status # "running") = Stopped
    BY DEF Stopped
  <2> QED
    BY <2>1, <2>2
<1> HIDE DEF closed, opened
<1>6. /\ execs'[Attempts + 1] = opened
      /\ \A k \in 1 .. Attempts : execs'[k] = closed[k]
  BY <1>1, <1>3, AppendElements
<1>7. Attempts' = Attempts + 1
  BY <1>1, <1>3, RowTypes DEF Attempts
<1> QED
  BY <1>2, <1>4, <1>5, <1>6, <1>7

\* An answer closes the latest row.
LEMMA AnsweredRow ==
  ASSUME TypeOK, Answer
  PROVE  /\ Attempts' = Attempts
         /\ \A k \in 1 .. Attempts :
              /\ SamePrompt(execs'[k], execs[k])
              /\ k # Attempts => execs'[k] = execs[k]
         /\ Attempts > 0 => execs'[Attempts].reply # "none"
<1>1. PICK state \in {"completed", "failed"}, reply \in Replies(at) \cup {"empty"} :
        execs' = [execs EXCEPT ![Attempts].state = state, ![Attempts].reply = reply]
  BY DEF Answer
<1>2. reply # "none"
  BY <1>1 DEF Replies, Verdicts
<1> DEFINE closed == [execs EXCEPT ![Attempts].state = state]
<1>3. DOMAIN execs = 1 .. Attempts /\ Attempts \in Nat
  BY RowTypes
<1>4. \A k \in 1 .. Attempts : execs[k] \in Execution
  BY RowTypes
<1>5. /\ DOMAIN closed = 1 .. Attempts
      /\ \A k \in 1 .. Attempts :
           closed[k] = IF k = Attempts THEN [execs[k] EXCEPT !.state = state] ELSE execs[k]
  BY <1>3
<1>6. execs' = [closed EXCEPT ![Attempts].reply = reply]
  BY <1>1
<1> HIDE DEF closed
<1>7. \A k \in 1 .. Attempts :
        execs'[k] = IF k = Attempts THEN [closed[k] EXCEPT !.reply = reply] ELSE closed[k]
  BY <1>5, <1>6
<1>8. \A k \in 1 .. Attempts :
        /\ SamePrompt(execs'[k], execs[k])
        /\ k # Attempts => execs'[k] = execs[k]
        /\ k = Attempts => execs'[k].reply = reply
  <2> SUFFICES ASSUME NEW k \in 1 .. Attempts
               PROVE  /\ SamePrompt(execs'[k], execs[k])
                      /\ k # Attempts => execs'[k] = execs[k]
                      /\ k = Attempts => execs'[k].reply = reply
    OBVIOUS
  <2>1. CASE k = Attempts
    <3> DEFINE row == execs[k]
    <3>1. closed[k] = [row EXCEPT !.state = state] /\ row \in Execution
      BY <2>1, <1>4, <1>5
    <3>2. execs'[k] = [closed[k] EXCEPT !.reply = reply]
      BY <2>1, <1>7
    <3> HIDE DEF row
    <3>3. /\ closed[k].step = row.step /\ closed[k].draft = row.draft
          /\ closed[k].remarks = row.remarks /\ closed[k].late = row.late
          /\ DOMAIN closed[k] = DOMAIN row
      BY <3>1 DEF Execution
    <3>4. DOMAIN row = {"step", "state", "reply", "draft", "remarks", "late"}
      BY <3>1 DEF Execution
    <3>5. SamePrompt(execs'[k], row) /\ execs'[k].reply = reply
      BY <3>2, <3>3, <3>4 DEF SamePrompt
    <3> QED
      BY <2>1, <3>5 DEF row
  <2>2. CASE k # Attempts
    BY <2>2, <1>4, <1>5, <1>7 DEF SamePrompt
  <2> QED
    BY <2>1, <2>2
<1>9. Attempts' = Attempts
  BY AnswerTypes DEF TypeOK, Attempts
<1> QED
  BY <1>2, <1>3, <1>8, <1>9

\* No other step adds a row or changes more of one than its state.
LEMMA OtherRows ==
  ASSUME TypeOK, [Next]_vars, ~OpenStep, ~Answer
  PROVE  /\ Attempts' = Attempts
         /\ \A k \in 1 .. Attempts :
              SamePrompt(execs'[k], execs[k]) /\ execs'[k].reply = execs[k].reply
<1>1. CASE UNCHANGED execs
  BY <1>1 DEF Attempts, SamePrompt
<1>2. CASE execs' = FailOpen(Step)
  <2>1. Attempts' = Attempts
    BY <1>2, FailOpenTypes DEF Attempts, TypeOK
  <2> QED
    BY <1>2, <2>1, FailOpenKeeps
<1>3. execs' = FailOpen(Step) \/ UNCHANGED execs
  BY DEF Next, Worker, Judge, vars, db, RunsOut, CheckStep, StepRaises, NoticesStop, Advance,
         SendBack, Spent, Accept, AcceptNothing, Undecided, Deliver, RequestStop, StopRun,
         Crash, Restart, Continue
<1> QED
  BY <1>1, <1>2, <1>3

-----------------------------------------------------------------------------
(* What is opened late.                                                    *)

Late == {k \in DOMAIN execs : execs[k].late}

\* A worker that opened a step late sees the stop when the answer is there: it
\* opens no other, unless a crash makes the process forget the request.
LateInv ==
  \/ Cardinality(Late) <= crashes
  \/ /\ Cardinality(Late) <= crashes + 1
     /\ pc = "ended" \/ (pc \in {"step", "answered"} /\ Stopped)

\* The rows that came late are finitely many.
LEMMA LateFinite ==
  ASSUME TypeOK
  PROVE  IsFiniteSet(Late) /\ Cardinality(Late) \in Nat
<1>1. IsFiniteSet(1 .. Attempts)
  BY RowTypes, FS_Interval
<1>2. Late \subseteq 1 .. Attempts
  BY RowTypes DEF Late
<1> QED
  BY <1>1, <1>2, FS_Subset, FS_CardinalityType

\* Rows that were there stay late or in time.
LEMMA LateStays ==
  ASSUME TypeOK, [Next]_vars, ~OpenStep
  PROVE  Late' = Late
<1>1. TypeOK'
  BY TypeStep
<1>2. DOMAIN execs = 1 .. Attempts /\ DOMAIN execs' = 1 .. Attempts'
  BY <1>1, RowTypes DEF TypeOK, Attempts
<1>3. Attempts' = Attempts /\ \A k \in 1 .. Attempts : execs'[k].late = execs[k].late
  <2>1. CASE Answer
    BY <2>1, AnsweredRow DEF SamePrompt
  <2>2. CASE ~Answer
    BY <2>2, OtherRows DEF SamePrompt
  <2> QED
    BY <2>1, <2>2
<1> QED
  BY <1>2, <1>3 DEF Late

\* A step is opened late when the run was stopped.
LEMMA LateOpens ==
  ASSUME TypeOK, OpenStep
  PROVE  /\ ~Stopped => Late' = Late
         /\ Stopped => Late' = Late \cup {Attempts + 1}
<1>1. TypeOK'
  BY TypeStep DEF Next, Worker
<1>2. /\ DOMAIN execs = 1 .. Attempts /\ DOMAIN execs' = 1 .. Attempts + 1
      /\ Attempts \in Nat
  BY <1>1, RowTypes, OpenedRow DEF TypeOK, Attempts
<1>3. \A k \in 1 .. Attempts : execs'[k].late = execs[k].late
  BY OpenedRow DEF SamePrompt
<1>4. execs'[Attempts + 1].late = Stopped
  BY OpenedRow
<1>5. \A k : k \in DOMAIN execs' <=> k \in DOMAIN execs \/ k = Attempts + 1
  BY <1>2
<1>6. Attempts + 1 \notin DOMAIN execs
  BY <1>2
<1> QED
  BY <1>2, <1>3, <1>4, <1>5, <1>6 DEF Late

\* Every action keeps it.
LEMMA LateStep ==
  ASSUME TypeOK, LateInv, [Next]_vars
  PROVE  LateInv'
<1>1. Cardinality(Late) \in Nat /\ IsFiniteSet(Late) /\ crashes \in Nat
  BY LateFinite DEF TypeOK
<1>2. CASE OpenStep
  <2>1. pc = "emit" /\ pc' = "step" /\ crashes' = crashes /\ Stopped' = Stopped
    BY <1>2 DEF OpenStep, Stopped
  <2>2. Cardinality(Late) <= crashes
    BY <2>1 DEF LateInv
  <2>3. CASE ~Stopped
    <3>1. Late' = Late
      BY <1>2, <2>3, LateOpens
    <3> QED
      BY <2>1, <2>2, <3>1 DEF LateInv
  <2>4. CASE Stopped
    <3>1. Late' = Late \cup {Attempts + 1}
      BY <1>2, <2>4, LateOpens
    <3>2. Cardinality(Late') <= Cardinality(Late) + 1
      BY <1>1, <3>1, FS_AddElement
    <3> QED
      BY <1>1, <2>1, <2>2, <2>4, <3>2, FS_AddElement, <3>1 DEF LateInv
  <2> QED
    BY <2>3, <2>4
<1>3. CASE ~OpenStep
  <2>1. Late' = Late
    BY <1>3, LateStays
  <2>2. CASE Crash
    <3>1. crashes' = crashes + 1
      BY <2>2 DEF Crash
    <3> QED
      BY <1>1, <2>1, <3>1 DEF LateInv
  <2>3. CASE ~Crash
    <3>1. crashes' = crashes
      BY <2>3, <1>3 DEF Next, Worker, Judge, vars, RunsOut, CheckStep, Answer, StepRaises,
         NoticesStop, Advance, SendBack, Spent, Accept, AcceptNothing, Undecided, Deliver,
         RequestStop, StopRun, Restart, Continue
    <3>2. pc = "ended" => pc' = "ended"
      BY <2>3, <1>3 DEF Next, Worker, Judge, vars, memory, RunsOut, CheckStep, Answer, StepRaises,
         NoticesStop, Judging, Advance, SendBack, Spent, Accept, AcceptNothing, Undecided,
         Deliver, RequestStop, StopRun, Awaiting, Restart, Continue
    <3>3. pc \in {"step", "answered"} /\ Stopped =>
            pc' = "ended" \/ (pc' \in {"step", "answered"} /\ Stopped')
      BY <2>3, <1>3 DEF Next, Worker, Judge, vars, db, memory, RunsOut, CheckStep, Answer,
         StepRaises, NoticesStop, Judging, Advance, SendBack, Spent, Accept, AcceptNothing,
         Undecided, Deliver, RequestStop, StopRun, Awaiting, Restart, Continue, Stopped, Ends
    <3> QED
      BY <1>1, <2>1, <3>1, <3>2, <3>3 DEF LateInv
  <2> QED
    BY <2>2, <2>3
<1> QED
  BY <1>2, <1>3

\* A stopped run opens at most one more step, and one more for every crash.
THEOREM LateWorkIsBounded == Spec => []LateWorkBounded
<1>1. Init => LateInv
  <2> SUFFICES ASSUME Init PROVE LateInv
    OBVIOUS
  <2>1. Late = {} /\ crashes = 0
    BY DEF Init, Late
  <2>2. Cardinality(Late) = 0
    BY <2>1, FS_EmptySet
  <2> QED
    BY <2>1, <2>2 DEF LateInv
<1>2. TypeOK /\ LateInv /\ [Next]_vars => LateInv'
  BY LateStep
<1>3. TypeOK /\ LateInv => LateWorkBounded
  <2> SUFFICES ASSUME TypeOK, LateInv PROVE LateWorkBounded
    OBVIOUS
  <2>1. Cardinality(Late) \in Nat /\ crashes \in Nat
    BY LateFinite DEF TypeOK
  <2> QED
    BY <2>1 DEF LateInv, LateWorkBounded, Late
<1> QED
  BY <1>1, <1>2, <1>3, TypeCorrect, PTL DEF Spec

-----------------------------------------------------------------------------
(* What a rewrite quotes.                                                  *)

\* The worker, the checkpoint and the row that is open agree on the review
\* that sent the draft back last; without a checkpoint there was none.
RemarksInv ==
  /\ pc \in Active => work.remarks = sentBack
  /\ status = "running" => IF saved THEN kept.remarks = sentBack ELSE sentBack = 0
  /\ pc = "step" => Attempts > 0 /\ Latest.remarks = sentBack

\* While all executions are of the first step, no review is quoted.
LEMMA NothingToQuote ==
  ASSUME TypeOK, \A k \in 1 .. Attempts : execs[k].step = 1
  PROVE  Rebuilt.remarks = 0
<1>1. flow.gate # 0 => flow.gate # Steps /\ flow.gate \in 0 .. Steps
  BY FlowsAssumption DEF TypeOK, Admitted, FlowShape
<1>2. flow.gate # 0 => Steps # 1
  BY <1>1, StepsAssumption
<1>3. \A k \in DOMAIN execs : execs[k].step = 1
  BY RowTypes
<1>4. GateRejections = {}
  BY <1>2, <1>3 DEF GateRejections, CompletedOf
<1>5. Newest(GateRejections) = 0
  BY <1>4 DEF Newest
<1> QED
  BY <1>5 DEF Rebuilt

\* Every action keeps it.
LEMMA RemarksStep ==
  ASSUME WorkInv, RemarksInv, [Next]_vars
  PROVE  RemarksInv'
<1>1. TypeOK /\ CheckpointInv
  BY DEF WorkInv
<1>2. CASE OpenStep
  <2>1. /\ Attempts' = Attempts + 1 /\ Attempts \in Nat
        /\ execs'[Attempts + 1].remarks = work.remarks
    BY <1>1, <1>2, OpenedRow, RowTypes
  <2>2. Latest'.remarks = sentBack
    BY <1>2, <2>1 DEF OpenStep, RemarksInv, Active, Latest
  <2> QED
    BY <1>2, <2>1, <2>2 DEF OpenStep, RemarksInv, Active
<1>3. CASE Answer
  BY <1>3 DEF Answer, RemarksInv, Active
<1>4. CASE Advance
  <2>1. Read.remarks = work.remarks
    BY <1>1 DEF Read, TypeOK, WorkRecord
  <2> QED
    BY <1>4, <2>1 DEF Advance, Judging, Save, RemarksInv, Active
<1>5. CASE SendBack
  <2>1. SentBack.remarks = Attempts
    BY DEF SentBack
  <2> QED
    BY <1>5, <2>1 DEF SendBack, Save, RemarksInv, Active
<1>6. CASE Accept
  <2>1. Read.remarks = work.remarks
    BY <1>1 DEF Read, TypeOK, WorkRecord
  <2> QED
    BY <1>6, <2>1 DEF Accept, Judging, db, RemarksInv, Active
<1>7. CASE Restart
  <2>1. pc = "down" /\ status = "running" /\ pc' \in {"up", "ended"} /\ sentBack' = sentBack
    BY <1>7 DEF Restart, Ends
  <2>2. CASE Rebuildable
    <3>1. \A k \in 1 .. Attempts : execs[k].step = 1
      BY <2>1, <2>2, <1>1 DEF Rebuildable, CheckpointInv
    <3>2. Rebuilt.remarks = 0
      BY <3>1, <1>1, NothingToQuote
    <3>3. saved' = TRUE /\ kept'.remarks = 0 /\ sentBack = 0
      BY <1>7, <2>1, <2>2, <3>2 DEF Restart, Save, Rebuildable, RemarksInv
    <3> QED
      BY <2>1, <3>3 DEF RemarksInv, Active
  <2>3. CASE ~Rebuildable
    <3>1. UNCHANGED <<saved, kept>>
      BY <1>7, <2>3 DEF Restart
    <3> QED
      BY <2>1, <3>1 DEF RemarksInv, Active
  <2> QED
    BY <2>2, <2>3
<1>8. CASE Continue
  <2>1. /\ status = "running" /\ pc' = "ready"
        /\ UNCHANGED <<status, saved, kept, sentBack>>
    BY <1>8 DEF Continue, db
  <2>2. work'.remarks = sentBack
    <3>1. CASE saved
      BY <1>8, <3>1, <2>1, <1>1 DEF Continue, RemarksInv, TypeOK, WorkRecord
    <3>2. CASE ~saved
      BY <1>8, <3>2, <2>1 DEF Continue, RemarksInv, Fresh
    <3> QED
      BY <3>1, <3>2
  <2> QED
    BY <2>1, <2>2 DEF RemarksInv, Active
<1>9. CASE ~OpenStep /\ ~Answer /\ UNCHANGED <<work, sentBack>> /\ pc' \in {pc, "emit", "down", "ended"}
           /\ (pc' = "emit" => pc \in Active)
           /\ (status' = "running" => status = "running" /\ UNCHANGED <<saved, kept>>)
  <2>1. Attempts \in Nat /\ Attempts' = Attempts
    BY <1>1, <1>9, RowTypes, OtherRows
  <2>2. pc' = "step" => pc = "step" /\ Latest'.remarks = Latest.remarks
    <3>1. \A k \in 1 .. Attempts : execs'[k].remarks = execs[k].remarks
      BY <1>1, <1>9, OtherRows DEF SamePrompt
    <3>2. CASE pc = "step"
      <4>1. Attempts \in 1 .. Attempts
        BY <2>1, <3>2 DEF RemarksInv
      <4> QED
        BY <2>1, <3>1, <3>2, <4>1 DEF Latest
    <3> QED
      BY <1>9, <3>2
  <2> QED
    BY <1>9, <2>1, <2>2 DEF RemarksInv, Active
<1>10. CASE RunsOut \/ StepRaises \/ NoticesStop \/ Spent \/ AcceptNothing \/ Undecided \/ Deliver
  <2>1. /\ UNCHANGED <<work, sentBack>> /\ pc' = "ended" /\ status' # "running"
    BY <1>10 DEF RunsOut, StepRaises, NoticesStop, Spent, AcceptNothing, Undecided, Deliver, Ends
  <2> QED
    BY <2>1 DEF RemarksInv, Active
<1>11. CASE CheckStep \/ RequestStop \/ StopRun \/ UNCHANGED vars
  <2>1. ~OpenStep
    BY <1>11 DEF OpenStep, CheckStep, RequestStop, StopRun, vars, memory, db, Awaiting
  <2>2. ~Answer
    BY <1>11 DEF Answer, CheckStep, RequestStop, StopRun, vars, memory, db, Awaiting
  <2> QED
    BY <1>9, <1>11, <2>1, <2>2 DEF CheckStep, RequestStop, StopRun, vars, memory, db, Active
<1>12. CASE Crash
  BY <1>12 DEF Crash, db, RemarksInv, Active
<1> QED
  BY <1>2, <1>3, <1>4, <1>5, <1>6, <1>7, <1>8, <1>10, <1>11, <1>12 DEF Next, Worker, Judge

\* A rewrite quotes the review that sent the draft back last, wherever the
\* process went down and whatever its checkpoint was rebuilt from.
THEOREM RemarksAreAlwaysCurrent == Spec => []RemarksAreCurrent
<1>1. Init => RemarksInv
  BY DEF Init, RemarksInv, Fresh, Active
<1>2. WorkInv /\ RemarksInv /\ [Next]_vars => RemarksInv'
  BY RemarksStep
<1>3. RemarksInv => RemarksAreCurrent
  BY DEF RemarksInv, RemarksAreCurrent
<1> QED
  BY <1>1, <1>2, <1>3, WorkAlways, PTL DEF Spec

-----------------------------------------------------------------------------
(* What is delivered.                                                      *)

\* The latest row is of the worker's step and shows the draft the worker has.
LatestInv ==
  pc \in {"step", "answered"} =>
    /\ Attempts > 0
    /\ Latest.step = at
    /\ Latest.draft = DraftFor(work.outputs, at)

\* A review of an article that another step wrote.
Reviewed == flow.gate # 0 /\ flow.article # Steps

\* While the headline is awaited the accepting review is the latest row, and it
\* was shown the text to deliver.
AcceptInv ==
  /\ pc = "headline" /\ Reviewed =>
       /\ Attempts > 0
       /\ Latest.reply = "accept"
       /\ Latest.step = Steps
       /\ Latest.draft = ArticleBody(work.outputs)
  /\ article # 0 => pc = "ended"
  /\ AcceptedIsDelivered

\* A step that is neither opened nor answered leaves the latest row's prompt and
\* reply alone.
LEMMA LatestStays ==
  ASSUME TypeOK, [Next]_vars, ~OpenStep, ~Answer, Attempts > 0
  PROVE  /\ Attempts' = Attempts
         /\ SamePrompt(Latest', Latest) /\ Latest'.reply = Latest.reply
<1>1. Attempts \in 1 .. Attempts
  BY RowTypes
<1> QED
  BY <1>1, OtherRows DEF Latest

\* Every action keeps what is known of the latest row.
LEMMA LatestStep ==
  ASSUME TypeOK, LatestInv, [Next]_vars
  PROVE  LatestInv'
<1>1. Attempts \in Nat
  BY RowTypes
<1>2. flow' = flow
  BY DEF Next, Worker, Judge, vars, RunsOut, CheckStep, OpenStep, Answer, StepRaises,
         NoticesStop, Advance, SendBack, Spent, Accept, AcceptNothing, Undecided, Deliver,
         RequestStop, StopRun, Crash, Restart, Continue
<1>3. CASE OpenStep
  <2>1. /\ Attempts' = Attempts + 1
        /\ Latest'.step = at /\ Latest'.draft = DraftFor(work.outputs, at)
    BY <1>3, OpenedRow DEF Latest
  <2>2. at' = at /\ work' = work
    BY <1>3 DEF OpenStep
  <2> QED
    BY <1>1, <1>2, <2>1, <2>2 DEF LatestInv, DraftFor
<1>4. CASE Answer
  <2>1. pc = "step" /\ at' = at /\ work' = work
    BY <1>4 DEF Answer
  <2>2. Attempts > 0 /\ Attempts' = Attempts /\ SamePrompt(Latest', Latest)
    BY <1>1, <1>4, <2>1, AnsweredRow DEF LatestInv, Latest
  <2> QED
    BY <1>2, <2>1, <2>2 DEF LatestInv, DraftFor, SamePrompt
<1>5. CASE ~OpenStep /\ ~Answer
  <2>1. pc' \in {"step", "answered"} => pc' = pc /\ at' = at /\ work' = work
    BY <1>5 DEF Next, Worker, Judge, vars, memory, RunsOut, CheckStep, StepRaises,
         NoticesStop, Advance, SendBack, Spent, Accept, AcceptNothing, Undecided, Deliver,
         RequestStop, StopRun, Crash, Restart, Continue, Ends
  <2>2. Attempts > 0 => Attempts' = Attempts /\ SamePrompt(Latest', Latest)
    BY <1>5, LatestStays
  <2> QED
    BY <1>2, <2>1, <2>2 DEF LatestInv, DraftFor, SamePrompt
<1> QED
  BY <1>3, <1>4, <1>5

\* The text to deliver is the draft that the last step was shown: that step's
\* own text is not the article.
LEMMA AcceptedDraft ==
  ASSUME TypeOK, LatestInv, Accept, Reviewed
  PROVE  Latest.draft = ArticleBody(Read.outputs)
<1>1. at = Steps /\ Latest.draft = DraftFor(work.outputs, Steps)
  BY DEF Accept, Judging, LatestInv
<1>2. /\ flow.gate \in 1 .. Steps /\ flow.gate # Steps
      /\ flow.article \in Step /\ flow.article # Steps /\ Steps \in Nat
  BY FlowsAssumption, StepsAssumption DEF Reviewed, TypeOK, Admitted, FlowShape
<1>3. Steps > 1 /\ 1 \in Step /\ Steps # 1
  BY <1>2 DEF Step
<1>4. /\ Read.outputs[flow.article] = work.outputs[flow.article]
      /\ Read.outputs[1] = work.outputs[1]
  BY <1>1, <1>2, <1>3 DEF Read, TypeOK, WorkRecord
<1> QED
  BY <1>1, <1>3, <1>4 DEF DraftFor, ArticleBody

\* Every action keeps it.
LEMMA AcceptStep ==
  ASSUME TypeOK, LatestInv, AcceptInv, [Next]_vars
  PROVE  AcceptInv'
<1>1. flow' = flow
  BY DEF Next, Worker, Judge, vars, RunsOut, CheckStep, OpenStep, Answer, StepRaises,
         NoticesStop, Advance, SendBack, Spent, Accept, AcceptNothing, Undecided, Deliver,
         RequestStop, StopRun, Crash, Restart, Continue
<1>2. CASE Accept
  <2>1. pc = "answered" /\ at = Steps /\ work' = Read /\ UNCHANGED <<execs, article>>
    BY <1>2 DEF Accept, Judging, db
  <2>2. article = 0
    BY <2>1 DEF AcceptInv
  <2>3. Latest' = Latest /\ Attempts' = Attempts
    BY <2>1 DEF Latest, Attempts
  <2>4. Reviewed => /\ Attempts > 0 /\ Latest.reply = "accept" /\ Latest.step = Steps
                    /\ Latest.draft = ArticleBody(Read.outputs)
    BY <1>2, <2>1, AcceptedDraft DEF Accept, Accepted, Reviewed, LatestInv
  <2> QED
    BY <1>1, <2>1, <2>2, <2>3, <2>4 DEF AcceptInv, AcceptedIsDelivered, Reviewed, ArticleBody
<1>3. CASE Deliver
  <2>1. /\ pc = "headline" /\ pc' = "ended" /\ article' = ArticleBody(work.outputs)
        /\ UNCHANGED execs
    BY <1>3 DEF Deliver, Ends
  <2>2. Latest' = Latest
    BY <2>1 DEF Latest, Attempts
  <2> QED
    BY <1>1, <2>1, <2>2 DEF AcceptInv, AcceptedIsDelivered, Reviewed
<1>4. CASE ~Accept /\ ~Deliver
  <2>1. article' = article
    BY <1>4 DEF Next, Worker, Judge, vars, db, RunsOut, CheckStep, OpenStep, Answer,
         StepRaises, NoticesStop, Advance, SendBack, Spent, AcceptNothing, Undecided,
         RequestStop, StopRun, Crash, Restart, Continue
  <2>2. /\ pc = "ended" => pc' = "ended" /\ execs' = execs
        /\ pc' = "headline" => pc = "headline" /\ work' = work
    BY <1>4 DEF Next, Worker, Judge, vars, db, memory, RunsOut, CheckStep, OpenStep, Answer,
         StepRaises, NoticesStop, Judging, Advance, SendBack, Spent, AcceptNothing, Undecided,
         RequestStop, StopRun, Awaiting, Crash, Restart, Continue, Ends
  <2>3. pc = "headline" => ~OpenStep /\ ~Answer
    BY DEF OpenStep, Answer
  <2>4. CASE article # 0
    <3>1. pc = "ended" /\ pc' = "ended" /\ Latest' = Latest
      BY <2>2, <2>4 DEF AcceptInv, Latest, Attempts
    <3> QED
      BY <1>1, <2>1, <3>1 DEF AcceptInv, AcceptedIsDelivered, Reviewed
  <2>5. CASE article = 0 /\ pc' = "headline" /\ Reviewed
    <3>1. pc = "headline" /\ work' = work /\ ~OpenStep /\ ~Answer
      BY <2>2, <2>3, <2>5
    <3>2. Attempts > 0
      BY <2>5, <3>1 DEF AcceptInv
    <3> QED
      BY <1>1, <2>1, <2>5, <3>1, <3>2, LatestStays
         DEF AcceptInv, AcceptedIsDelivered, Reviewed, ArticleBody, SamePrompt
  <2>6. CASE article = 0 /\ ~(pc' = "headline" /\ Reviewed)
    BY <1>1, <2>1, <2>6 DEF AcceptInv, AcceptedIsDelivered, Reviewed
  <2> QED
    BY <2>4, <2>5, <2>6
<1> QED
  BY <1>2, <1>3, <1>4

\* The first states have neither rows nor an article.
LEMMA AcceptStart == Init => LatestInv /\ AcceptInv
BY DEF Init, LatestInv, AcceptInv, AcceptedIsDelivered

\* In every behaviour the latest row is what the worker is at.
LEMMA LatestAlways == Spec => []LatestInv
<1>1. TypeOK /\ LatestInv /\ [Next]_vars => LatestInv'
  BY LatestStep
<1> QED
  BY <1>1, AcceptStart, TypeCorrect, PTL DEF Spec

\* The article is the draft that the accepting review was shown, also when the
\* run was stopped, or went down, on the way.
THEOREM AcceptedIsAlwaysDelivered == Spec => []AcceptedIsDelivered
<1>1. TypeOK /\ LatestInv /\ AcceptInv /\ [Next]_vars => AcceptInv'
  BY AcceptStep
<1>2. AcceptInv => AcceptedIsDelivered
  BY DEF AcceptInv
<1> QED
  BY <1>1, <1>2, AcceptStart, TypeCorrect, LatestAlways, PTL DEF Spec

-----------------------------------------------------------------------------
(* What a step is shown.                                                   *)

\* The validator does not look at the loop of the first step: where it leads
\* forward, a rejection skips the steps between, and what follows holds of no
\* such flow.
FirstStepStays == \A f \in Flows : f.loops[1] <= 1

\* In the rows, the latest answer of step i is the text t.
Shows(rows, i, t) ==
  \E n \in DOMAIN rows :
    /\ rows[n].step = i /\ rows[n].reply # "none"
    /\ \A j \in DOMAIN rows : rows[j].step = i /\ rows[j].reply # "none" => j <= n
    /\ t = IF rows[n].reply = "empty" THEN 0 ELSE n

\* The worker has the latest texts of the steps before its own, and so has the
\* checkpoint of the steps before the run's; both hold the same texts.
ShownInv ==
  /\ pc \in {"ready", "emit", "step", "answered"} =>
       \A i \in 1 .. at - 1 : Shows(execs, i, work.outputs[i])
  /\ status = "running" /\ saved =>
       \A i \in 1 .. current - 1 : Shows(execs, i, kept.outputs[i])
  /\ status = "running" /\ saved /\ pc \in {"ready", "emit", "step", "answered"} =>
       kept.outputs = work.outputs
  /\ pc = "answered" => Latest.reply # "none"

\* The last of a set is the one that no other follows.
LEMMA NewestIs ==
  ASSUME NEW K \in SUBSET Nat, NEW n \in K, \A j \in K : j <= n
  PROVE  Newest(K) = n
<1>1. IsNewest(n, K)
  BY DEF IsNewest
<1>2. \A k \in K : IsNewest(k, K) => k = n
  BY DEF IsNewest
<1> QED
  BY <1>1, <1>2 DEF Newest

\* Rows that keep their steps and replies show the same texts.
LEMMA ShowsSame ==
  ASSUME NEW rows, NEW new, NEW i, NEW t, Shows(rows, i, t),
         DOMAIN new = DOMAIN rows,
         \A k \in DOMAIN rows : new[k].step = rows[k].step /\ new[k].reply = rows[k].reply
  PROVE  Shows(new, i, t)
BY DEF Shows

\* A row that is opened shows nothing.
LEMMA ShowsOpened ==
  ASSUME NEW rows, NEW new, NEW i, NEW t, Shows(rows, i, t), NEW e, new[e].reply = "none",
         DOMAIN new = DOMAIN rows \cup {e},
         \A k \in DOMAIN rows : new[k].step = rows[k].step /\ new[k].reply = rows[k].reply
  PROVE  Shows(new, i, t)
BY DEF Shows

\* An answer changes what is shown of its own step only.
LEMMA ShowsAnswered ==
  ASSUME NEW rows, NEW new, NEW i, NEW t, Shows(rows, i, t),
         NEW e, rows[e].step # i, new[e].step # i,
         DOMAIN new = DOMAIN rows,
         \A k \in DOMAIN rows : k # e => new[k] = rows[k]
  PROVE  Shows(new, i, t)
BY DEF Shows

\* A step that neither opens a row nor answers one shows the same texts.
LEMMA ShowsStays ==
  ASSUME TypeOK, [Next]_vars, ~Answer, NEW i, NEW t, Shows(execs, i, t)
  PROVE  Shows(execs', i, t)
<1>1. TypeOK'
  BY TypeStep
<1>2. /\ DOMAIN execs = 1 .. Attempts /\ DOMAIN execs' = 1 .. Attempts'
      /\ Attempts \in Nat
  BY <1>1, RowTypes DEF TypeOK, Attempts
<1>3. CASE OpenStep
  <2>1. /\ Attempts' = Attempts + 1
        /\ execs'[Attempts + 1].reply = "none"
        /\ \A k \in 1 .. Attempts : execs'[k].step = execs[k].step
                                 /\ execs'[k].reply = execs[k].reply
    BY <1>3, OpenedRow DEF SamePrompt
  <2>2. DOMAIN execs' = DOMAIN execs \cup {Attempts + 1}
    BY <1>2, <2>1
  <2> QED
    BY <1>2, <2>1, <2>2, ShowsOpened
<1>4. CASE ~OpenStep
  <2>1. /\ Attempts' = Attempts
        /\ \A k \in 1 .. Attempts : execs'[k].step = execs[k].step
                                 /\ execs'[k].reply = execs[k].reply
    BY <1>4, OtherRows DEF SamePrompt
  <2> QED
    BY <1>2, <2>1, ShowsSame
<1> QED
  BY <1>3, <1>4

\* The answer that is read is the latest of its step, and the texts of the other
\* steps stay what they were.
LEMMA ReadShows ==
  ASSUME TypeOK, LatestInv, ShownInv, pc = "answered"
  PROVE  \A i \in 1 .. at : Shows(execs, i, Read.outputs[i])
<1>1. /\ Attempts \in 1 .. Attempts /\ DOMAIN execs = 1 .. Attempts /\ Attempts \in Nat
      /\ execs[Attempts].step = at /\ execs[Attempts].reply # "none"
  BY RowTypes DEF LatestInv, ShownInv, Latest
<1>2. at \in Step /\ at \in Nat /\ Steps \in Nat
  BY StepsAssumption DEF TypeOK, Step
<1>3. \A i \in Step : Read.outputs[i] =
        IF i = at THEN (IF Latest.reply = "empty" THEN 0 ELSE Attempts) ELSE work.outputs[i]
  BY <1>2 DEF Read, TypeOK, WorkRecord
<1>4. Shows(execs, at, Read.outputs[at])
  BY <1>1, <1>2, <1>3 DEF Shows, Latest
<1>5. ASSUME NEW i \in 1 .. at, i # at
      PROVE  Shows(execs, i, Read.outputs[i])
  <2>1. i \in 1 .. at - 1 /\ i \in Step
    BY <1>2, <1>5 DEF Step
  <2> QED
    BY <1>3, <1>5, <2>1 DEF ShownInv
<1> QED
  BY <1>4, <1>5

\* Where a rejection leads is not after the step that rejects.
LEMMA BackNotForward ==
  ASSUME TypeOK, FirstStepStays, at \in Step
  PROVE  Target(at) <= at /\ (at = Steps /\ Target(at) # 0 => Target(at) < at)
<1>1. /\ Steps \in Nat \ {0} /\ flow \in FlowShape /\ flow.gate # Steps /\ flow.loops[1] <= 1
      /\ \A i \in Step \ {1} : flow.loops[i] < i
  BY FlowsAssumption, StepsAssumption DEF TypeOK, FirstStepStays, Admitted
<1>2. flow.gate \in 0 .. Steps /\ flow.loops[at] \in 0 .. Steps /\ at \in Nat
  BY <1>1 DEF FlowShape, Step
<1>3. flow.gate < Steps
  BY <1>1, <1>2
<1>4. flow.loops[at] <= at
  BY <1>1, <1>2
<1> QED
  BY <1>2, <1>3, <1>4 DEF Target

\* Every action keeps it.
LEMMA ShownStep ==
  ASSUME FirstStepStays, WorkInv, LatestInv, ShownInv, [Next]_vars
  PROVE  ShownInv'
<1> DEFINE Working == {"ready", "emit", "step", "answered"}
<1>1. TypeOK /\ CheckpointInv /\ RoundsInv
  BY DEF WorkInv
<1>2. /\ at \in Nat /\ current \in Nat /\ at \in Step /\ Steps \in Nat
      /\ Attempts \in Nat
  BY <1>1, RowTypes, StepsAssumption DEF TypeOK, Step
<1>3. CASE Answer
  <2>1. /\ pc = "step" /\ pc' = "answered" /\ at = current
        /\ UNCHANGED <<status, saved, kept, current, at, work>>
    BY <1>1, <1>3 DEF Answer, RoundsInv
  <2>2. /\ Attempts \in 1 .. Attempts /\ Attempts' = Attempts
        /\ execs[Attempts].step = at /\ execs'[Attempts].step = at
        /\ execs'[Attempts].reply # "none"
        /\ \A k \in 1 .. Attempts : k # Attempts => execs'[k] = execs[k]
    BY <1>1, <1>2, <1>3, <2>1, AnsweredRow DEF LatestInv, Latest, SamePrompt
  <2>3. DOMAIN execs = 1 .. Attempts /\ DOMAIN execs' = 1 .. Attempts
    <3>1. TypeOK'
      BY <1>1, TypeStep
    <3> QED
      BY <1>1, <2>2, <3>1, RowTypes DEF TypeOK, Attempts
  <2>4. \A i \in 1 .. at - 1 : \A t : Shows(execs, i, t) => Shows(execs', i, t)
    <3> SUFFICES ASSUME NEW i \in 1 .. at - 1, NEW t, Shows(execs, i, t)
                 PROVE  Shows(execs', i, t)
      OBVIOUS
    <3>1. at # i
      BY <1>2
    <3> QED
      BY <2>2, <2>3, <3>1, ShowsAnswered
  <2>5. Latest'.reply # "none"
    BY <2>2 DEF Latest
  <2> QED
    BY <2>1, <2>4, <2>5 DEF ShownInv
<1>4. CASE ~Answer
  <2>0. \A i, t : Shows(execs, i, t) => Shows(execs', i, t)
    BY <1>1, <1>4, ShowsStays
  <2>1. CASE Advance
    <3>1. /\ pc = "answered" /\ pc' = "ready" /\ at' = at + 1 /\ current = at
          /\ work' = Read /\ kept' = Read /\ current' = current
      BY <1>1, <2>1 DEF Advance, Judging, Save, RoundsInv
    <3>2. \A i \in 1 .. at : Shows(execs', i, Read.outputs[i])
      BY <1>1, <2>0, <3>1, ReadShows
    <3>3. 1 .. at' - 1 = 1 .. at /\ 1 .. current - 1 \subseteq 1 .. at
      BY <1>2, <3>1
    <3> QED
      BY <3>1, <3>2, <3>3 DEF ShownInv
  <2>2. CASE SendBack
    <3>1. /\ pc = "answered" /\ pc' \in {"ready", "spent"} /\ at' = Target(at) /\ current = at
          /\ work' = SentBack /\ kept' = SentBack /\ current' = current
          /\ SentBack.outputs = Read.outputs
      BY <1>1, <2>2 DEF SendBack, Judging, Save, RoundsInv, SentBack
    <3>2. \A i \in 1 .. at : Shows(execs', i, Read.outputs[i])
      BY <1>1, <2>0, <3>1, ReadShows
    <3>3. at' <= at /\ at' \in Nat
      BY <1>1, <1>2, <3>1, BackNotForward, FlowType
    <3>4. 1 .. at' - 1 \subseteq 1 .. at /\ 1 .. current - 1 \subseteq 1 .. at
      BY <1>2, <3>1, <3>3
    <3> QED
      BY <3>1, <3>2, <3>4 DEF ShownInv
  <2>3. CASE Restart
    <3>1. pc' \notin Working /\ current' = current /\ status = "running"
      BY <2>3 DEF Restart, Ends
    <3>2. saved \/ current = 1
      BY <1>1, <3>1 DEF CheckpointInv
    <3>3. saved => UNCHANGED <<saved, kept>>
      BY <2>3 DEF Restart, Rebuildable
    <3>4. 1 .. 1 - 1 = {}
      OBVIOUS
    <3> QED
      BY <2>0, <3>1, <3>2, <3>3, <3>4 DEF ShownInv
  <2>4. CASE Continue
    <3>1. /\ status = "running" /\ pc' = "ready" /\ at' = current
          /\ UNCHANGED <<status, saved, kept, current>>
      BY <2>4 DEF Continue, db
    <3>2. CASE saved
      <4>1. work'.outputs = kept.outputs
        BY <1>1, <2>4, <3>2 DEF Continue, TypeOK, WorkRecord
      <4> QED
        BY <2>0, <3>1, <3>2, <4>1 DEF ShownInv
    <3>3. CASE ~saved
      <4>1. current = 1 /\ 1 .. 1 - 1 = {}
        BY <1>1, <3>1, <3>3 DEF CheckpointInv
      <4> QED
        BY <3>1, <3>3, <4>1 DEF ShownInv
    <3> QED
      BY <3>2, <3>3
  <2>5. CASE CheckStep
    <3>1. /\ pc = "ready" /\ pc' = "emit" /\ current' = at
          /\ UNCHANGED <<status, saved, kept, at, work>>
      BY <2>5 DEF CheckStep
    <3> QED
      BY <2>0, <3>1 DEF ShownInv
  <2>6. CASE OpenStep \/ RequestStop \/ StopRun \/ UNCHANGED vars
    <3>1. UNCHANGED <<saved, kept>> \/ status' # "running"
      BY <2>6 DEF OpenStep, RequestStop, StopRun, vars, db
    <3>2. /\ UNCHANGED <<current, at, work>>
          /\ status' = "running" => status = "running"
          /\ pc' \in Working => pc \in Working
          /\ pc' = "answered" => pc = "answered" /\ execs' = execs
      BY <2>6 DEF OpenStep, RequestStop, StopRun, vars, memory, db, Awaiting
    <3> QED
      BY <2>0, <3>1, <3>2 DEF ShownInv, Latest, Attempts
  <2>7. CASE Crash \/ Accept
    <3>1. pc' \notin Working /\ UNCHANGED <<status, saved, kept, current>>
      BY <2>7 DEF Crash, Accept, db
    <3> QED
      BY <2>0, <3>1 DEF ShownInv
  <2>8. CASE RunsOut \/ StepRaises \/ NoticesStop \/ Spent \/ AcceptNothing \/ Undecided
             \/ Deliver
    <3>1. pc' = "ended" /\ status' # "running"
      BY <2>8 DEF RunsOut, StepRaises, NoticesStop, Spent, AcceptNothing, Undecided, Deliver,
                  Ends
    <3> QED
      BY <3>1 DEF ShownInv
  <2> QED
    BY <1>4, <2>1, <2>2, <2>3, <2>4, <2>5, <2>6, <2>7, <2>8 DEF Next, Worker, Judge
<1> QED
  BY <1>3, <1>4

\* The texts of the latest answers are what the property asks for.
LEMMA ShownIsLatest ==
  ASSUME TypeOK, NEW i, NEW t, Shows(execs, i, t)
  PROVE  /\ Answered(i) # {}
         /\ t = IF execs[Newest(Answered(i))].reply = "empty" THEN 0 ELSE Newest(Answered(i))
<1>1. DOMAIN execs = 1 .. Attempts /\ Attempts \in Nat
  BY RowTypes
<1>2. PICK n \in DOMAIN execs :
        /\ execs[n].step = i /\ execs[n].reply # "none"
        /\ \A j \in DOMAIN execs : execs[j].step = i /\ execs[j].reply # "none" => j <= n
        /\ t = IF execs[n].reply = "empty" THEN 0 ELSE n
  BY DEF Shows
<1>3. n \in Answered(i) /\ Answered(i) \in SUBSET Nat /\ \A j \in Answered(i) : j <= n
  BY <1>1, <1>2 DEF Answered
<1>4. Newest(Answered(i)) = n
  BY <1>3, NewestIs
<1> QED
  BY <1>2, <1>3, <1>4

\* In every behaviour the worker and the checkpoint hold the latest texts.
LEMMA ShownAlways == FirstStepStays /\ Spec => []ShownInv
<1> SUFFICES ASSUME FirstStepStays
             PROVE  Spec => []ShownInv
  OBVIOUS
<1>1. Init => ShownInv
  <2> SUFFICES ASSUME Init PROVE ShownInv
    OBVIOUS
  <2>1. 1 .. 1 - 1 = {}
    OBVIOUS
  <2> QED
    BY <2>1 DEF Init, ShownInv
<1>2. WorkInv /\ LatestInv /\ ShownInv /\ [Next]_vars => ShownInv'
  BY ShownStep
<1> QED
  BY <1>1, <1>2, WorkAlways, LatestAlways, PTL DEF Spec

\* A step is shown the latest answer of every step before it, whatever was sent
\* back and wherever the process went down.
THEOREM LatestOutputsAreShown == FirstStepStays /\ Spec => []LatestOutputsShown
<1>1. TypeOK /\ ShownInv => LatestOutputsShown
  <2> SUFFICES ASSUME TypeOK, ShownInv, pc = "step", NEW i \in 1 .. at - 1
               PROVE  /\ Answered(i) # {}
                      /\ LET k == Newest(Answered(i)) IN
                           work.outputs[i] = IF execs[k].reply = "empty" THEN 0 ELSE k
    BY DEF LatestOutputsShown
  <2>1. Shows(execs, i, work.outputs[i])
    BY DEF ShownInv
  <2> QED
    BY <2>1, ShownIsLatest
<1> QED
  BY <1>1, TypeCorrect, ShownAlways, PTL

-----------------------------------------------------------------------------
(* What is reviewed again.                                                 *)

\* The last step reviews the article and sends it back to be rewritten.
SendsBack == flow.gate \in 1 .. flow.article /\ flow.article < Steps

\* A text is nothing, or that of an execution of its step.
Sourced(outputs) ==
  \A i \in Step : outputs[i] # 0 => outputs[i] \in 1 .. Attempts /\ execs[outputs[i]].step = i

\* The worker's texts and the checkpoint's were written by the steps they are
\* of, and a prompt shows what was written before it.
SourcesInv ==
  /\ Sourced(work.outputs)
  /\ Sourced(kept.outputs)
  /\ \A k \in 1 .. Attempts : execs[k].draft < k

\* Step d of the rows shows an article.
IsArticle(rows, d) == d # 0 /\ rows[d].step = flow.article

\* The drafts that the last step rejected.
Refused(rows) ==
  {d \in Nat : \E j \in DOMAIN rows :
     /\ rows[j].step = Steps /\ rows[j].reply = "reject" /\ rows[j].draft = d
     /\ IsArticle(rows, d)}

\* A worker past the step that writes the article has one that was not refused,
\* unless a crash is left that made the review see it again; while the process
\* is down, or no worker has the run, there is one.
RewriteInv ==
  SendsBack =>
    /\ Cardinality(Rereviewed) <= crashes
    /\ (pc \in {"ready", "emit"} \/ (pc \in {"step", "answered"} /\ at < Steps)) =>
         \/ at <= flow.article
         \/ work.outputs[flow.article] \notin Refused(execs)
         \/ Cardinality(Rereviewed) < crashes
    /\ pc \in {"down", "up"} => Cardinality(Rereviewed) < crashes

\* The flow of a run never changes.
LEMMA FlowStays ==
  ASSUME [Next]_vars
  PROVE  flow' = flow
BY DEF Next, Worker, Judge, vars, RunsOut, CheckStep, OpenStep, Answer, StepRaises,
       NoticesStop, Advance, SendBack, Spent, Accept, AcceptNothing, Undecided, Deliver,
       RequestStop, StopRun, Crash, Restart, Continue

\* Rows keep their prompts.
LEMMA PromptsStay ==
  ASSUME TypeOK, [Next]_vars
  PROVE  /\ Attempts' \in Nat /\ Attempts \in Nat /\ Attempts <= Attempts'
         /\ DOMAIN execs = 1 .. Attempts /\ DOMAIN execs' = 1 .. Attempts'
         /\ \A k \in 1 .. Attempts : SamePrompt(execs'[k], execs[k])
<1>1. TypeOK'
  BY TypeStep
<1>2. /\ DOMAIN execs = 1 .. Attempts /\ DOMAIN execs' = 1 .. Attempts'
      /\ Attempts \in Nat /\ Attempts' \in Nat
  BY <1>1, RowTypes DEF TypeOK, Attempts
<1>3. CASE OpenStep
  BY <1>2, <1>3, OpenedRow
<1>4. CASE Answer
  BY <1>2, <1>4, AnsweredRow
<1>5. CASE ~OpenStep /\ ~Answer
  BY <1>2, <1>5, OtherRows
<1> QED
  BY <1>2, <1>3, <1>4, <1>5

\* Texts keep their sources.
LEMMA SourcedStays ==
  ASSUME TypeOK, [Next]_vars, NEW outputs, Sourced(outputs)
  PROVE  \A i \in Step :
           outputs[i] # 0 => outputs[i] \in 1 .. Attempts' /\ execs'[outputs[i]].step = i
<1>1. /\ Attempts' \in Nat /\ Attempts \in Nat /\ Attempts <= Attempts'
      /\ \A k \in 1 .. Attempts : execs'[k].step = execs[k].step
  BY PromptsStay DEF SamePrompt
<1> QED
  BY <1>1 DEF Sourced

\* The answer that is read has a source.
LEMMA ReadSourced ==
  ASSUME TypeOK, LatestInv, SourcesInv, pc = "answered"
  PROVE  Sourced(Read.outputs)
<1>1. Attempts \in 1 .. Attempts /\ execs[Attempts].step = at /\ at \in Step
  BY RowTypes DEF LatestInv, Latest, TypeOK
<1>2. \A i \in Step : Read.outputs[i] =
        IF i = at THEN (IF Latest.reply = "empty" THEN 0 ELSE Attempts) ELSE work.outputs[i]
  BY <1>1 DEF Read, TypeOK, WorkRecord
<1> QED
  BY <1>1, <1>2 DEF SourcesInv, Sourced

\* The last of a set is in it, or there is none.
LEMMA NewestIn ==
  ASSUME NEW K
  PROVE  Newest(K) = 0 \/ Newest(K) \in K
<1>1. CASE \E k \in K : IsNewest(k, K)
  BY <1>1 DEF Newest, IsNewest
<1>2. CASE ~ \E k \in K : IsNewest(k, K)
  BY <1>2 DEF Newest
<1> QED
  BY <1>1, <1>2

\* What is rebuilt has sources.
LEMMA RebuiltSourced ==
  ASSUME TypeOK
  PROVE  Sourced(Rebuilt.outputs)
<1>1. \A i \in Step : Rebuilt.outputs[i] = Newest(CompletedOf(i))
  BY DEF Rebuilt
<1>2. \A i \in Step : Newest(CompletedOf(i)) # 0 => Newest(CompletedOf(i)) \in CompletedOf(i)
  BY NewestIn
<1> QED
  BY <1>1, <1>2, RowTypes DEF Sourced, CompletedOf

\* Every action keeps the sources.
LEMMA SourcesStep ==
  ASSUME TypeOK, LatestInv, SourcesInv, [Next]_vars
  PROVE  SourcesInv'
<1> DEFINE Kept(outputs) ==
             \A i \in Step :
               outputs[i] # 0 => outputs[i] \in 1 .. Attempts' /\ execs'[outputs[i]].step = i
<1>1. \A outputs : Sourced(outputs) => Kept(outputs)
  BY SourcedStays
<1>2. Kept(work.outputs) /\ Kept(kept.outputs) /\ Kept(Fresh.outputs)
  BY <1>1 DEF SourcesInv, Sourced, Fresh
<1>3. Kept(Rebuilt.outputs)
  BY <1>1, RebuiltSourced
<1>4. pc = "answered" => Kept(Read.outputs)
  BY <1>1, ReadSourced
<1>5. work' = work \/ work' = Fresh \/ (pc = "answered" /\ work'.outputs = Read.outputs)
        \/ work'.outputs = kept.outputs \/ work'.outputs = Fresh.outputs
  <2>1. CASE Continue
    BY <2>1 DEF Continue, TypeOK, WorkRecord, Fresh
  <2>2. CASE ~Continue
    BY <2>2 DEF Next, Worker, Judge, vars, memory, RunsOut, CheckStep, OpenStep, Answer,
         StepRaises, NoticesStop, Judging, Advance, SendBack, SentBack, Spent, Accept,
         AcceptNothing, Undecided, Deliver, RequestStop, StopRun, Crash, Restart
  <2> QED
    BY <2>1, <2>2
<1>6. kept' = kept \/ kept' = Fresh \/ (pc = "answered" /\ kept'.outputs = Read.outputs)
        \/ kept' = Rebuilt
  BY DEF Next, Worker, Judge, vars, db, RunsOut, CheckStep, OpenStep, Answer, StepRaises,
         NoticesStop, Judging, Advance, SendBack, SentBack, Spent, Accept, AcceptNothing,
         Undecided, Deliver, RequestStop, StopRun, Crash, Restart, Continue, Save, Forget
<1>7. Kept(work'.outputs) /\ Kept(kept'.outputs)
  BY <1>2, <1>3, <1>4, <1>5, <1>6
<1>8. \A k \in 1 .. Attempts' : execs'[k].draft < k
  <2>1. \A k \in 1 .. Attempts : execs'[k].draft < k
    BY PromptsStay DEF SourcesInv, SamePrompt
  <2>2. CASE OpenStep
    <3>1. /\ Attempts' = Attempts + 1 /\ Attempts \in Nat
          /\ execs'[Attempts + 1].draft = DraftFor(work.outputs, at)
      BY <2>2, OpenedRow, RowTypes
    <3>2. \A i \in Step : work.outputs[i] <= Attempts
      BY <3>1 DEF SourcesInv, Sourced
    <3>3. flow.article \in Step /\ 1 \in Step
      BY FlowType DEF FlowShape
    <3>4. DraftFor(work.outputs, at) <= Attempts
      BY <3>1, <3>2, <3>3 DEF DraftFor
    <3>5. DraftFor(work.outputs, at) \in Nat
      BY <3>3 DEF DraftFor, TypeOK, WorkRecord
    <3> QED
      BY <2>1, <3>1, <3>4, <3>5
  <2>3. CASE ~OpenStep
    BY <2>1, <2>3, OnlyOpenStepAdds
  <2> QED
    BY <2>2, <2>3
<1> QED
  BY <1>7, <1>8 DEF SourcesInv, Sourced

\* In every behaviour texts have sources.
LEMMA SourcesAlways == Spec => []SourcesInv
<1>1. Init => SourcesInv
  BY DEF Init, SourcesInv, Sourced, Fresh, Attempts
<1>2. TypeOK /\ LatestInv /\ SourcesInv /\ [Next]_vars => SourcesInv'
  BY SourcesStep
<1> QED
  BY <1>1, <1>2, TypeCorrect, LatestAlways, PTL DEF Spec

\* A row that was there is of a second review of a draft, or is not, for good:
\* the replies of the rows before it do not change.
LEMMA RereviewedOld ==
  ASSUME TypeOK, SourcesInv, [Next]_vars, NEW k \in 1 .. Attempts
  PROVE  k \in Rereviewed' <=> k \in Rereviewed
<1>1. /\ Attempts' \in Nat /\ Attempts \in Nat /\ Attempts <= Attempts'
      /\ DOMAIN execs = 1 .. Attempts /\ DOMAIN execs' = 1 .. Attempts'
      /\ \A j \in 1 .. Attempts : execs'[j].step = execs[j].step
      /\ \A j \in 1 .. Attempts : execs'[j].draft = execs[j].draft
  BY PromptsStay DEF SamePrompt
<1>2. \A j \in 1 .. k - 1 : execs'[j].reply = execs[j].reply
  <2>1. CASE OpenStep
    BY <1>1, <2>1, OpenedRow
  <2>2. CASE Answer
    BY <1>1, <2>2, AnsweredRow
  <2>3. CASE ~OpenStep /\ ~Answer
    BY <1>1, <2>3, OtherRows
  <2> QED
    BY <2>1, <2>2, <2>3
<1>3. flow' = flow
  BY FlowStays
<1>4. \A j \in 1 .. k - 1 : j \in 1 .. Attempts
  BY <1>1
<1>5. \A j \in 1 .. k - 1 :
        execs[j].draft # 0 => execs'[execs[j].draft].step = execs[execs[j].draft].step
  <2> SUFFICES ASSUME NEW j \in 1 .. k - 1, execs[j].draft # 0
               PROVE  execs'[execs[j].draft].step = execs[execs[j].draft].step
    OBVIOUS
  <2>1. execs[j].draft \in Nat /\ execs[j].draft < j
    BY <1>4, RowTypes DEF SourcesInv
  <2>2. execs[j].draft \in 1 .. Attempts
    BY <1>1, <2>1
  <2> QED
    BY <1>1, <2>2
<1>6. k \in DOMAIN execs /\ k \in DOMAIN execs'
  BY <1>1
<1> DEFINE Second(rows) ==
             \E j \in 1 .. k - 1 :
               /\ rows[j].step = Steps /\ rows[k].step = Steps
               /\ rows[j].reply = "reject"
               /\ rows[j].draft = rows[k].draft
               /\ rows[j].draft # 0 /\ rows[rows[j].draft].step = flow.article
<1>7. Second(execs') <=> Second(execs)
  BY <1>1, <1>2, <1>4, <1>5
<1>8. k \in Rereviewed <=> Second(execs)
  BY <1>6 DEF Rereviewed
<1>9. k \in Rereviewed' <=> Second(execs')
  BY <1>3, <1>6 DEF Rereviewed
<1> QED
  BY <1>7, <1>8, <1>9

\* Unless the last step is opened, no row is added to those.
LEMMA RereviewedStays ==
  ASSUME TypeOK, SourcesInv, [Next]_vars, ~(OpenStep /\ at = Steps)
  PROVE  Rereviewed' = Rereviewed
<1>1. /\ DOMAIN execs = 1 .. Attempts /\ DOMAIN execs' = 1 .. Attempts'
      /\ Attempts \in Nat
  BY PromptsStay
<1>2. Rereviewed \subseteq 1 .. Attempts
  BY <1>1 DEF Rereviewed
<1>3. ASSUME NEW k \in Rereviewed'
      PROVE  k \in 1 .. Attempts
  <2>1. k \in 1 .. Attempts' /\ execs'[k].step = Steps
    BY <1>1 DEF Rereviewed
  <2>2. CASE OpenStep
    BY <1>1, <2>1, <2>2, OpenedRow
  <2>3. CASE ~OpenStep
    BY <2>1, <2>3, OnlyOpenStepAdds
  <2> QED
    BY <2>2, <2>3
<1>4. \A k \in 1 .. Attempts : k \in Rereviewed' <=> k \in Rereviewed
  BY RereviewedOld
<1> QED
  BY <1>2, <1>3, <1>4

\* Opening the last step adds a row to those only when its draft was refused.
LEMMA RereviewedOpens ==
  ASSUME TypeOK, SourcesInv, OpenStep, at = Steps
  PROVE  \/ Rereviewed' = Rereviewed
         \/ /\ Rereviewed' = Rereviewed \cup {Attempts + 1}
            /\ DraftFor(work.outputs, at) \in Refused(execs)
<1>0. [Next]_vars
  BY DEF Next, Worker
<1>1. /\ DOMAIN execs = 1 .. Attempts /\ DOMAIN execs' = 1 .. Attempts + 1
      /\ Attempts \in Nat
      /\ \A j \in 1 .. Attempts :
           /\ execs'[j].step = execs[j].step /\ execs'[j].draft = execs[j].draft
           /\ execs'[j].reply = execs[j].reply
      /\ execs'[Attempts + 1].draft = DraftFor(work.outputs, at)
  BY <1>0, PromptsStay, OpenedRow DEF SamePrompt
<1>2. Rereviewed \subseteq 1 .. Attempts /\ Rereviewed' \subseteq 1 .. Attempts + 1
  BY <1>1 DEF Rereviewed
<1>3. \A k \in 1 .. Attempts : k \in Rereviewed' <=> k \in Rereviewed
  BY <1>0, RereviewedOld
<1>4. CASE Attempts + 1 \notin Rereviewed'
  <2>1. \A k \in 1 .. Attempts + 1 : k = Attempts + 1 \/ k \in 1 .. Attempts
    BY <1>1
  <2> QED
    BY <1>2, <1>3, <1>4, <2>1
<1>5. CASE Attempts + 1 \in Rereviewed'
  <2>1. \A k \in 1 .. Attempts + 1 : k = Attempts + 1 \/ k \in 1 .. Attempts
    BY <1>1
  <2>2. Rereviewed' = Rereviewed \cup {Attempts + 1}
    BY <1>2, <1>3, <1>5, <2>1
  <2>3. flow' = flow
    BY <1>0, FlowStays
  <2>4. PICK j \in 1 .. (Attempts + 1) - 1 :
          /\ execs'[j].step = Steps /\ execs'[j].reply = "reject"
          /\ execs'[j].draft = execs'[Attempts + 1].draft
          /\ execs'[j].draft # 0 /\ execs'[execs'[j].draft].step = flow.article
    BY <1>5, <2>3 DEF Rereviewed
  <2>5. j \in 1 .. Attempts
    BY <1>1
  <2> DEFINE d == execs[j].draft
  <2>6. d \in Nat /\ d < j /\ d # 0
    BY <1>1, <2>4, <2>5, RowTypes DEF SourcesInv
  <2>7. d \in 1 .. Attempts
    BY <1>1, <2>5, <2>6
  <2>8. /\ execs[j].step = Steps /\ execs[j].reply = "reject"
        /\ d = DraftFor(work.outputs, at) /\ execs[d].step = flow.article
    BY <1>1, <2>4, <2>5, <2>7
  <2>9. d \in Refused(execs)
    BY <1>1, <2>5, <2>6, <2>8 DEF Refused, IsArticle
  <2> QED
    BY <2>2, <2>8, <2>9
<1> QED
  BY <1>4, <1>5

\* A draft is refused by an answer of the last step, and by nothing else.
LEMMA RefusedStays ==
  ASSUME TypeOK, LatestInv, SourcesInv, [Next]_vars, ~(Answer /\ at = Steps)
  PROVE  Refused(execs') = Refused(execs)
<1>1. /\ Attempts' \in Nat /\ Attempts \in Nat /\ Attempts <= Attempts'
      /\ DOMAIN execs = 1 .. Attempts /\ DOMAIN execs' = 1 .. Attempts'
      /\ \A j \in 1 .. Attempts : execs'[j].step = execs[j].step
      /\ \A j \in 1 .. Attempts : execs'[j].draft = execs[j].draft
  BY PromptsStay DEF SamePrompt
<1>2. \A j \in 1 .. Attempts :
        execs[j].step = Steps => execs'[j].reply = execs[j].reply
  <2>1. CASE OpenStep
    BY <2>1, OpenedRow
  <2>2. CASE Answer
    <3>1. \A j \in 1 .. Attempts : j # Attempts => execs'[j] = execs[j]
      BY <2>2, AnsweredRow
    <3>2. execs[Attempts].step # Steps
      BY <2>2 DEF Answer, LatestInv, Latest
    <3> QED
      BY <3>1, <3>2
  <2>3. CASE ~OpenStep /\ ~Answer
    BY <2>3, OtherRows
  <2> QED
    BY <2>1, <2>2, <2>3
<1>3. ASSUME NEW j \in DOMAIN execs', execs'[j].reply = "reject"
      PROVE  j \in 1 .. Attempts
  <2>1. CASE OpenStep
    BY <1>1, <1>3, <2>1, OpenedRow
  <2>2. CASE ~OpenStep
    BY <1>1, <1>3, <2>2, OnlyOpenStepAdds
  <2> QED
    BY <2>1, <2>2
<1>4. \A j \in 1 .. Attempts :
        LET d == execs[j].draft IN d # 0 => execs'[d].step = execs[d].step
  <2> SUFFICES ASSUME NEW j \in 1 .. Attempts, execs[j].draft # 0
               PROVE  execs'[execs[j].draft].step = execs[execs[j].draft].step
    OBVIOUS
  <2>1. execs[j].draft \in Nat /\ execs[j].draft < j
    BY RowTypes DEF SourcesInv
  <2>2. execs[j].draft \in 1 .. Attempts
    BY <1>1, <2>1
  <2> QED
    BY <1>1, <2>2
<1> DEFINE Refuses(rows, j, d) ==
             /\ rows[j].step = Steps /\ rows[j].reply = "reject" /\ rows[j].draft = d
             /\ IsArticle(rows, d)
<1>5. \A d : \A j \in 1 .. Attempts : Refuses(execs', j, d) <=> Refuses(execs, j, d)
  BY <1>1, <1>2, <1>4 DEF IsArticle
<1>6. \A d : \A j \in DOMAIN execs' : Refuses(execs', j, d) => j \in 1 .. Attempts
  BY <1>3
<1>7. \A j \in 1 .. Attempts : j \in DOMAIN execs /\ j \in DOMAIN execs'
  BY <1>1
<1>8. \A d \in Nat : (\E j \in DOMAIN execs' : Refuses(execs', j, d))
                  <=> (\E j \in DOMAIN execs : Refuses(execs, j, d))
  BY <1>1, <1>5, <1>6, <1>7
<1>9. \A rows : Refused(rows) = {d \in Nat : \E j \in DOMAIN rows : Refuses(rows, j, d)}
  BY DEF Refused
<1> HIDE DEF Refuses
<1> QED
  BY <1>8, <1>9

\* What was refused was written before it was.
LEMMA RefusedIsOld ==
  ASSUME TypeOK, SourcesInv, NEW d \in Refused(execs)
  PROVE  d # 0 /\ d \in Nat /\ d < Attempts
<1>1. PICK j \in DOMAIN execs : execs[j].draft = d /\ d # 0 /\ d \in Nat
  BY DEF Refused, IsArticle
<1> QED
  BY <1>1, RowTypes DEF SourcesInv

\* The rows of second reviews are finitely many.
LEMMA RereviewedFinite ==
  ASSUME TypeOK
  PROVE  IsFiniteSet(Rereviewed) /\ Cardinality(Rereviewed) \in Nat
<1>1. IsFiniteSet(1 .. Attempts)
  BY RowTypes, FS_Interval
<1>2. Rereviewed \subseteq 1 .. Attempts
  BY RowTypes DEF Rereviewed
<1> QED
  BY <1>1, <1>2, FS_Subset, FS_CardinalityType

\* A review is shown the article of the worker: what stands in for a missing one
\* was not written by the step that writes articles.
LEMMA ReviewedDraft ==
  ASSUME TypeOK, SourcesInv, SendsBack, DraftFor(work.outputs, at) \in Refused(execs)
  PROVE  work.outputs[flow.article] \in Refused(execs)
<1>1. flow.article \in Step /\ 1 \in Step
  BY FlowType DEF FlowShape
<1>2. CASE work.outputs[flow.article] # 0
  BY <1>2 DEF DraftFor
<1>3. CASE work.outputs[flow.article] = 0
  <2> DEFINE d == DraftFor(work.outputs, at)
  <2>1. d # 0 /\ execs[d].step = flow.article
    BY DEF Refused, IsArticle
  <2>2. d = work.outputs[1]
    BY <1>3, <2>1 DEF DraftFor
  <2>3. execs[d].step = 1
    BY <1>1, <2>1, <2>2 DEF SourcesInv, Sourced
  <2> QED
    BY <1>3, <2>1, <2>2, <2>3
<1> QED
  BY <1>2, <1>3

\* Every action keeps it.
LEMMA RewriteStep ==
  ASSUME FirstStepStays, TypeOK, LatestInv, SourcesInv, RewriteInv, [Next]_vars
  PROVE  RewriteInv'
<1> DEFINE Count == Cardinality(Rereviewed)
           Past == pc \in {"ready", "emit"} \/ (pc \in {"step", "answered"} /\ at < Steps)
           New == work.outputs[flow.article] \notin Refused(execs)
<1>1. flow' = flow
  BY FlowStays
<1>2. Refused(execs)' = Refused(execs')
  BY <1>1 DEF Refused, IsArticle
<1>3. Count \in Nat /\ crashes \in Nat /\ crashes' \in Nat
  <2>1. TypeOK'
    BY TypeStep
  <2> QED
    BY <2>1, RereviewedFinite DEF TypeOK
<1>4. /\ at \in Nat /\ at \in Step /\ Steps \in Nat
      /\ flow.article \in Step /\ flow.article \in Nat /\ flow.gate \in 0 .. Steps
  BY FlowType DEF TypeOK, FlowShape, Step
<1>5. SendsBack' <=> SendsBack
  BY <1>1 DEF SendsBack
<1>6. CASE ~SendsBack
  BY <1>5, <1>6 DEF RewriteInv
<1>7. CASE SendsBack
  <2>1. /\ Count <= crashes
        /\ Past => at <= flow.article \/ New \/ Count < crashes
        /\ pc \in {"down", "up"} => Count < crashes
    BY <1>7 DEF RewriteInv
  <2>2. CASE OpenStep
    <3>1. /\ pc = "emit" /\ pc' = "step" /\ at' = at /\ work' = work /\ crashes' = crashes
      BY <2>2 DEF OpenStep
    <3>2. Refused(execs') = Refused(execs)
      <4>1. ~Answer
        BY <3>1 DEF Answer
      <4> QED
        BY <4>1, RefusedStays
    <3>3. CASE at = Steps
      <4>1. at > flow.article
        BY <1>4, <1>7, <3>3 DEF SendsBack
      <4>2. CASE Rereviewed' = Rereviewed
        BY <1>1, <1>4, <2>1, <3>1, <3>3, <4>2 DEF RewriteInv
      <4>3. CASE /\ Rereviewed' = Rereviewed \cup {Attempts + 1}
                 /\ DraftFor(work.outputs, at) \in Refused(execs)
        <5>1. ~New
          BY <1>7, <4>3, ReviewedDraft
        <5>2. Count < crashes
          BY <1>4, <2>1, <3>1, <4>1, <5>1
        <5>3. Cardinality(Rereviewed') <= Count + 1 /\ Cardinality(Rereviewed') \in Nat
          <6>1. IsFiniteSet(Rereviewed)
            BY RereviewedFinite
          <6>2. \/ Cardinality(Rereviewed \cup {Attempts + 1}) = Count
                \/ Cardinality(Rereviewed \cup {Attempts + 1}) = Count + 1
            BY <6>1, FS_AddElement
          <6> QED
            BY <1>3, <4>3, <6>2
        <5> QED
          BY <1>1, <1>3, <1>4, <3>1, <3>3, <5>2, <5>3 DEF RewriteInv
      <4> QED
        BY <2>2, <3>3, <4>2, <4>3, RereviewedOpens
    <3>4. CASE at # Steps
      <4>1. Rereviewed' = Rereviewed
        BY <3>4, RereviewedStays
      <4> QED
        BY <1>1, <1>2, <2>1, <3>1, <3>2, <4>1 DEF RewriteInv
    <3> QED
      BY <3>3, <3>4
  <2>3. CASE ~OpenStep
    <3>1. Rereviewed' = Rereviewed
      BY <2>3, RereviewedStays
    <3>2. CASE Crash
      <4>1. crashes' = crashes + 1 /\ pc' = "down"
        BY <3>2 DEF Crash
      <4> QED
        BY <1>3, <2>1, <3>1, <4>1 DEF RewriteInv
    <3>3. CASE Answer
      <4>1. /\ pc = "step" /\ pc' = "answered" /\ at' = at /\ work' = work /\ crashes' = crashes
        BY <3>3 DEF Answer
      <4>2. at # Steps => Refused(execs') = Refused(execs)
        BY RefusedStays
      <4> QED
        BY <1>1, <1>2, <1>4, <2>1, <3>1, <4>1, <4>2 DEF RewriteInv
    <3>4. CASE ~Crash /\ ~Answer
      <4>1. Refused(execs)' = Refused(execs)
        BY <1>2, <3>4, RefusedStays
      <4>2. CASE Advance
        <5>1. /\ pc = "answered" /\ pc' = "ready" /\ at < Steps /\ at' = at + 1
              /\ work' = Read /\ crashes' = crashes
          BY <4>2 DEF Advance, Judging
        <5>2. CASE at = flow.article
          <6>1. Read.outputs[at] \in {0, Attempts}
            BY <1>4 DEF Read, TypeOK, WorkRecord
          <6>2. Read.outputs[at] \notin Refused(execs)
            BY <6>1, RefusedIsOld, RowTypes
          <6> QED
            BY <1>1, <2>1, <3>1, <4>1, <5>1, <5>2, <6>2 DEF RewriteInv
        <5>3. CASE at # flow.article
          <6>1. Read.outputs[flow.article] = work.outputs[flow.article]
            BY <1>4, <5>3 DEF Read, TypeOK, WorkRecord
          <6>2. at' <= flow.article \/ at > flow.article
            BY <1>4, <5>1, <5>3
          <6>3. at' <= flow.article \/ New \/ Count < crashes
            BY <1>4, <2>1, <5>1, <6>2
          <6> QED
            BY <1>1, <2>1, <3>1, <4>1, <5>1, <6>1, <6>3 DEF RewriteInv
        <5> QED
          BY <5>2, <5>3
      <4>3. CASE SendBack
        <5>1. /\ pc = "answered" /\ pc' \in {"ready", "spent"} /\ at' = Target(at)
              /\ work'.outputs = Read.outputs /\ crashes' = crashes
          BY <4>3 DEF SendBack, Judging, SentBack
        <5>2. CASE at = Steps
          <6>1. at' <= flow.article
            BY <1>7, <5>1, <5>2 DEF Target, SendsBack
          <6> QED
            BY <1>1, <2>1, <3>1, <5>1, <6>1 DEF RewriteInv
        <5>3. CASE at # Steps
          <6>1. at < Steps /\ at' <= at /\ at' \in Nat
            BY <1>4, <5>1, <5>3, BackNotForward, FlowType DEF Step
          <6>2. CASE at <= flow.article
            <7>1. at' <= flow.article
              BY <1>4, <6>1, <6>2
            <7> QED
              BY <1>1, <2>1, <3>1, <5>1, <7>1 DEF RewriteInv
          <6>3. CASE ~(at <= flow.article)
            <7>1. at # flow.article
              BY <1>4, <6>3
            <7>2. Read.outputs[flow.article] = work.outputs[flow.article]
              BY <1>4, <7>1 DEF Read, TypeOK, WorkRecord
            <7>3. New \/ Count < crashes
              BY <2>1, <5>1, <6>1, <6>3
            <7> QED
              BY <1>1, <2>1, <3>1, <4>1, <5>1, <7>2, <7>3 DEF RewriteInv
          <6> QED
            BY <6>2, <6>3
        <5> QED
          BY <5>2, <5>3
      <4>4. CASE Continue
        <5>1. pc = "up" /\ crashes' = crashes
          BY <4>4 DEF Continue
        <5> QED
          BY <2>1, <3>1, <4>4, <5>1 DEF RewriteInv, Continue
      <4>5. CASE ~Advance /\ ~SendBack /\ ~Continue
        <5>1. crashes' = crashes
          BY <2>3, <3>4, <4>5 DEF Next, Worker, Judge, vars, RunsOut, CheckStep, StepRaises,
             NoticesStop, Spent, Accept, AcceptNothing, Undecided, Deliver, RequestStop,
             StopRun, Restart
        <5>2. /\ pc' \in {"down", "up"} => pc \in {"down", "up"}
              /\ Past' => Past /\ at' = at /\ work' = work
          BY <2>3, <3>4, <4>5 DEF Next, Worker, Judge, vars, memory, RunsOut, CheckStep,
             StepRaises, NoticesStop, Spent, Accept, AcceptNothing, Undecided, Deliver,
             RequestStop, StopRun, Awaiting, Restart, Ends
        <5> QED
          BY <1>1, <2>1, <3>1, <4>1, <5>1, <5>2 DEF RewriteInv
      <4> QED
        BY <4>2, <4>3, <4>4, <4>5
    <3> QED
      BY <3>2, <3>3, <3>4
  <2> QED
    BY <2>2, <2>3
<1> QED
  BY <1>6, <1>7

\* A draft that the last step rejected is rewritten before the last step sees it
\* again, but for one review for every crash on the way back.
THEOREM RejectedDraftIsAlwaysRewritten ==
  FirstStepStays /\ Spec => []RejectedDraftIsRewritten
<1> SUFFICES ASSUME FirstStepStays
             PROVE  Spec => []RejectedDraftIsRewritten
  OBVIOUS
<1>1. Init => RewriteInv
  <2> SUFFICES ASSUME Init PROVE RewriteInv
    OBVIOUS
  <2>1. Rereviewed = {} /\ Refused(execs) = {} /\ crashes = 0 /\ pc = "ready"
    BY DEF Init, Rereviewed, Refused
  <2>2. Cardinality(Rereviewed) = 0
    BY <2>1, FS_EmptySet
  <2> QED
    BY <2>1, <2>2 DEF RewriteInv
<1>2. TypeOK /\ LatestInv /\ SourcesInv /\ RewriteInv /\ [Next]_vars => RewriteInv'
  BY RewriteStep
<1>3. RewriteInv => RejectedDraftIsRewritten
  BY DEF RewriteInv, RejectedDraftIsRewritten, SendsBack
<1> QED
  BY <1>1, <1>2, <1>3, TypeCorrect, LatestAlways, SourcesAlways, PTL DEF Spec

-----------------------------------------------------------------------------
(* What is told of a run.                                                  *)

\* A sequence r of records names executions E; its path are their steps.
Path(E, r) == [i \in DOMAIN r |-> E[r[i]].step]

\* On a path p of a flow whose gate goes back to step g: where the gate judges,
\* where it does so although no draft was written since it did last, and whether
\* it would do so next.
Gates(p) == {i \in DOMAIN p : p[i] = Steps}

Draft(g, s) == s \in g .. Steps - 1

Bares(g, p) ==
  {n \in Gates(p) :
     \A j \in 1 .. n - 1 : (\A i \in Gates(p) : i < n => i < j) => ~Draft(g, p[j])}

Idle(g, p) == \A j \in DOMAIN p : (\A i \in Gates(p) : i < j) => ~Draft(g, p[j])

\* The records name no execution twice, those of the gate are the ones seen,
\* and at most c of them judge without a draft.
Distinct(r) == \A i, j \in DOMAIN r : r[i] = r[j] => i = j

Books(g, E, r, seen, c) ==
  /\ Distinct(r)
  /\ seen = {r[i] : i \in Gates(Path(E, r))}
  /\ Cardinality(Bares(g, Path(E, r))) <= c

\* The latest record of step i has the text t.
Tells(E, r, i, t) ==
  \/ t = 0 /\ \A j \in DOMAIN r : E[r[j]].step # i
  \/ \E j \in DOMAIN r :
       /\ E[r[j]].step = i
       /\ \A m \in DOMAIN r : E[r[m]].step = i => r[m] <= r[j]
       /\ t = IF E[r[j]].reply = "empty" THEN 0 ELSE r[j]

Matches(E, r, outputs) == \A i \in Step : Tells(E, r, i, outputs[i])

\* A path that goes on by one step.
Longer(p, q, n, s) ==
  /\ n \in Nat /\ DOMAIN p = 1 .. n /\ DOMAIN q = 1 .. n + 1
  /\ \A i \in 1 .. n : q[i] = p[i]
  /\ q[n + 1] = s

\* So does the path of records to which one is added.
LEMMA PathLonger ==
  ASSUME NEW E, NEW r \in Seq(Nat), NEW k
  PROVE  Longer(Path(E, r), Path(E, Append(r, k)), Len(r), E[k].step)
<1>1. /\ DOMAIN r = 1 .. Len(r) /\ Len(r) \in Nat
      /\ DOMAIN Append(r, k) = 1 .. Len(r) + 1
      /\ Append(r, k)[Len(r) + 1] = k
      /\ \A i \in 1 .. Len(r) : Append(r, k)[i] = r[i]
  OBVIOUS
<1> DEFINE new == Append(r, k)
<1> HIDE DEF new
<1> QED
  BY <1>1 DEF Path, Longer, new

\* The gate may be the next step, and judge without a draft.
LEMMA GatesLonger ==
  ASSUME NEW p, NEW q, NEW n, NEW s, NEW g, Longer(p, q, n, s)
  PROVE  /\ Gates(p) \subseteq 1 .. n
         /\ Gates(q) = IF s = Steps THEN Gates(p) \cup {n + 1} ELSE Gates(p)
         /\ Bares(g, q) = IF s = Steps /\ Idle(g, p) THEN Bares(g, p) \cup {n + 1} ELSE Bares(g, p)
         /\ Idle(g, q) <=> s = Steps \/ (Idle(g, p) /\ ~Draft(g, s))
<1>1. /\ n \in Nat /\ DOMAIN p = 1 .. n /\ DOMAIN q = 1 .. n + 1
      /\ \A i \in 1 .. n : q[i] = p[i]
      /\ q[n + 1] = s
  BY DEF Longer
<1>2. Gates(p) \subseteq 1 .. n
  BY <1>1 DEF Gates
<1>3. Gates(q) = IF s = Steps THEN Gates(p) \cup {n + 1} ELSE Gates(p)
  <2>1. \A i : i \in 1 .. n + 1 <=> i \in 1 .. n \/ i = n + 1
    BY <1>1
  <2>2. n + 1 \notin 1 .. n
    BY <1>1
  <2> QED
    BY <1>1, <2>1, <2>2 DEF Gates
<1>4. \A i \in Gates(p) : i \in Nat /\ i <= n /\ i < n + 1
  BY <1>1, <1>2
<1>5. ASSUME NEW m \in 1 .. n
      PROVE  m \in Bares(g, q) <=> m \in Bares(g, p)
  <2>1. m \in Gates(q) <=> m \in Gates(p)
    BY <1>1, <1>3
  <2>2. \A i \in Gates(q) : i < m => i \in Gates(p)
    BY <1>1, <1>3
  <2>3. \A i \in Gates(p) : i \in Gates(q)
    BY <1>3
  <2>4. \A j \in 1 .. m - 1 : q[j] = p[j]
    BY <1>1
  <2> QED
    BY <2>1, <2>2, <2>3, <2>4 DEF Bares
<1>6. n + 1 \in Bares(g, q) <=> s = Steps /\ Idle(g, p)
  <2>1. n + 1 \in Gates(q) <=> s = Steps
    BY <1>1, <1>2, <1>3
  <2>2. (n + 1) - 1 = n
    BY <1>1
  <2>3. \A j \in 1 .. n : (\A i \in Gates(q) : i < n + 1 => i < j) <=> (\A i \in Gates(p) : i < j)
    <3> TAKE j \in 1 .. n
    <3>1. \A i \in Gates(q) : i < n + 1 => i \in Gates(p)
      BY <1>1, <1>3
    <3>2. \A i \in Gates(p) : i \in Gates(q) /\ i < n + 1
      BY <1>3, <1>4
    <3> QED
      BY <3>1, <3>2
  <2> QED
    BY <1>1, <2>1, <2>2, <2>3 DEF Bares, Idle
<1>7. Bares(g, q) = IF s = Steps /\ Idle(g, p) THEN Bares(g, p) \cup {n + 1} ELSE Bares(g, p)
  <2>1. \A m \in Bares(g, q) : m \in 1 .. n \/ m = n + 1
    BY <1>2, <1>3 DEF Bares
  <2>2. \A m \in Bares(g, p) : m \in 1 .. n
    BY <1>2 DEF Bares
  <2> QED
    BY <1>5, <1>6, <2>1, <2>2
<1>8. CASE s = Steps
  <2>1. Gates(q) = Gates(p) \cup {n + 1}
    BY <1>3, <1>8
  <2>2. \A j \in DOMAIN q : ~(n + 1 < j)
    BY <1>1
  <2>3. Idle(g, q)
    BY <2>1, <2>2 DEF Idle
  <2> QED
    BY <1>2, <1>3, <1>7, <1>8, <2>3
<1>9. CASE s # Steps
  <2>1. Gates(q) = Gates(p)
    BY <1>3, <1>9
  <2>2. Idle(g, q) <=> /\ \A j \in 1 .. n : (\A i \in Gates(p) : i < j) => ~Draft(g, p[j])
                       /\ (\A i \in Gates(p) : i < n + 1) => ~Draft(g, s)
    <3>1. \A j : j \in 1 .. n + 1 <=> j \in 1 .. n \/ j = n + 1
      BY <1>1
    <3> QED
      BY <1>1, <2>1, <3>1 DEF Idle
  <2>3. Idle(g, q) <=> Idle(g, p) /\ ~Draft(g, s)
    BY <1>1, <1>4, <2>2 DEF Idle
  <2> QED
    BY <1>2, <1>3, <1>7, <1>9, <2>3
<1> QED
  BY <1>8, <1>9

\* What was judged without a draft can be counted.
LEMMA BaresFinite ==
  ASSUME NEW E, NEW r \in Seq(Nat), NEW g
  PROVE  /\ IsFiniteSet(Bares(g, Path(E, r)))
         /\ Cardinality(Bares(g, Path(E, r))) \in Nat
<1>1. Bares(g, Path(E, r)) \subseteq 1 .. Len(r) /\ Len(r) \in Nat
  BY DEF Bares, Gates, Path
<1>2. IsFiniteSet(1 .. Len(r))
  BY <1>1, FS_Interval
<1> QED
  BY <1>1, <1>2, FS_Subset, FS_CardinalityType

\* A record that is added is seen if it is the gate's.
LEMMA BooksLonger ==
  ASSUME NEW g, NEW E, NEW r \in Seq(Nat), NEW seen, NEW c \in Nat, NEW k \in Nat,
         Books(g, E, r, seen, c),
         \A i \in DOMAIN r : r[i] # k,
         E[k].step = Steps /\ Idle(g, Path(E, r)) => Cardinality(Bares(g, Path(E, r))) < c
  PROVE  Books(g, E, Append(r, k), seen \cup (IF E[k].step = Steps THEN {k} ELSE {}), c)
<1> DEFINE p == Path(E, r)
           q == Path(E, Append(r, k))
           s == E[k].step
           n == Len(r)
           new == Append(r, k)
<1>1. /\ DOMAIN r = 1 .. n /\ n \in Nat
      /\ DOMAIN new = 1 .. n + 1
      /\ new[n + 1] = k
      /\ \A i \in 1 .. n : new[i] = r[i]
  OBVIOUS
<1>2. /\ Gates(p) \subseteq 1 .. n
      /\ Gates(q) = IF s = Steps THEN Gates(p) \cup {n + 1} ELSE Gates(p)
      /\ Bares(g, q) = IF s = Steps /\ Idle(g, p) THEN Bares(g, p) \cup {n + 1} ELSE Bares(g, p)
  <2>1. Longer(p, q, n, s)
    BY PathLonger
  <2> HIDE DEF p, q, n, s
  <2> QED
    BY <2>1, GatesLonger
<1>3. /\ Distinct(r)
      /\ seen = {r[i] : i \in Gates(p)}
      /\ Cardinality(Bares(g, p)) <= c
  BY DEF Books
<1>4. IsFiniteSet(Bares(g, p)) /\ Cardinality(Bares(g, p)) \in Nat
  BY BaresFinite
<1>5. Distinct(new)
  <2> SUFFICES ASSUME NEW i \in 1 .. n + 1, NEW j \in 1 .. n + 1, new[i] = new[j]
               PROVE  i = j
    BY <1>1 DEF Distinct
  <2>1. CASE i \in 1 .. n /\ j \in 1 .. n
    BY <1>1, <1>3, <2>1 DEF Distinct
  <2>2. CASE i = n + 1 \/ j = n + 1
    <3>1. i = n + 1 \/ i \in 1 .. n
      BY <1>1
    <3>2. j = n + 1 \/ j \in 1 .. n
      BY <1>1
    <3> QED
      BY <1>1, <2>2, <3>1, <3>2
  <2> QED
    BY <1>1, <2>1, <2>2
<1>6. {new[i] : i \in Gates(q)} = seen \cup (IF s = Steps THEN {k} ELSE {})
  <2>1. \A i \in Gates(p) : new[i] = r[i]
    BY <1>1, <1>2
  <2> HIDE DEF new, p, q, n, s
  <2>2. CASE s = Steps
    BY <1>1, <1>2, <1>3, <2>1, <2>2
  <2>3. CASE s # Steps
    BY <1>1, <1>2, <1>3, <2>1, <2>3
  <2> QED
    BY <2>2, <2>3
<1>7. Cardinality(Bares(g, q)) <= c
  <2>1. CASE s = Steps /\ Idle(g, p)
    <3>1. Bares(g, q) = Bares(g, p) \cup {n + 1}
      BY <1>2, <2>1
    <3>2. Cardinality(Bares(g, p)) < c
      BY <2>1
    <3> DEFINE B == Bares(g, p)
    <3> HIDE DEF p, q, n, s
    <3>3. Cardinality(B \cup {n + 1}) = IF n + 1 \in B THEN Cardinality(B) ELSE Cardinality(B) + 1
      BY <1>4, FS_AddElement
    <3> QED
      BY <1>4, <3>1, <3>2, <3>3
  <2>2. CASE ~(s = Steps /\ Idle(g, p))
    <3>1. Bares(g, q) = Bares(g, p)
      BY <1>2, <2>2
    <3> QED
      BY <1>3, <3>1
  <2> QED
    BY <2>1, <2>2
<1> QED
  BY <1>5, <1>6, <1>7 DEF Books

\* The text of a record that is added is the latest of its step.
LEMMA MatchesLonger ==
  ASSUME NEW E, NEW r \in Seq(Nat), NEW k \in Nat, NEW old \in [Step -> Nat], NEW new,
         Matches(E, r, old), E[k].step \in Step,
         \A i \in DOMAIN r : r[i] <= k,
         new = [old EXCEPT ![E[k].step] = IF E[k].reply = "empty" THEN 0 ELSE k]
  PROVE  Matches(E, Append(r, k), new)
<1> DEFINE n == Len(r)
           R == Append(r, k)
<1>1. /\ DOMAIN r = 1 .. n /\ n \in Nat
      /\ DOMAIN R = 1 .. n + 1
      /\ R[n + 1] = k
      /\ \A i \in 1 .. n : R[i] = r[i]
  OBVIOUS
<1>2. \A i : i \in 1 .. n + 1 <=> i \in 1 .. n \/ i = n + 1
  BY <1>1
<1> HIDE DEF R, n
<1> SUFFICES ASSUME NEW i \in Step
             PROVE  Tells(E, R, i, new[i])
  BY DEF Matches, R
<1>3. CASE i = E[k].step
  <2>1. new[i] = IF E[k].reply = "empty" THEN 0 ELSE k
    BY <1>3
  <2>2. n + 1 \in DOMAIN R /\ E[R[n + 1]].step = i
    BY <1>1, <1>2, <1>3
  <2>3. \A m \in DOMAIN R : R[m] <= R[n + 1]
    BY <1>1, <1>2
  <2> QED
    BY <1>1, <2>1, <2>2, <2>3 DEF Tells
<1>4. CASE i # E[k].step
  <2>1. new[i] = old[i] /\ Tells(E, r, i, old[i])
    BY <1>4 DEF Matches
  <2>2. CASE old[i] = 0 /\ \A j \in DOMAIN r : E[r[j]].step # i
    BY <1>1, <1>2, <1>4, <2>1, <2>2 DEF Tells
  <2>3. CASE \E j \in DOMAIN r :
               /\ E[r[j]].step = i
               /\ \A m \in DOMAIN r : E[r[m]].step = i => r[m] <= r[j]
               /\ old[i] = IF E[r[j]].reply = "empty" THEN 0 ELSE r[j]
    <3>1. PICK j \in DOMAIN r :
                 /\ E[r[j]].step = i
                 /\ \A m \in DOMAIN r : E[r[m]].step = i => r[m] <= r[j]
                 /\ old[i] = IF E[r[j]].reply = "empty" THEN 0 ELSE r[j]
      BY <2>3
    <3>2. j \in DOMAIN R /\ R[j] = r[j]
      BY <1>1, <1>2
    <3>3. \A m \in DOMAIN R : E[R[m]].step = i => R[m] <= R[j]
      BY <1>1, <1>2, <1>4, <3>1, <3>2
    <3> QED
      BY <2>1, <3>1, <3>2, <3>3 DEF Tells
  <2> QED
    BY <2>1, <2>2, <2>3 DEF Tells
<1> QED
  BY <1>3, <1>4

\* Rows keep their steps, and their replies but for the one that is answered.
LEMMA RowsTold ==
  ASSUME TypeOK, [Next]_vars, NEW k \in 1 .. Attempts
  PROVE  /\ k \in 1 .. Attempts'
         /\ execs'[k].step = execs[k].step
         /\ Answer => pc = "step"
         /\ ~Answer \/ k # Attempts => execs'[k].reply = execs[k].reply
<1>1. CASE OpenStep
  <2>1. ~Answer
    BY <1>1 DEF OpenStep, Answer
  <2> QED
    BY <1>1, <2>1, OpenedRow, RowTypes DEF SamePrompt
<1>2. CASE Answer
  <2>1. pc = "step"
    BY <1>2 DEF Answer
  <2> QED
    BY <1>2, <2>1, AnsweredRow DEF SamePrompt
<1>3. CASE ~OpenStep /\ ~Answer
  BY <1>3, OtherRows DEF SamePrompt
<1> QED
  BY <1>1, <1>2, <1>3

\* A sequence is one of whatever its elements are in.
LEMMA SequenceOf ==
  ASSUME NEW S, NEW T, NEW r \in Seq(S), \A i \in DOMAIN r : r[i] \in T
  PROVE  r \in Seq(T)
<1>1. Len(r) \in Nat /\ DOMAIN r = 1 .. Len(r) /\ r = [i \in 1 .. Len(r) |-> r[i]]
  OBVIOUS
<1>2. r \in [1 .. Len(r) -> T]
  BY <1>1
<1> QED
  BY <1>1, <1>2

\* So the records of a run keep what they say.
LEMMA RecordsTold ==
  ASSUME TypeOK, [Next]_vars, NEW r \in Seq(1 .. Attempts)
  PROVE  /\ r \in Seq(1 .. Attempts') /\ r \in Seq(Nat)
         /\ Path(execs', r) = Path(execs, r)
         /\ ~Answer \/ (\A i \in DOMAIN r : r[i] < Attempts) =>
              \A outputs : Matches(execs, r, outputs) => Matches(execs', r, outputs)
<1>1. Attempts \in Nat /\ \A i \in DOMAIN r : r[i] \in 1 .. Attempts
  BY RowTypes
<1>2. \A i \in DOMAIN r : r[i] \in 1 .. Attempts' /\ execs'[r[i]].step = execs[r[i]].step
  BY <1>1, RowsTold
<1>3. r \in Seq(1 .. Attempts') /\ r \in Seq(Nat)
  <2> DEFINE N == 1 .. Attempts'
  <2>1. \A i \in DOMAIN r : r[i] \in N
    BY <1>2
  <2>2. \A i \in DOMAIN r : r[i] \in Nat
    BY <1>1
  <2>3. r \in Seq(Nat)
    BY <2>2, SequenceOf
  <2> HIDE DEF N
  <2>4. r \in Seq(N)
    BY <2>1, SequenceOf
  <2> QED
    BY <2>3, <2>4 DEF N
<1>4. Path(execs', r) = Path(execs, r)
  BY <1>2 DEF Path
<1>5. ASSUME ~Answer \/ (\A i \in DOMAIN r : r[i] < Attempts), NEW outputs,
             Matches(execs, r, outputs)
      PROVE  Matches(execs', r, outputs)
  <2>1. \A i \in DOMAIN r : execs'[r[i]].reply = execs[r[i]].reply
    BY <1>1, <1>5, RowsTold
  <2> SUFFICES ASSUME NEW i \in Step
               PROVE  Tells(execs', r, i, outputs[i])
    BY DEF Matches
  <2>2. Tells(execs, r, i, outputs[i])
    BY <1>5 DEF Matches
  <2>3. CASE outputs[i] = 0 /\ \A j \in DOMAIN r : execs[r[j]].step # i
    BY <1>2, <2>3 DEF Tells
  <2>4. CASE \E j \in DOMAIN r :
               /\ execs[r[j]].step = i
               /\ \A m \in DOMAIN r : execs[r[m]].step = i => r[m] <= r[j]
               /\ outputs[i] = IF execs[r[j]].reply = "empty" THEN 0 ELSE r[j]
    <3>1. PICK j \in DOMAIN r :
                 /\ execs[r[j]].step = i
                 /\ \A m \in DOMAIN r : execs[r[m]].step = i => r[m] <= r[j]
                 /\ outputs[i] = IF execs[r[j]].reply = "empty" THEN 0 ELSE r[j]
      BY <2>4
    <3>2. execs'[r[j]].step = i /\ execs'[r[j]].reply = execs[r[j]].reply
      BY <1>2, <2>1, <3>1
    <3>3. \A m \in DOMAIN r : execs'[r[m]].step = i => r[m] <= r[j]
      BY <1>2, <3>1
    <3> QED
      BY <3>1, <3>2, <3>3 DEF Tells
  <2> QED
    BY <2>2, <2>3, <2>4 DEF Tells
<1> QED
  BY <1>3, <1>4, <1>5

\* The executions of a set in order: each is there once.
LEMMA InOrderOf ==
  ASSUME NEW S \in SUBSET Nat, IsFiniteSet(S)
  PROVE  /\ InOrder(S) \in Seq(S)
         /\ Len(InOrder(S)) = Cardinality(S)
         /\ Distinct(InOrder(S))
         /\ \A k \in S : \E n \in DOMAIN InOrder(S) : InOrder(S)[n] = k
<1> DEFINE c == Cardinality(S)
           r == InOrder(S)
<1>1. c \in Nat
  BY FS_CardinalityType
<1>2. \A k \in S : Cardinality({j \in S : j <= k}) = Cardinality(Below(S, k)) + 1
  <2> TAKE k \in S
  <2>1. {j \in S : j <= k} = Below(S, k) \cup {k} /\ k \notin Below(S, k)
    <3>1. \A j \in S : j <= k <=> j < k \/ j = k
      <4> TAKE j \in S
      <4>1. k \in Nat /\ j \in Nat
        OBVIOUS
      <4> QED
        BY <4>1
    <3>2. ~(k < k)
      <4>1. k \in Nat
        OBVIOUS
      <4> QED
        BY <4>1
    <3> QED
      BY <3>1, <3>2 DEF Below
  <2>2. IsFiniteSet(Below(S, k))
    BY FS_Subset DEF Below
  <2> QED
    BY <2>1, <2>2, FS_AddElement
<1>3. DOMAIN r = 1 .. c /\ \A n \in 1 .. c : r[n] \in S /\ Cardinality({j \in S : j <= r[n]}) = n
  <2>1. DOMAIN r = 1 .. c
    BY DEF InOrder
  <2>2. ASSUME NEW n \in 1 .. c
        PROVE  r[n] \in S /\ Cardinality({j \in S : j <= r[n]}) = n
    <3>1. n - 1 \in 0 .. (c - 1)
      BY <1>1
    <3>2. PICK p \in S : Cardinality(Below(S, p)) = n - 1
      BY <3>1, RanksTaken
    <3>3. Cardinality({j \in S : j <= p}) = n
      BY <1>1, <1>2, <3>2
    <3>4. r[n] = CHOOSE k \in S : Cardinality({j \in S : j <= k}) = n
      BY DEF InOrder
    <3> HIDE DEF r
    <3> QED
      BY <3>3, <3>4
  <2> QED
    BY <2>1, <2>2
<1>4. \A k \in S : \E n \in 1 .. c : r[n] = k
  <2> TAKE k \in S
  <2>1. Cardinality(Below(S, k)) \in 0 .. (c - 1)
    BY Ranks
  <2>2. PICK n \in 1 .. c : n = Cardinality(Below(S, k)) + 1
    BY <1>1, <2>1
  <2>3. r[n] \in S /\ Cardinality({j \in S : j <= r[n]}) = n
    BY <1>3
  <2>4. Cardinality(Below(S, r[n])) + 1 = Cardinality(Below(S, k)) + 1
    BY <1>2, <2>2, <2>3
  <2> HIDE DEF r
  <2>5. Cardinality(Below(S, r[n])) = Cardinality(Below(S, k))
    <3>1. Cardinality(Below(S, r[n])) \in 0 .. (c - 1)
      BY <2>3, Ranks
    <3> QED
      BY <1>1, <2>1, <2>4, <3>1
  <2>6. ~(r[n] < k) /\ ~(k < r[n])
    <3>1. r[n] < k => Cardinality(Below(S, r[n])) < Cardinality(Below(S, k))
      BY <2>3, Ranks
    <3>2. k < r[n] => Cardinality(Below(S, k)) < Cardinality(Below(S, r[n]))
      BY <2>3, Ranks
    <3> QED
      BY <1>1, <2>1, <2>5, <3>1, <3>2
  <2>7. r[n] \in Nat /\ k \in Nat
    BY <2>3
  <2> QED
    BY <2>6, <2>7
<1>5. Distinct(r)
  <2> SUFFICES ASSUME NEW i \in 1 .. c, NEW j \in 1 .. c, r[i] = r[j]
               PROVE  i = j
    BY <1>3 DEF Distinct
  <2> HIDE DEF r
  <2> QED
    BY <1>3
<1>6. r \in Seq(S) /\ Len(r) = c
  <2>1. r = [n \in 1 .. c |-> r[n]]
    BY DEF InOrder
  <2>2. r \in [1 .. c -> S]
    BY <1>3, <2>1
  <2> HIDE DEF r
  <2> QED
    BY <1>1, <2>2
<1> QED
  BY <1>3, <1>4, <1>5, <1>6

\* A step of a run with its telemetry is a step of the run.
LEMMA TelemetryRefines == [TelemetryNext]_tvars => [Next]_vars
BY DEF TelemetryNext, TelemetryWorker, Silent, GoesOn, GoesBack, Accepts, Delivers, Fails, Drops,
       GoesDown, ComesUp, Resumes, tvars, Next, Worker, Judge

\* ... and its run is one.
LEMMA TelemetryRuns == TelemetrySpec => Spec
<1>1. TelemetryInit => Init
  BY DEF TelemetryInit
<1> QED
  BY <1>1, TelemetryRefines, PTL DEF TelemetrySpec, Spec

\* While the headline is awaited the latest row is the last step's, which has
\* accepted if it reviews.
HeadInv ==
  pc = "headline" =>
    /\ Attempts > 0 /\ Latest.step = Steps
    /\ flow.gate # 0 => Latest.reply = "accept"

\* Only an answer that may end the run leads to the headline.
LEMMA HeadAlways == Spec => []HeadInv
<1>1. Init => HeadInv
  BY DEF Init, HeadInv
<1>2. ASSUME TypeOK, LatestInv, HeadInv, [Next]_vars
      PROVE  HeadInv'
  <2>1. flow' = flow
    BY <1>2, FlowStays
  <2>2. CASE Accept
    <3>1. pc = "answered" /\ at = Steps /\ UNCHANGED execs /\ Accepted
      BY <2>2 DEF Accept, Judging, db
    <3>2. Latest' = Latest /\ Attempts' = Attempts
      BY <3>1 DEF Latest, Attempts
    <3> QED
      BY <1>2, <2>1, <3>1, <3>2 DEF HeadInv, LatestInv, Accepted
  <2>3. CASE ~Accept
    <3>1. pc' = "headline" => pc = "headline"
      BY <1>2, <2>3 DEF Next, Worker, Judge, vars, memory, RunsOut, CheckStep, OpenStep, Answer,
           StepRaises, NoticesStop, Advance, SendBack, Spent, AcceptNothing, Undecided, Deliver,
           RequestStop, StopRun, Crash, Restart, Continue, Ends
    <3>2. pc = "headline" => ~OpenStep /\ ~Answer
      BY DEF OpenStep, Answer
    <3> QED
      BY <1>2, <2>1, <3>1, <3>2, LatestStays DEF HeadInv, SamePrompt
  <2> QED
    BY <2>2, <2>3
<1> QED
  BY <1>1, <1>2, TypeCorrect, LatestAlways, PTL DEF Spec

\* An execution that was completed has a text.
SaysInv == \A k \in 1 .. Attempts : execs[k].state = "completed" => execs[k].reply # "empty"

\* In every state: an answer that is empty has failed.
LEMMA SaysAlways == Spec => []SaysInv
<1>1. Init => SaysInv
  BY DEF Init, SaysInv, Attempts
<1>2. ASSUME TypeOK, SaysInv, [Next]_vars
      PROVE  SaysInv'
  <2>1. Attempts \in Nat /\ DOMAIN execs = 1 .. Attempts /\ \A k \in 1 .. Attempts : execs[k] \in Execution
    BY <1>2, RowTypes
  <2>2. \A S : \A k \in 1 .. Attempts :
          FailOpen(S)[k].state = "completed" => execs[k].state = "completed"
    BY <2>1 DEF FailOpen, Execution
  <2>3. \A S : \A k \in 1 .. Attempts : FailOpen(S)[k].reply = execs[k].reply
    BY <1>2, FailOpenKeeps
  <2>4. CASE OpenStep
    <3> DEFINE closed == FailOpen({at})
               opened == [step |-> at, state |-> "open", reply |-> "none",
                          draft |-> DraftFor(work.outputs, at), remarks |-> work.remarks,
                          late |-> flagged \/ status # "running"]
    <3>1. closed \in Seq(Execution) /\ Len(closed) = Attempts
      BY <1>2, FailOpenTypes DEF TypeOK, Attempts
    <3>2. execs' = Append(closed, opened)
      BY <2>4 DEF OpenStep
    <3>3. opened.state = "open"
      OBVIOUS
    <3>4. Attempts' = Attempts + 1
      BY <1>2, <2>4, OpenedRow
    <3>5. \A k \in 1 .. Attempts : closed[k].state = "completed" => closed[k].reply # "empty"
      BY <1>2, <2>2, <2>3 DEF SaysInv
    <3> HIDE DEF closed, opened
    <3>6. /\ execs'[Attempts + 1] = opened
          /\ \A k \in 1 .. Attempts : execs'[k] = closed[k]
      BY <3>1, <3>2, AppendElements
    <3> QED
      BY <2>1, <3>3, <3>4, <3>5, <3>6 DEF SaysInv
  <2>5. CASE Answer
    <3>1. PICK state \in {"completed", "failed"}, reply \in Replies(at) \cup {"empty"} :
            /\ reply = "empty" => state = "failed"
            /\ execs' = [execs EXCEPT ![Attempts].state = state, ![Attempts].reply = reply]
      BY <2>5 DEF Answer
    <3>2. /\ Attempts' = Attempts
          /\ \A k \in 1 .. Attempts : k # Attempts => execs'[k] = execs[k]
      BY <1>2, <2>5, AnsweredRow
    <3>3. ASSUME Attempts \in 1 .. Attempts
          PROVE  execs'[Attempts].state = state /\ execs'[Attempts].reply = reply
      <4> DEFINE row == execs[Attempts]
                 closed == [execs EXCEPT ![Attempts].state = state]
      <4>1. closed[Attempts] = [row EXCEPT !.state = state] /\ DOMAIN closed = 1 .. Attempts
        BY <2>1, <3>3
      <4>2. execs' = [closed EXCEPT ![Attempts].reply = reply]
        BY <3>1
      <4>3. row \in Execution
        BY <2>1, <3>3
      <4> HIDE DEF row, closed
      <4>4. /\ closed[Attempts].state = state
            /\ "reply" \in DOMAIN closed[Attempts] /\ "state" \in DOMAIN closed[Attempts]
        BY <4>1, <4>3 DEF Execution
      <4>5. execs'[Attempts] = [closed[Attempts] EXCEPT !.reply = reply]
        BY <3>3, <4>1, <4>2
      <4> QED
        BY <4>4, <4>5
    <3> QED
      BY <1>2, <2>1, <3>1, <3>2, <3>3 DEF SaysInv
  <2>6. CASE UNCHANGED execs
    BY <1>2, <2>6 DEF SaysInv, Attempts
  <2>7. CASE execs' = FailOpen(Step)
    <3>1. Attempts' = Attempts
      BY <1>2, <2>7, FailOpenTypes DEF Attempts, TypeOK
    <3> QED
      BY <1>2, <2>2, <2>3, <2>7, <3>1 DEF SaysInv
  <2>8. OpenStep \/ Answer \/ execs' = FailOpen(Step) \/ UNCHANGED execs
    BY <1>2 DEF Next, Worker, Judge, vars, db, RunsOut, CheckStep, StepRaises, NoticesStop, Advance,
         SendBack, Spent, Accept, AcceptNothing, Undecided, Deliver, RequestStop, StopRun,
         Crash, Restart, Continue
  <2> QED
    BY <2>4, <2>5, <2>6, <2>7, <2>8
<1> QED
  BY <1>1, <1>2, TypeCorrect, PTL DEF Spec

\* What is completed, in order, are records.
LEMMA CompletedRecords ==
  ASSUME TypeOK
  PROVE  /\ Completed \in Seq(1 .. Attempts)
         /\ Distinct(Completed)
         /\ \A n \in DOMAIN Completed :
              Completed[n] \in 1 .. Attempts /\ execs[Completed[n]].state = "completed"
         /\ \A k \in 1 .. Attempts : execs[k].state = "completed" =>
              \E n \in DOMAIN Completed : Completed[n] = k
<1> DEFINE S == {k \in DOMAIN execs : execs[k].state = "completed"}
<1>1. DOMAIN execs = 1 .. Attempts /\ Attempts \in Nat
  BY RowTypes
<1>2. S \in SUBSET Nat /\ S \subseteq 1 .. Attempts
  BY <1>1
<1>3. IsFiniteSet(S)
  <2>1. IsFiniteSet(1 .. Attempts)
    BY <1>1, FS_Interval
  <2> QED
    BY <1>2, <2>1, FS_Subset
<1>4. \A k : k \in S <=> k \in 1 .. Attempts /\ execs[k].state = "completed"
  BY <1>1
<1>5. Completed = InOrder(S)
  BY DEF Completed
<1> HIDE DEF S
<1>6. /\ Completed \in Seq(S)
      /\ Distinct(Completed)
      /\ \A k \in S : \E n \in DOMAIN Completed : Completed[n] = k
  BY <1>2, <1>3, <1>5, InOrderOf
<1>7. \A n \in DOMAIN Completed : Completed[n] \in S
  BY <1>6
<1>8. Completed \in Seq(1 .. Attempts)
  BY <1>2, <1>6, <1>7, SequenceOf
<1> QED
  BY <1>4, <1>6, <1>7, <1>8

\* Every action keeps the types of what is told.
LEMMA ToldTypes ==
  ASSUME TypeOK, LatestInv, HeadInv, TelemetryTypeOK, [TelemetryNext]_tvars
  PROVE  TelemetryTypeOK'
<1> USE DEF TelemetryTypeOK, Records
<1>1. [Next]_vars
  BY TelemetryRefines
<1>2. /\ \A r \in Seq(1 .. Attempts) : r \in Seq(1 .. Attempts')
      /\ Attempts \in Nat /\ Attempts' \in Nat /\ Attempts <= Attempts'
  BY <1>1, RecordsTold, PromptsStay
<1>3. decided \subseteq 1 .. Attempts' /\ <<>> \in Seq(1 .. Attempts')
  BY <1>2
<1>4. /\ records \in Seq(1 .. Attempts') /\ stored \in Seq(1 .. Attempts')
      /\ manifest \in Seq(1 .. Attempts')
  BY <1>2
<1>5. pc \in {"answered", "headline"} => Attempts \in 1 .. Attempts /\ Attempts \in 1 .. Attempts'
  BY <1>2 DEF LatestInv, HeadInv
<1>6. pc \in {"answered", "headline"} => Append(records, Attempts) \in Seq(1 .. Attempts')
  BY <1>4, <1>5
<1>7. CASE UNCHANGED told
  BY <1>3, <1>4, <1>7 DEF told
<1>8. CASE GoesOn \/ GoesBack \/ Accepts
  <2>1. pc = "answered"
    BY <1>8 DEF GoesOn, GoesBack, Accepts, Advance, SendBack, Accept, Judging
  <2> QED
    BY <1>3, <1>4, <1>5, <1>6, <1>8, <2>1 DEF GoesOn, GoesBack, Accepts, Recorded
<1>9. CASE Delivers
  <2>1. pc = "headline"
    BY <1>9 DEF Delivers, Deliver
  <2> QED
    BY <1>3, <1>4, <1>5, <1>9, <2>1 DEF Delivers
<1>10. CASE \/ Fails(RunsOut, "Flow ended without completion")
            \/ Fails(Spent, "Max flow iterations exceeded")
            \/ Fails(Undecided, UndecidedWhy)
            \/ Fails(StepRaises, "raised")
  <2>1. UndecidedWhy \in Errors
    BY DEF UndecidedWhy, Errors
  <2> QED
    BY <1>3, <1>4, <1>10, <2>1 DEF Fails, Errors
<1>11. CASE \/ Drops(AcceptNothing, "Flow finished without article content")
            \/ Drops(NoticesStop, error) \/ Drops(StopRun, error)
  BY <1>3, <1>4, <1>11 DEF Drops, Errors
<1>12. CASE GoesDown \/ Resumes
  BY <1>3, <1>4, <1>12 DEF GoesDown, Resumes
<1>13. CASE ComesUp
  <2>1. Completed \in Seq(1 .. Attempts')
    BY <1>2, CompletedRecords
  <2> QED
    BY <1>3, <1>4, <1>13, <2>1 DEF ComesUp, Errors
<1> QED
  BY <1>7, <1>8, <1>9, <1>10, <1>11, <1>12, <1>13
     DEF TelemetryNext, TelemetryWorker, Silent, tvars

\* Records, decisions, the mark and the error keep their types.
THEOREM TelemetryTypeCorrect == TelemetrySpec => []TelemetryTypeOK
<1>1. TelemetryInit => TelemetryTypeOK
  BY DEF TelemetryInit, TelemetryTypeOK, Records, Errors
<1> QED
  BY <1>1, ToldTypes, TelemetryRuns, TypeCorrect, LatestAlways, HeadAlways, PTL DEF TelemetrySpec

\* Records are as good when rows are closed or added, and after a crash.
LEMMA BooksStay ==
  ASSUME NEW g, NEW E, NEW F, NEW r \in Seq(Nat), NEW seen, NEW c \in Nat, NEW d \in Nat,
         Books(g, E, r, seen, c), Path(F, r) = Path(E, r), c <= d
  PROVE  Books(g, F, r, seen, d)
<1>1. Cardinality(Bares(g, Path(E, r))) \in Nat
  BY BaresFinite
<1> QED
  BY <1>1 DEF Books

-----------------------------------------------------------------------------
(* Telemetry tells the run.                                                *)

\* The validator does not look at the loop of the first step: where it leads to
\* the gate, the gate judges what nobody has written, and telemetry counts an
\* iteration without a draft although no crash has lost one.
NoShortcut == \A f \in Flows : f.gate # 0 => f.loops[1] # Steps

\* A run that goes on, or whose failure left its checkpoint.
Open == status = "running" \/ (status = "failed" /\ saved)

\* The path of the records in the checkpoint.
Way == Path(execs, stored)

\* The checkpoint's records are all that the gate decided, rejections, and the
\* latest texts are theirs.  Between its last decision and the next draft there
\* is no other record.
StoredInv ==
  /\ ~saved => stored = <<>> /\ kept = Fresh
  /\ saved => stored # <<>>
  /\ Open =>
       /\ Books(flow.gate, execs, stored, decided, crashes)
       /\ Matches(execs, stored, kept.outputs)
       /\ \A k \in decided : execs[k].reply = "reject"
       /\ Gates(Way) # {} /\ Idle(flow.gate, Way) => Len(stored) \in Gates(Way)

\* Where a run without a draft since the last decision may be: on the way back,
\* or, after a crash, at the gate, which then may judge without one once more.
Homeward(s) == Gates(Way) # {} /\ Idle(flow.gate, Way) => s \in {flow.gate, Steps}
Reserve(s)  == s = Steps /\ Idle(flow.gate, Way) => Cardinality(Bares(flow.gate, Way)) < crashes

\* What a running worker has in memory, and where it or its run is.
MemoryInv ==
  status = "running" =>
    /\ pc \in {"ready", "emit", "step", "answered", "spent"} =>
         records = stored /\ work.outputs = kept.outputs
    /\ pc \in {"step", "answered"} => \A i \in DOMAIN stored : stored[i] < Attempts
    /\ Homeward(current)
    /\ pc \in {"ready", "emit", "step", "answered"} => Homeward(at) /\ Reserve(at)
    /\ pc \in {"down", "up"} => Reserve(current)

\* The records of a run whose latest execution is the review that accepted it.
Final(r, seen) ==
  /\ r # <<>> /\ r[Len(r)] = Attempts
  /\ Books(flow.gate, execs, r, seen, crashes)
  /\ Attempts \in seen

FinalInv ==
  /\ pc = "headline" => Final(records, decided \cup {Attempts}) /\ current = Steps
  /\ status = "completed" =>
       /\ Final(manifest, decided)
       /\ Latest.reply = "accept" /\ Latest.step = Steps
       /\ firstPass = IF FirstPassAccept(manifest) THEN "yes" ELSE "no"
  /\ status # "completed" => manifest = <<>> /\ firstPass = "unset" /\ article = 0

\* What is known of the run.
Known ==
  WorkInv /\ LatestInv /\ HeadInv /\ SaysInv /\ EndedRunIsForgotten /\ TelemetryTypeOK

\* The gate is the last of several steps; no other step leads to it.
LEMMA GateFacts ==
  ASSUME TypeOK, flow.gate # 0
  PROVE  /\ Steps \in Nat /\ Steps > 1 /\ flow.gate \in 1 .. Steps - 1
         /\ NoShortcut => \A i \in Step : Target(i) # Steps
<1>1. flow \in Flows /\ flow \in FlowShape /\ Steps \in Nat \ {0} /\ flow.gate # Steps
      /\ \A i \in Step \ {1} : flow.loops[i] < i
  BY FlowsAssumption, StepsAssumption DEF TypeOK, Admitted
<1>2. flow.gate \in 1 .. Steps - 1 /\ Steps > 1 /\ \A i \in Step : flow.loops[i] \in 0 .. Steps
  BY <1>1 DEF FlowShape
<1>3. ASSUME NoShortcut, NEW i \in Step
      PROVE  Target(i) # Steps
  <2>1. i = 1 => flow.loops[i] # Steps
    BY <1>1, <1>3 DEF NoShortcut
  <2>2. i # 1 => flow.loops[i] # Steps
    BY <1>1, <1>2 DEF Step
  <2> QED
    BY <1>1, <2>1, <2>2 DEF Target
<1> QED
  BY <1>1, <1>2, <1>3

\* A step that is recorded, and a decision of the gate if it is the gate's.
LEMMA RecordedStep ==
  ASSUME NoShortcut, Known, StoredInv, MemoryInv, flow.gate # 0, GoesOn \/ GoesBack
  PROVE  /\ status = "running" /\ saved' /\ stored' = Append(stored, Attempts) /\ stored' # <<>>
         /\ records' = stored' /\ work'.outputs = kept'.outputs
         /\ Books(flow.gate, execs, stored', decided', crashes)
         /\ Matches(execs, stored', kept'.outputs)
         /\ \A k \in decided' : execs[k].reply = "reject"
         /\ Gates(Path(execs, stored')) # {} /\ Idle(flow.gate, Path(execs, stored')) =>
              /\ Len(stored') \in Gates(Path(execs, stored'))
              /\ at' = flow.gate /\ current = Steps
         /\ at' = Steps => ~Idle(flow.gate, Path(execs, stored'))
<1> DEFINE p == Path(execs, stored)
           q == Path(execs, Append(stored, Attempts))
           g == flow.gate
           n == Len(stored)
<1>1. TypeOK /\ TelemetryTypeOK /\ LatestInv
  BY DEF Known, WorkInv
<1>2. pc = "answered" /\ ~Stopped /\ UNCHANGED <<execs, current, crashes>>
  BY DEF GoesOn, GoesBack, Advance, SendBack, Judging
<1>3. /\ status = "running" /\ records = stored /\ work.outputs = kept.outputs /\ Open
      /\ \A i \in DOMAIN stored : stored[i] < Attempts
      /\ Homeward(at) /\ Reserve(at)
  BY <1>2 DEF Stopped, MemoryInv, Open
<1>4. stored' = Append(stored, Attempts) /\ records' = stored' /\ saved'
  BY <1>3 DEF GoesOn, GoesBack, Recorded, Advance, SendBack, Save
<1>5. /\ Attempts \in Nat /\ Attempts \in 1 .. Attempts /\ Latest.step = at /\ current = at
      /\ at \in Step /\ execs[Attempts].step = at
  <2>1. Attempts \in Nat /\ Attempts > 0 /\ Latest.step = at
    BY <1>1, <1>2, RowTypes DEF LatestInv
  <2>2. current = at
    BY <1>2 DEF Known, WorkInv, RoundsInv
  <2> QED
    BY <1>1, <2>1, <2>2 DEF Latest, TypeOK
<1>6. stored \in Seq(Nat) /\ n \in Nat /\ stored \in Seq(1 .. Attempts)
  <2>1. stored \in Seq(1 .. Attempts)
    BY <1>1 DEF TelemetryTypeOK, Records
  <2>2. \A i \in DOMAIN stored : stored[i] \in Nat
    BY <1>5, <2>1
  <2> QED
    BY <2>1, <2>2, SequenceOf
<1>7. stored' # <<>> /\ Len(stored') = n + 1
  BY <1>4, <1>6
<1>8. /\ Steps \in Nat /\ Steps > 1 /\ g \in 1 .. Steps - 1
      /\ \A i \in Step : Target(i) # Steps
  BY <1>1, GateFacts
<1>9. work'.outputs = kept'.outputs /\ kept'.outputs = Read.outputs
  BY DEF GoesOn, GoesBack, Advance, SendBack, Save, SentBack
<1>10. /\ Gates(p) \subseteq 1 .. n
       /\ Gates(q) = IF at = Steps THEN Gates(p) \cup {n + 1} ELSE Gates(p)
       /\ Idle(g, q) <=> at = Steps \/ (Idle(g, p) /\ ~Draft(g, at))
  <2>1. Longer(p, q, n, at)
    BY <1>5, <1>6, PathLonger
  <2> HIDE DEF p, q, g, n
  <2> QED
    BY <2>1, GatesLonger
<1>11. decided' = decided \cup (IF at = Steps THEN {Attempts} ELSE {})
  BY <1>8 DEF GoesOn, GoesBack, Advance
<1>12. /\ Books(g, execs, stored, decided, crashes)
       /\ Matches(execs, stored, kept.outputs)
       /\ \A k \in decided : execs[k].reply = "reject"
  BY <1>3 DEF StoredInv
<1>13. Books(g, execs, stored', decided', crashes)
  <2>1. \A i \in DOMAIN stored : stored[i] # Attempts
    BY <1>3, <1>5, <1>6
  <2>2. at = Steps /\ Idle(g, p) => Cardinality(Bares(g, p)) < crashes
    BY <1>3 DEF Reserve, Way
  <2>3. crashes \in Nat
    BY <1>1, BoundsAssumption DEF TypeOK
  <2>4. Books(g, execs, Append(stored, Attempts),
              decided \cup (IF execs[Attempts].step = Steps THEN {Attempts} ELSE {}), crashes)
    <3> HIDE DEF g
    <3> QED
      BY <1>5, <1>6, <1>12, <2>1, <2>2, <2>3, BooksLonger DEF p
  <2> QED
    BY <1>4, <1>5, <1>11, <2>4
<1>14. Matches(execs, stored', kept'.outputs)
  <2>1. Read.outputs = [kept.outputs EXCEPT ![execs[Attempts].step] =
                          IF execs[Attempts].reply = "empty" THEN 0 ELSE Attempts]
    BY <1>1, <1>3, <1>5 DEF Read, Latest, TypeOK, WorkRecord
  <2>2. kept.outputs \in [Step -> Nat]
    BY <1>1 DEF TypeOK, WorkRecord
  <2>3. \A i \in DOMAIN stored : stored[i] <= Attempts
    BY <1>3, <1>5, <1>6
  <2>4. execs[Attempts].step \in Step
    BY <1>5
  <2> QED
    BY <1>4, <1>5, <1>6, <1>9, <1>12, <2>1, <2>2, <2>3, <2>4, MatchesLonger
<1>15. \A k \in decided' : execs[k].reply = "reject"
  <2>1. CASE at = Steps
    <3>1. execs[Attempts].reply = "reject"
      BY <2>1, <1>8 DEF GoesOn, GoesBack, Advance, SendBack, Rejected, Latest
    <3> QED
      BY <1>11, <1>12, <3>1
  <2>2. CASE at # Steps
    BY <1>11, <1>12, <2>2
  <2> QED
    BY <2>1, <2>2
<1>16. ASSUME Gates(q) # {}, Idle(g, q)
       PROVE  n + 1 \in Gates(q) /\ at' = g /\ current = Steps
  <2>1. CASE at = Steps
    <3>1. GoesBack /\ at' = Target(at)
      BY <2>1, <1>8 DEF GoesOn, Advance, GoesBack, SendBack
    <3> QED
      BY <1>5, <1>10, <2>1, <3>1 DEF Target
  <2>2. CASE at # Steps
    <3>1. Gates(p) # {} /\ Idle(g, p) /\ ~Draft(g, at)
      BY <1>10, <1>16, <2>2
    <3>2. at \in {g, Steps}
      BY <1>3, <3>1 DEF Homeward, Way
    <3>3. Draft(g, g)
      BY <1>8 DEF Draft
    <3> QED
      BY <2>2, <3>1, <3>2, <3>3
  <2> QED
    BY <2>1, <2>2
<1>17. ASSUME at' = Steps
       PROVE  ~Idle(g, q)
  <2>1. at # Steps /\ at' = at + 1
    <3>1. CASE GoesOn
      BY <3>1, <1>8 DEF GoesOn, Advance
    <3>2. CASE GoesBack
      BY <3>2, <1>5, <1>8, <1>17 DEF GoesBack, SendBack
    <3> QED
      BY <3>1, <3>2
  <2>2. Draft(g, at)
    BY <1>5, <1>8, <1>17, <2>1 DEF Draft, Step
  <2> QED
    BY <1>10, <2>1, <2>2
<1> HIDE DEF p, g, n
<1> QED
  BY <1>3, <1>4, <1>5, <1>7, <1>9, <1>13, <1>14, <1>15, <1>16, <1>17 DEF q, g

\* The newest of some executions is the last of them.
LEMMA LastIsNewest ==
  ASSUME NEW N \in Nat, NEW K \in SUBSET (1 .. N), K # {}
  PROVE  Newest(K) \in K /\ \A j \in K : j <= Newest(K)
<1> DEFINE S == {N - k : k \in K}
<1>1. S \in SUBSET Nat /\ S # {}
  <2>1. \A k \in K : N - k \in Nat
    <3> TAKE k \in K
    <3>1. k \in Nat /\ k <= N
      OBVIOUS
    <3> QED
      BY <3>1
  <2> QED
    BY <2>1
<1>2. PICK m \in S : \A s \in S : m <= s
  <2> HIDE DEF S
  <2> QED
    BY <1>1, LeastNumber
<1>3. PICK n \in K : m = N - n
  BY <1>2
<1>4. \A j \in K : j <= n
  <2> TAKE j \in K
  <2>1. N - j \in S /\ j \in 1 .. N /\ n \in 1 .. N
    OBVIOUS
  <2>2. N - n <= N - j
    BY <1>2, <1>3, <2>1
  <2> QED
    BY <2>1, <2>2
<1>5. K \in SUBSET Nat
  OBVIOUS
<1>6. Newest(K) = n
  BY <1>4, <1>5, NewestIs
<1> QED
  BY <1>4, <1>6

\* A checkpoint that is rebuilt holds what the first step wrote: nothing was
\* decided yet.
LEMMA RebuiltStep ==
  ASSUME Known, StoredInv, flow.gate # 0, ComesUp, Rebuildable
  PROVE  /\ saved' /\ stored' = Completed /\ stored' # <<>>
         /\ UNCHANGED <<execs, current, crashes, decided>> /\ pc' = "up"
         /\ Books(flow.gate, execs, stored', decided', crashes)
         /\ Matches(execs, stored', kept'.outputs)
         /\ decided' = {} /\ Gates(Path(execs, stored')) = {}
         /\ current # Steps
<1> DEFINE r == Completed
<1>1. TypeOK /\ SaysInv
  BY DEF Known, WorkInv
<1>2. /\ status = "running" /\ ~saved /\ Attempts > 0 /\ Latest.state = "completed"
      /\ saved' /\ kept' = Rebuilt /\ stored' = r
      /\ UNCHANGED <<execs, current, crashes, decided>> /\ pc' = "up"
  BY DEF ComesUp, Restart, Rebuildable, Save
<1>3. current = 1 /\ \A k \in 1 .. Attempts : execs[k].step = 1
  BY <1>2 DEF Known, WorkInv, CheckpointInv
<1>4. Steps > 1 /\ Steps \in Nat
  BY <1>1, GateFacts
<1>5. /\ r \in Seq(1 .. Attempts)
      /\ Distinct(r)
      /\ \A n \in DOMAIN r : r[n] \in 1 .. Attempts /\ execs[r[n]].state = "completed"
      /\ \A k \in 1 .. Attempts : execs[k].state = "completed" => \E n \in DOMAIN r : r[n] = k
  BY <1>1, CompletedRecords
<1> HIDE DEF r
<1>6. \A n \in DOMAIN r : execs[r[n]].step = 1
  BY <1>3, <1>5
<1>7. Gates(Path(execs, r)) = {}
  BY <1>4, <1>6 DEF Gates, Path
<1>8. decided = {}
  <2>1. stored = <<>> /\ Books(flow.gate, execs, stored, decided, crashes)
    BY <1>2 DEF StoredInv, Open
  <2>2. Gates(Path(execs, stored)) = {}
    BY <2>1 DEF Gates, Path
  <2> QED
    BY <2>1, <2>2 DEF Books
<1>9. Attempts \in Nat /\ Attempts \in 1 .. Attempts /\ DOMAIN execs = 1 .. Attempts
  BY <1>1, <1>2, RowTypes
<1>10. r # <<>>
  <2>1. \E n \in DOMAIN r : r[n] = Attempts
    BY <1>2, <1>5, <1>9 DEF Latest
  <2> QED
    BY <2>1
<1>11. Books(flow.gate, execs, r, decided, crashes)
  <2>1. Bares(flow.gate, Path(execs, r)) = {}
    BY <1>7 DEF Bares
  <2>2. Cardinality({}) = 0 /\ 0 <= crashes
    BY <1>1, FS_EmptySet, BoundsAssumption DEF TypeOK
  <2> QED
    BY <1>5, <1>7, <1>8, <2>1, <2>2 DEF Books
<1>12. Matches(execs, r, Rebuilt.outputs)
  <2> SUFFICES ASSUME NEW i \in Step
               PROVE  Tells(execs, r, i, Newest(CompletedOf(i)))
    BY DEF Matches, Rebuilt
  <2>1. \A k : k \in CompletedOf(i) <=> k \in 1 .. Attempts /\ execs[k].step = i /\ execs[k].state = "completed"
    BY <1>9 DEF CompletedOf
  <2>2. \A n \in DOMAIN r : r[n] \in CompletedOf(i) <=> execs[r[n]].step = i
    BY <1>5, <2>1
  <2>3. \A k \in CompletedOf(i) : \E n \in DOMAIN r : r[n] = k
    BY <1>5, <2>1
  <2>4. CASE CompletedOf(i) = {}
    <3>1. Newest(CompletedOf(i)) = 0
      BY <2>4 DEF Newest
    <3> QED
      BY <2>2, <2>4, <3>1 DEF Tells
  <2>5. CASE CompletedOf(i) # {}
    <3>1. CompletedOf(i) \in SUBSET (1 .. Attempts)
      BY <2>1
    <3>2. Newest(CompletedOf(i)) \in CompletedOf(i) /\ \A j \in CompletedOf(i) : j <= Newest(CompletedOf(i))
      BY <1>9, <2>5, <3>1, LastIsNewest
    <3>3. PICK n \in DOMAIN r : r[n] = Newest(CompletedOf(i))
      BY <2>3, <3>2
    <3>4. execs[r[n]].step = i /\ execs[r[n]].reply # "empty"
      BY <1>1, <2>1, <3>2, <3>3 DEF SaysInv
    <3>5. \A m \in DOMAIN r : execs[r[m]].step = i => r[m] <= r[n]
      BY <2>2, <3>2, <3>3
    <3> QED
      BY <3>3, <3>4, <3>5 DEF Tells
  <2> QED
    BY <2>4, <2>5
<1>13. decided' = {} /\ current # Steps
  BY <1>2, <1>3, <1>4, <1>8
<1> QED
  BY <1>2, <1>7, <1>8, <1>10, <1>11, <1>12, <1>13 DEF r

\* What no other step changes: a run that still goes on, or may be told of, has
\* its records, decisions and checkpoint, and one without a checkpoint has none.
LEMMA OtherStored ==
  ASSUME Known, StoredInv, [TelemetryNext]_tvars, ~GoesOn, ~GoesBack, ~(ComesUp /\ Rebuildable)
  PROVE  /\ Open' => Open /\ UNCHANGED <<stored, kept, decided, saved>>
         /\ ~saved' => stored' = <<>> /\ kept' = Fresh
         /\ saved' => saved /\ stored' = stored
         /\ crashes \in Nat /\ crashes' \in Nat /\ crashes <= crashes'
<1>1. [Next]_vars /\ TypeOK /\ PhaseInv /\ EndedRunIsForgotten
  BY TelemetryRefines DEF Known, WorkInv
<1>2. crashes \in Nat /\ crashes' \in Nat /\ crashes <= crashes'
  <2>1. crashes \in Nat
    BY <1>1, BoundsAssumption DEF TypeOK
  <2>2. crashes' = crashes \/ crashes' = crashes + 1
    BY <1>1 DEF Next, Worker, Judge, vars, RunsOut, CheckStep, OpenStep, Answer, StepRaises,
       NoticesStop, Advance, SendBack, Spent, Accept, AcceptNothing, Undecided, Deliver,
       RequestStop, StopRun, Crash, Restart, Continue
  <2> QED
    BY <2>1, <2>2
<1>3. ~saved => stored = <<>> /\ kept = Fresh
  BY DEF StoredInv
<1>4. status \in {"cancelled", "completed"} => ~saved
  BY <1>1 DEF EndedRunIsForgotten
<1>5. pc # "ended" => status \in {"running", "cancelled"}
  BY <1>1 DEF PhaseInv
<1> SUFFICES /\ Open' => Open /\ UNCHANGED <<stored, kept, decided, saved>>
             /\ ~saved' => stored' = <<>> /\ kept' = Fresh
             /\ saved' => saved /\ stored' = stored
  BY <1>2
<1>6. CASE \/ Silent(CheckStep) \/ Silent(OpenStep) \/ Silent(Answer) \/ Silent(RequestStop)
           \/ UNCHANGED tvars
  <2>1. UNCHANGED <<status, saved, kept, stored, decided>>
    BY <1>6 DEF Silent, told, tvars, vars, db, CheckStep, OpenStep, Answer, RequestStop
  <2> QED
    BY <1>3, <2>1 DEF Open
<1>7. CASE Accepts \/ GoesDown \/ Resumes
  <2>1. UNCHANGED <<status, saved, kept, stored, decided>>
    BY <1>7 DEF Accepts, GoesDown, Resumes, db, Accept, Crash, Continue
  <2> QED
    BY <1>3, <2>1 DEF Open
<1>8. CASE Delivers
  <2>1. stored' = <<>> /\ ~saved' /\ kept' = Fresh /\ status' = "completed"
    BY <1>8 DEF Delivers, Deliver, Forget, Ends
  <2> QED
    BY <2>1 DEF Open
<1>9. CASE \/ Fails(RunsOut, "Flow ended without completion")
           \/ Fails(Spent, "Max flow iterations exceeded")
           \/ Fails(Undecided, UndecidedWhy)
           \/ Fails(StepRaises, "raised")
  <2>1. status' = "failed" /\ pc # "ended" /\ UNCHANGED <<saved, kept, stored, decided>>
    BY <1>9 DEF Fails, RunsOut, Spent, Undecided, Judging, StepRaises, Ends
  <2> QED
    BY <1>3, <1>4, <1>5, <2>1 DEF Open
<1>10. CASE Drops(AcceptNothing, "Flow finished without article content")
  <2>1. ~saved' /\ kept' = Fresh /\ status' = "failed" /\ stored' = <<>>
    BY <1>10 DEF Drops, AcceptNothing, Forget, Ends
  <2> QED
    BY <2>1 DEF Open
<1>11. CASE Drops(NoticesStop, error)
  <2>1. /\ pc # "ended" /\ status' = (IF status = "running" THEN "cancelled" ELSE status)
        /\ IF status = "running" THEN ~saved' /\ kept' = Fresh ELSE UNCHANGED <<saved, kept>>
        /\ stored' = IF saved' THEN stored ELSE <<>>
    BY <1>11 DEF Drops, NoticesStop, Forget, Ends
  <2> QED
    BY <1>3, <1>4, <1>5, <2>1 DEF Open
<1>12. CASE Drops(StopRun, error)
  <2>1. ~saved' /\ kept' = Fresh /\ status' = "cancelled" /\ stored' = <<>>
    BY <1>12 DEF Drops, StopRun, Forget
  <2> QED
    BY <2>1 DEF Open
<1>13. CASE ComesUp /\ ~Rebuildable
  <2>1. /\ status = "running" /\ UNCHANGED <<saved, kept, stored, decided>>
    BY <1>13 DEF ComesUp, Restart
  <2> QED
    BY <1>3, <2>1 DEF Open
<1> QED
  BY <1>6, <1>7, <1>8, <1>9, <1>10, <1>11, <1>12, <1>13 DEF TelemetryNext, TelemetryWorker

\* Every action keeps what is said of the checkpoint.
LEMMA StoredStep ==
  ASSUME NoShortcut, Known, StoredInv, MemoryInv, flow.gate # 0, [TelemetryNext]_tvars
  PROVE  StoredInv'
<1>1. [Next]_vars /\ TypeOK /\ TelemetryTypeOK /\ PhaseInv
  BY TelemetryRefines DEF Known, WorkInv
<1>2. flow' = flow
  BY <1>1, FlowStays
<1>3. CASE GoesOn \/ GoesBack
  <2>1. UNCHANGED <<execs, crashes>>
    BY <1>3 DEF GoesOn, GoesBack, Advance, SendBack
  <2> DEFINE q == Path(execs, stored')
  <2>2. /\ saved' /\ stored' # <<>>
        /\ Books(flow.gate, execs, stored', decided', crashes)
        /\ Matches(execs, stored', kept'.outputs)
        /\ \A k \in decided' : execs[k].reply = "reject"
        /\ Gates(q) # {} /\ Idle(flow.gate, q) => Len(stored') \in Gates(q)
    BY <1>3, RecordedStep
  <2>3. Way' = q
    BY <2>1 DEF Way
  <2> HIDE DEF q
  <2> QED
    BY <1>2, <2>1, <2>2, <2>3 DEF StoredInv
<1>4. CASE ComesUp /\ Rebuildable
  <2> DEFINE q == Path(execs, stored')
  <2>1. /\ saved' /\ stored' # <<>> /\ UNCHANGED <<execs, crashes>> /\ decided' = {}
        /\ Books(flow.gate, execs, stored', decided', crashes)
        /\ Matches(execs, stored', kept'.outputs)
        /\ Gates(q) = {}
    BY <1>4, RebuiltStep
  <2>2. Way' = q
    BY <2>1 DEF Way
  <2> HIDE DEF q
  <2> QED
    BY <1>2, <2>1, <2>2 DEF StoredInv
<1>5. CASE ~GoesOn /\ ~GoesBack /\ ~(ComesUp /\ Rebuildable)
  <2>1. /\ Open' => Open /\ UNCHANGED <<stored, kept, decided, saved>>
        /\ ~saved' => stored' = <<>> /\ kept' = Fresh
        /\ saved' => saved /\ stored' = stored
        /\ crashes \in Nat /\ crashes' \in Nat /\ crashes <= crashes'
    BY <1>5, OtherStored
  <2>2. saved' => stored' # <<>>
    BY <2>1 DEF StoredInv
  <2> SUFFICES ASSUME Open'
               PROVE  /\ Books(flow.gate, execs', stored, decided, crashes')
                      /\ Matches(execs', stored, kept.outputs)
                      /\ \A k \in decided : execs'[k].reply = "reject"
                      /\ Way' = Way
    BY <1>2, <2>1, <2>2 DEF StoredInv
  <2>3. /\ Open /\ stored' = stored
        /\ Books(flow.gate, execs, stored, decided, crashes)
        /\ Matches(execs, stored, kept.outputs)
        /\ \A k \in decided : execs[k].reply = "reject"
    BY <2>1 DEF StoredInv
  <2>4. Answer => \A i \in DOMAIN stored : stored[i] < Attempts
    <3>1. Answer => pc = "step" /\ status' = status
      BY DEF Answer
    <3>2. pc = "step" => status # "failed"
      BY <1>1 DEF PhaseInv
    <3>3. Answer => pc = "step" /\ status = "running"
      BY <2>3, <3>1, <3>2 DEF Open
    <3> QED
      BY <3>3 DEF MemoryInv
  <2>5. /\ stored \in Seq(Nat) /\ Path(execs', stored) = Path(execs, stored)
        /\ Matches(execs', stored, kept.outputs)
    <3>1. stored \in Seq(1 .. Attempts)
      BY <1>1 DEF TelemetryTypeOK, Records
    <3> QED
      BY <1>1, <2>3, <2>4, <3>1, RecordsTold
  <2>6. Books(flow.gate, execs', stored, decided, crashes')
    BY <2>1, <2>3, <2>5, BooksStay
  <2>7. \A k \in decided : execs'[k].reply = "reject"
    <3> TAKE k \in decided
    <3>1. k \in 1 .. Attempts
      BY <1>1 DEF TelemetryTypeOK
    <3>2. PICK i \in DOMAIN stored : k = stored[i]
      BY <2>3 DEF Books, Gates, Path
    <3>3. Answer => k < Attempts
      BY <2>4, <3>2
    <3>4. ~Answer \/ k # Attempts
      BY <1>1, <3>1, <3>3, RowTypes
    <3> QED
      BY <1>1, <2>3, <3>1, <3>4, RowsTold
  <2>8. Way' = Way
    BY <2>3, <2>5 DEF Way
  <2> QED
    BY <2>5, <2>6, <2>7, <2>8
<1> QED
  BY <1>3, <1>4, <1>5

\* Every action keeps what is said of the memory of a worker.
LEMMA MemoryStep ==
  ASSUME NoShortcut, Known, StoredInv, MemoryInv, FinalInv, flow.gate # 0, [TelemetryNext]_tvars
  PROVE  MemoryInv'
<1>1. [Next]_vars /\ TypeOK /\ TelemetryTypeOK /\ WorkInv
  BY TelemetryRefines DEF Known, WorkInv
<1>2. flow' = flow
  BY <1>1, FlowStays
<1>3. /\ Steps \in Nat /\ Steps > 1 /\ flow.gate \in 1 .. Steps - 1
  BY <1>1, GateFacts
<1>4. CASE GoesOn \/ GoesBack
  <2>1. UNCHANGED <<execs, crashes, current>> /\ pc' \in {"ready", "spent"}
    BY <1>4 DEF GoesOn, GoesBack, Advance, SendBack
  <2> DEFINE q == Path(execs, stored')
  <2>2. /\ records' = stored' /\ work'.outputs = kept'.outputs
        /\ Gates(q) # {} /\ Idle(flow.gate, q) => at' = flow.gate /\ current = Steps
        /\ at' = Steps => ~Idle(flow.gate, q)
    BY <1>4, RecordedStep
  <2>3. Way' = q
    BY <2>1 DEF Way
  <2> HIDE DEF q
  <2> QED
    BY <1>2, <2>1, <2>2, <2>3 DEF MemoryInv, Homeward, Reserve
<1>5. CASE ComesUp /\ Rebuildable
  <2> DEFINE q == Path(execs, stored')
  <2>1. /\ UNCHANGED <<execs, crashes, current>> /\ pc' = "up"
        /\ Gates(q) = {} /\ current # Steps
    BY <1>5, RebuiltStep
  <2>2. Way' = q
    BY <2>1 DEF Way
  <2> HIDE DEF q
  <2> QED
    BY <1>2, <2>1, <2>2 DEF MemoryInv, Homeward, Reserve
<1>6. CASE ~GoesOn /\ ~GoesBack /\ ~(ComesUp /\ Rebuildable) /\ status' = "running"
  <2>1. /\ Open /\ stored' = stored /\ kept' = kept /\ saved' = saved
        /\ crashes \in Nat /\ crashes' \in Nat /\ crashes <= crashes'
        /\ ~saved => kept = Fresh
    BY <1>6, OtherStored DEF Open, StoredInv
  <2>2. stored \in Seq(1 .. Attempts) /\ stored \in Seq(Nat) /\ Way' = Way
    <3>1. stored \in Seq(1 .. Attempts)
      BY <1>1 DEF TelemetryTypeOK, Records
    <3> QED
      BY <1>1, <2>1, <3>1, RecordsTold DEF Way
  <2>3. Cardinality(Bares(flow.gate, Way)) \in Nat /\ Cardinality(Bares(flow.gate, Way)) <= crashes
    BY <2>1, <2>2, BaresFinite DEF StoredInv, Books, Way
  <2>4. \A i \in DOMAIN stored : stored[i] <= Attempts
    BY <1>1, <2>2, RowTypes
  <2>5. CASE status # "running"
    <3>1. pc = "ended"
      BY <1>1, <2>1, <2>5 DEF Open, WorkInv, PhaseInv
    <3>2. status' = status
      BY <1>1, <3>1 DEF Next, Worker, Judge, vars, db, RunsOut, CheckStep, OpenStep, Answer, StepRaises,
         NoticesStop, Judging, Advance, SendBack, Spent, Accept, AcceptNothing, Undecided, Deliver,
         RequestStop, StopRun, Awaiting, Crash, Restart, Continue
    <3> QED
      BY <1>6, <2>5, <3>2
  <2> DEFINE Memory == pc \in {"ready", "emit", "step", "answered", "spent"} =>
                         records = stored /\ work.outputs = kept.outputs
             Later  == pc \in {"step", "answered"} => \A i \in DOMAIN stored : stored[i] < Attempts
             Worked == pc \in {"ready", "emit", "step", "answered"} => Homeward(at) /\ Reserve(at)
             Idling == pc \in {"down", "up"} => Reserve(current)
  <2>6. status = "running" => Memory /\ Later /\ Homeward(current) /\ Worked /\ Idling
    BY DEF MemoryInv
  <2>7. Memory' /\ Later' /\ Homeward(current)' /\ Worked' /\ Idling' => MemoryInv'
    BY DEF MemoryInv
  <2>8. CASE status = "running" /\ (UNCHANGED tvars \/ Silent(RequestStop))
    <3>1. UNCHANGED <<pc, records, work, current, at, crashes, execs>>
      BY <2>8 DEF tvars, vars, memory, told, db, Silent, RequestStop
    <3>2. Attempts' = Attempts
      BY <3>1 DEF Attempts
    <3>3. Memory' /\ Later'
      BY <2>1, <2>6, <2>8, <3>1, <3>2
    <3>4. Homeward(current)' /\ Worked' /\ Idling'
      BY <2>2, <1>2, <2>6, <2>8, <3>1 DEF Homeward, Reserve
    <3> QED
      BY <2>7, <3>3, <3>4
  <2>9. CASE status = "running" /\ Silent(CheckStep)
    <3>1. /\ pc = "ready" /\ pc' = "emit" /\ current' = at
          /\ UNCHANGED <<records, work, at, crashes>>
      BY <2>9 DEF told, Silent, CheckStep
    <3>2. Memory' /\ Later'
      BY <2>1, <2>6, <2>9, <3>1
    <3>3. Homeward(current)' /\ Worked' /\ Idling'
      BY <2>2, <1>2, <2>6, <2>9, <3>1 DEF Homeward, Reserve
    <3> QED
      BY <2>7, <3>2, <3>3
  <2>10. CASE status = "running" /\ Silent(OpenStep)
    <3>1. /\ pc = "emit" /\ pc' = "step"
          /\ UNCHANGED <<records, work, at, crashes, current>>
      BY <2>10 DEF told, Silent, OpenStep
    <3>2. Attempts' = Attempts + 1 /\ Attempts \in Nat
      BY <1>1, <2>10, OpenedRow, RowTypes DEF Silent
    <3>3. Memory' /\ Later'
      BY <2>1, <2>2, <2>4, <2>6, <2>10, <3>1, <3>2
    <3>4. Homeward(current)' /\ Worked' /\ Idling'
      BY <2>2, <1>2, <2>6, <2>10, <3>1 DEF Homeward, Reserve
    <3> QED
      BY <2>7, <3>3, <3>4
  <2>11. CASE status = "running" /\ Silent(Answer)
    <3>1. /\ pc = "step" /\ pc' = "answered"
          /\ UNCHANGED <<records, work, at, crashes, current>>
      BY <2>11 DEF told, Silent, Answer
    <3>2. Attempts' = Attempts
      BY <1>1, <2>11, AnsweredRow DEF Silent
    <3>3. Memory' /\ Later'
      BY <2>1, <2>2, <2>6, <2>11, <3>1, <3>2
    <3>4. Homeward(current)' /\ Worked' /\ Idling'
      BY <2>2, <1>2, <2>6, <2>11, <3>1 DEF Homeward, Reserve
    <3> QED
      BY <2>7, <3>3, <3>4
  <2>12. CASE status = "running" /\ Accepts
    <3>1. pc' = "headline" /\ current' = current
      BY <2>12 DEF Accepts, Accept, db
    <3>2. Homeward(current)'
      BY <2>2, <1>2, <2>6, <2>12, <3>1 DEF Homeward
    <3> QED
      BY <2>7, <3>1, <3>2
  <2>13. CASE status = "running" /\ GoesDown
    <3>1. pc' = "down" /\ current' = current /\ crashes' = crashes + 1
      BY <2>13 DEF GoesDown, Crash, db
    <3>2. Homeward(current)'
      BY <2>2, <1>2, <2>6, <2>13, <3>1 DEF Homeward
    <3>3. Reserve(current)'
      BY <1>2, <2>1, <2>2, <2>3, <3>1 DEF Reserve
    <3> QED
      BY <2>7, <3>1, <3>2, <3>3
  <2>14. CASE status = "running" /\ ComesUp
    <3>1. pc = "down" /\ pc' = "up" /\ current' = current /\ crashes' = crashes
      BY <1>6, <2>14 DEF ComesUp, Restart, Ends
    <3>2. Homeward(current)' /\ Reserve(current)'
      BY <2>2, <1>2, <2>6, <2>14, <3>1 DEF Homeward, Reserve
    <3> QED
      BY <2>7, <3>1, <3>2
  <2>15. CASE status = "running" /\ Resumes
    <3>1. /\ pc = "up" /\ pc' = "ready" /\ current' = current /\ crashes' = crashes
          /\ at' = current /\ records' = stored
      BY <2>15 DEF Resumes, Continue, db
    <3>2. work'.outputs = kept.outputs
      <4>1. CASE saved
        BY <1>1, <2>15, <4>1 DEF Resumes, Continue, TypeOK, WorkRecord
      <4>2. CASE ~saved
        BY <2>1, <2>15, <4>2 DEF Resumes, Continue, Fresh
      <4> QED
        BY <4>1, <4>2
    <3>3. Homeward(current)' /\ Worked'
      BY <2>2, <1>2, <2>6, <2>15, <3>1 DEF Homeward, Reserve
    <3> QED
      BY <2>1, <2>7, <3>1, <3>2, <3>3
  <2>16. /\ ~Delivers /\ ~Fails(RunsOut, "Flow ended without completion")
         /\ ~Fails(Spent, "Max flow iterations exceeded")
         /\ ~Fails(Undecided, UndecidedWhy) /\ ~Fails(StepRaises, "raised")
         /\ ~Drops(AcceptNothing, "Flow finished without article content")
         /\ ~Drops(NoticesStop, error) /\ ~Drops(StopRun, error)
    BY <1>6 DEF Delivers, Fails, Drops, Deliver, RunsOut, Spent, Undecided, StepRaises,
       AcceptNothing, NoticesStop, StopRun, Ends
  <2> QED
    BY <1>6, <2>5, <2>8, <2>9, <2>10, <2>11, <2>12, <2>13, <2>14, <2>15, <2>16
       DEF TelemetryNext, TelemetryWorker
<1>7. CASE status' # "running"
  BY <1>7 DEF MemoryInv
<1> QED
  BY <1>4, <1>5, <1>6, <1>7

\* Every action keeps what is said of a run that is accepted or complete.
LEMMA FinalStep ==
  ASSUME Known, StoredInv, MemoryInv, FinalInv, flow.gate # 0, [TelemetryNext]_tvars
  PROVE  FinalInv'
<1>1. [Next]_vars /\ TypeOK /\ TelemetryTypeOK /\ PhaseInv /\ LatestInv /\ HeadInv
  BY TelemetryRefines DEF Known, WorkInv
<1>2. flow' = flow
  BY <1>1, FlowStays
<1>3. /\ Attempts \in Nat /\ crashes \in Nat
      /\ records \in Seq(1 .. Attempts) /\ stored \in Seq(1 .. Attempts)
  BY <1>1, RowTypes, BoundsAssumption DEF TypeOK, TelemetryTypeOK, Records
<1>4. CASE Accepts
  <2>1. /\ pc = "answered" /\ status = "running" /\ at = Steps /\ Latest.step = Steps /\ Attempts > 0
        /\ current = Steps /\ pc' = "headline" /\ records' = Append(records, Attempts)
        /\ UNCHANGED <<db, crashes, manifest, firstPass, decided>>
    BY <1>1, <1>4 DEF Accepts, Accept, Judging, Stopped, Recorded, LatestInv, Known, WorkInv, RoundsInv
  <2>2. /\ records = stored /\ \A i \in DOMAIN stored : stored[i] < Attempts
        /\ Reserve(Steps) /\ Books(flow.gate, execs, stored, decided, crashes)
    BY <2>1 DEF MemoryInv, StoredInv, Open
  <2>3. stored \in Seq(Nat)
    BY <1>1, <1>3, RecordsTold
  <2>4. Books(flow.gate, execs, Append(stored, Attempts), decided \cup {Attempts}, crashes)
    <3>1. execs[Attempts].step = Steps
      BY <2>1 DEF Latest
    <3>2. \A i \in DOMAIN stored : stored[i] # Attempts
      BY <1>3, <2>2, <2>3
    <3>3. Books(flow.gate, execs, Append(stored, Attempts),
                decided \cup (IF execs[Attempts].step = Steps THEN {Attempts} ELSE {}), crashes)
      BY <1>3, <2>2, <2>3, <3>2, BooksLonger DEF Reserve, Way
    <3> QED
      BY <3>1, <3>3
  <2>5. /\ Append(stored, Attempts) # <<>>
        /\ Append(stored, Attempts)[Len(Append(stored, Attempts))] = Attempts
    BY <2>3
  <2>6. UNCHANGED <<execs, status, current, article>> /\ Attempts' = Attempts
    BY <2>1 DEF db, Attempts
  <2>7. Final(records, decided \cup {Attempts})' /\ current' = Steps
    BY <1>2, <2>1, <2>2, <2>4, <2>5, <2>6 DEF Final
  <2> QED
    BY <2>1, <2>6, <2>7 DEF FinalInv
<1>5. CASE Delivers
  <2>1. /\ pc = "headline" /\ status' = "completed" /\ pc' = "ended" /\ UNCHANGED <<execs, crashes>>
        /\ manifest' = records
        /\ firstPass' = IF FirstPassAccept(records) THEN "yes" ELSE "no"
        /\ decided' = decided \cup {k \in {Attempts} : IsGate(k)}
    BY <1>5 DEF Delivers, Deliver, Ends
  <2>2. IsGate(Attempts) /\ Latest.reply = "accept" /\ Latest.step = Steps
    BY <1>1, <2>1 DEF HeadInv, IsGate, Latest
  <2>3. decided' = decided \cup {Attempts} /\ Attempts' = Attempts /\ Latest' = Latest
    BY <2>1, <2>2 DEF Attempts, Latest
  <2>4. Final(records, decided \cup {Attempts})
    BY <2>1 DEF FinalInv
  <2>5. Final(manifest, decided)'
    BY <1>2, <2>1, <2>3, <2>4 DEF Final
  <2>6. FirstPassAccept(manifest)' <=> FirstPassAccept(records)
    BY <1>2, <2>1 DEF FirstPassAccept, GatesAt, IsGate
  <2>7. firstPass' = IF FirstPassAccept(manifest)' THEN "yes" ELSE "no"
    BY <2>1, <2>6
  <2> QED
    BY <2>1, <2>2, <2>3, <2>5, <2>7 DEF FinalInv
<1>6. CASE ~Accepts /\ ~Delivers
  <2>1. /\ UNCHANGED <<manifest, firstPass, article>>
        /\ status' = "completed" => status = "completed"
        /\ status = "completed" => status' = "completed"
        /\ pc' = "headline" => pc = "headline" /\ UNCHANGED <<records, current, decided, crashes>>
    <3>1. CASE GoesOn \/ GoesBack
      BY <3>1 DEF GoesOn, GoesBack, Advance, SendBack
    <3>2. CASE \/ Silent(CheckStep) \/ Silent(OpenStep) \/ Silent(Answer) \/ Silent(RequestStop)
               \/ UNCHANGED tvars
      BY <3>2 DEF Silent, told, tvars, vars, db, memory, CheckStep, OpenStep, Answer, RequestStop
    <3>3. CASE \/ Fails(RunsOut, "Flow ended without completion")
               \/ Fails(Spent, "Max flow iterations exceeded")
               \/ Fails(Undecided, UndecidedWhy)
               \/ Fails(StepRaises, "raised")
      BY <1>1, <3>3 DEF Fails, RunsOut, Spent, Undecided, Judging, StepRaises, Ends, PhaseInv
    <3>4. CASE \/ Drops(AcceptNothing, "Flow finished without article content")
               \/ Drops(NoticesStop, error)
      BY <1>1, <3>4 DEF Drops, AcceptNothing, Judging, NoticesStop, Ends, PhaseInv
    <3>5. CASE Drops(StopRun, error)
      BY <3>5 DEF Drops, StopRun, Awaiting
    <3>6. CASE GoesDown \/ Resumes
      BY <3>6 DEF GoesDown, Resumes, Crash, Continue, db
    <3>7. CASE ComesUp
      BY <3>7 DEF ComesUp, Restart, Ends
    <3> QED
      BY <1>6, <3>1, <3>2, <3>3, <3>4, <3>5, <3>6, <3>7 DEF TelemetryNext, TelemetryWorker
  <2>2. ASSUME pc' = "headline"
        PROVE  Final(records, decided \cup {Attempts})' /\ current' = Steps
    <3>1. pc = "headline" /\ UNCHANGED <<records, current, decided, crashes>>
      BY <2>1, <2>2
    <3>2. Final(records, decided \cup {Attempts}) /\ current = Steps
      BY <3>1 DEF FinalInv
    <3>3. ~OpenStep /\ ~Answer
      BY <3>1 DEF OpenStep, Answer
    <3>4. Attempts' = Attempts
      BY <1>1, <3>3, OtherRows
    <3>5. records \in Seq(Nat) /\ Path(execs', records) = Path(execs, records)
      BY <1>1, <1>3, RecordsTold
    <3>6. Books(flow.gate, execs', records, decided \cup {Attempts}, crashes)
      BY <1>3, <3>2, <3>5, BooksStay DEF Final
    <3> QED
      BY <1>2, <3>1, <3>2, <3>4, <3>6 DEF Final
  <2>3. ASSUME status' = "completed"
        PROVE  /\ Final(manifest, decided)'
               /\ Latest'.reply = "accept" /\ Latest'.step = Steps
               /\ firstPass' = IF FirstPassAccept(manifest)' THEN "yes" ELSE "no"
    <3>1. status = "completed" /\ pc = "ended"
      BY <1>1, <2>1, <2>3 DEF PhaseInv
    <3>2. UNCHANGED tvars
      BY <3>1 DEF TelemetryNext, TelemetryWorker, Silent, GoesOn, GoesBack, Accepts, Delivers,
         Fails, Drops, GoesDown, ComesUp, Resumes, RunsOut, CheckStep, OpenStep, Answer, StepRaises,
         NoticesStop, Judging, Advance, SendBack, Spent, Accept, AcceptNothing, Undecided, Deliver,
         RequestStop, StopRun, Awaiting, Crash, Restart, Continue
    <3>3. UNCHANGED <<flow, execs, crashes, manifest, firstPass, decided>>
      BY <3>2 DEF tvars, vars, db, told
    <3>4. Attempts' = Attempts /\ Latest' = Latest
      BY <3>3 DEF Attempts, Latest
    <3>5. FirstPassAccept(manifest)' = FirstPassAccept(manifest)
      BY <3>3 DEF FirstPassAccept, GatesAt, IsGate
    <3> QED
      BY <3>1, <3>3, <3>4, <3>5 DEF FinalInv, Final
  <2> QED
    BY <2>1, <2>2, <2>3 DEF FinalInv
<1> QED
  BY <1>4, <1>5, <1>6

\* So the records, the memory and the end of a run with a gate are as said.
TellInv == flow.gate # 0 => StoredInv /\ MemoryInv /\ FinalInv

\* A run starts without records.
LEMMA TellStart == TelemetryInit => TellInv
<1> SUFFICES ASSUME TelemetryInit, flow.gate # 0
             PROVE  StoredInv /\ MemoryInv /\ FinalInv
  BY DEF TellInv
<1>1. /\ Init /\ records = <<>> /\ stored = <<>> /\ manifest = <<>> /\ firstPass = "unset"
      /\ decided = {}
  BY DEF TelemetryInit
<1>2. /\ status = "running" /\ pc = "ready" /\ ~saved /\ kept = Fresh /\ work = Fresh
      /\ at = 1 /\ current = 1 /\ crashes = 0 /\ article = 0
  BY <1>1 DEF Init
<1>3. Steps > 1 /\ Steps \in Nat
  BY <1>1, TypeInit, GateFacts
<1>4. Gates(Way) = {} /\ Bares(flow.gate, Way) = {}
  BY <1>1 DEF Gates, Bares, Way, Path
<1>5. Books(flow.gate, execs, stored, decided, crashes)
  <2>1. Cardinality({}) = 0
    BY FS_EmptySet
  <2>2. Distinct(stored)
    BY <1>1 DEF Distinct
  <2>3. /\ Gates(Path(execs, stored)) = {} /\ Bares(flow.gate, Path(execs, stored)) = {}
        /\ crashes = 0 /\ decided = {}
    BY <1>1, <1>2, <1>4 DEF Way
  <2> QED
    BY <2>1, <2>2, <2>3 DEF Books
<1>6. Matches(execs, stored, kept.outputs)
  BY <1>1, <1>2 DEF Matches, Tells, Fresh
<1>7. StoredInv
  BY <1>1, <1>2, <1>4, <1>5, <1>6 DEF StoredInv
<1>8. MemoryInv
  BY <1>1, <1>2, <1>3, <1>4 DEF MemoryInv, Homeward, Reserve
<1>9. FinalInv
  BY <1>1, <1>2 DEF FinalInv
<1> QED
  BY <1>7, <1>8, <1>9

\* ... and every action keeps it.
LEMMA TellStep == NoShortcut /\ Known /\ TellInv /\ [TelemetryNext]_tvars => TellInv'
<1> SUFFICES ASSUME NoShortcut, Known, TellInv, [TelemetryNext]_tvars, flow'.gate # 0
             PROVE  StoredInv' /\ MemoryInv' /\ FinalInv'
  BY DEF TellInv
<1>1. flow' = flow
  BY TelemetryRefines, FlowStays
<1>2. StoredInv /\ MemoryInv /\ FinalInv /\ flow.gate # 0
  BY <1>1 DEF TellInv
<1> QED
  BY <1>2, StoredStep, MemoryStep, FinalStep

\* What is known of a run is always known.
LEMMA KnownAlways == TelemetrySpec => []Known
<1>1. WorkInv /\ LatestInv /\ HeadInv /\ SaysInv /\ EndedRunIsForgotten /\ TelemetryTypeOK => Known
  BY DEF Known
<1> QED
  BY <1>1, TelemetryRuns, WorkAlways, LatestAlways, HeadAlways, SaysAlways, EndedIsForgotten,
     TelemetryTypeCorrect, PTL

\* In every state of a run, where no first step leads to the gate.
LEMMA TellAlways == NoShortcut /\ TelemetrySpec => []TellInv
<1> SUFFICES ASSUME NoShortcut
             PROVE  TelemetrySpec => []TellInv
  OBVIOUS
<1>1. Known /\ TellInv /\ [TelemetryNext]_tvars => TellInv'
  BY TellStep
<1> QED
  BY <1>1, TellStart, KnownAlways, PTL DEF TelemetrySpec

\* The values of a function on a finite set are no more than its arguments, and
\* as many when no two are the same.
LEMMA ImageSize ==
  ASSUME NEW S, NEW T, NEW f \in [S -> T], IsFiniteSet(S), T = {f[x] : x \in S}
  PROVE  /\ IsFiniteSet(T)
         /\ Cardinality(T) <= Cardinality(S)
         /\ (\A x, y \in S : f[x] = f[y] => x = y) => Cardinality(T) = Cardinality(S)
<1>1. f \in Surjection(S, T)
  BY DEF Surjection
<1>2. (\A x, y \in S : f[x] = f[y] => x = y) => f \in Injection(S, T)
  BY DEF Injection, IsInjective
<1> QED
  BY <1>1, <1>2, FS_Surjection

\* The iterations that records are grouped into: a review each for all that the
\* gate decided, and none without a draft but those that are counted.
LEMMA GroupsOf ==
  ASSUME TypeOK, flow.gate # 0, decided # {}, NEW c \in Nat,
         NEW r \in Seq(1 .. Attempts), Books(flow.gate, execs, r, decided, c),
         Idle(flow.gate, Path(execs, r)) => Len(r) \in Gates(Path(execs, r))
  PROVE  LET groups  == Iterations(r)
             reviews == {g \in groups : g.review # 0}
         IN /\ GatesAt(r) = Gates(Path(execs, r))
            /\ Cardinality(GatesAt(r)) = Cardinality(decided)
            /\ {g.review : g \in reviews} = decided
            /\ reviews # {}
            /\ Cardinality(reviews) = Cardinality(decided)
            /\ Cardinality({g \in groups : g.drafts = {}}) <= c
<1> DEFINE p       == Path(execs, r)
           G       == Gates(p)
           groups  == Iterations(r)
           reviews == {g \in groups : g.review # 0}
           bare    == {g \in groups : g.drafts = {}}
           B       == Bares(flow.gate, p)
           n       == Len(r)
<1>1. /\ n \in Nat /\ DOMAIN r = 1 .. n
      /\ \A i \in 1 .. n : r[i] \in Nat \ {0}
  <2>1. Attempts \in Nat
    BY RowTypes
  <2> QED
    BY <2>1
<1>2. \A i \in 1 .. n : IsGate(r[i]) <=> i \in G
  BY <1>1 DEF IsGate, Gates, Path
<1>3. GatesAt(r) = G /\ G \subseteq 1 .. n
  BY <1>1, <1>2 DEF GatesAt, Gates, Path
<1>4. IsFiniteSet(G) /\ IsFiniteSet(B) /\ B \subseteq G
  <2>1. IsFiniteSet(1 .. n)
    BY <1>1, FS_Interval
  <2>2. B \subseteq G
    BY DEF Bares
  <2> QED
    BY <1>3, <2>1, <2>2, FS_Subset
<1>5. decided = {r[i] : i \in G} /\ Distinct(r) /\ Cardinality(B) <= c
  BY DEF Books
<1>6. Cardinality(GatesAt(r)) = Cardinality(decided)
  <2> DEFINE f == [i \in G |-> r[i]]
  <2>1. f \in [G -> decided] /\ decided = {f[i] : i \in G}
    BY <1>5
  <2>2. \A i, j \in G : f[i] = f[j] => i = j
    BY <1>1, <1>3, <1>5 DEF Distinct
  <2> HIDE DEF f, G
  <2> QED
    BY <1>3, <1>4, <2>1, <2>2, ImageSize
<1>7. \A i \in 1 .. n : Group(r, i).review = (IF i \in G THEN r[i] ELSE 0)
  BY <1>2 DEF Group
<1>8. /\ GroupEnds(r) = G \cup (IF n = 0 THEN {} ELSE {n})
      /\ GroupEnds(r) \subseteq 1 .. n
  BY <1>1, <1>3 DEF GroupEnds
<1>9. reviews = {Group(r, i) : i \in G}
  <2>1. ASSUME NEW g \in reviews
        PROVE  \E i \in G : g = Group(r, i)
    <3>1. PICK i \in GroupEnds(r) : g = Group(r, i)
      BY DEF Iterations
    <3> QED
      BY <1>7, <1>8, <3>1
  <2>2. ASSUME NEW i \in G
        PROVE  Group(r, i) \in reviews
    <3>1. Group(r, i) \in groups
      BY <1>8 DEF Iterations
    <3>2. Group(r, i).review # 0
      BY <1>1, <1>3, <1>7
    <3> QED
      BY <3>1, <3>2
  <2> HIDE DEF reviews, G
  <2> QED
    BY <2>1, <2>2
<1>10. {g.review : g \in reviews} = decided
  <2>1. \A i \in G : Group(r, i).review = r[i]
    BY <1>3, <1>7
  <2> HIDE DEF reviews, G
  <2> QED
    BY <1>5, <1>9, <2>1
<1>11. reviews # {}
  <2> HIDE DEF reviews
  <2> QED
    BY <1>10
<1>12. Cardinality(reviews) = Cardinality(decided)
  <2> DEFINE f == [i \in G |-> Group(r, i)]
  <2>1. f \in [G -> reviews] /\ reviews = {f[i] : i \in G}
    <3> HIDE DEF reviews, G
    <3> QED
      BY <1>9
  <2>2. \A i, j \in G : f[i] = f[j] => i = j
    <3>1. \A i \in G : f[i].review = r[i]
      BY <1>3, <1>7
    <3> QED
      BY <1>1, <1>3, <1>5, <3>1 DEF Distinct
  <2> HIDE DEF f, G, reviews
  <2>3. Cardinality(reviews) = Cardinality(G)
    BY <1>4, <2>1, <2>2, ImageSize
  <2> QED
    BY <1>3, <1>6, <2>3
<1>13. /\ flow.gate \in Nat /\ Steps \in Nat
       /\ \A j \in 1 .. n : Draft(flow.gate, p[j]) => ~IsGate(r[j]) /\ IsProducer(r[j])
  <2>1. flow.gate \in 1 .. Steps - 1 /\ Steps \in Nat
    BY GateFacts
  <2>2. \A j \in 1 .. n : p[j] = execs[r[j]].step
    BY <1>1 DEF Path
  <2> QED
    BY <2>1, <2>2 DEF Draft, IsGate, IsProducer
<1>14. ASSUME NEW i \in 1 .. n, Group(r, i).drafts = {}, NEW j \in 1 .. i,
              \A b \in G : b < i => b < j
       PROVE  ~Draft(flow.gate, p[j])
  <2>1. {r[k] : k \in {k \in 1 .. i : (\A b \in {m \in GatesAt(r) : m < i} : b < k) /\ ~IsGate(r[k]) /\ IsProducer(r[k])}} = {}
    BY <1>14 DEF Group
  <2>2. ~(~IsGate(r[j]) /\ IsProducer(r[j]))
    BY <1>3, <1>14, <2>1
  <2>3. j \in 1 .. n
    BY <1>1
  <2> QED
    BY <1>13, <2>2, <2>3
<1>15. bare \subseteq {Group(r, i) : i \in B}
  <2> SUFFICES ASSUME NEW g \in bare
               PROVE  \E i \in B : g = Group(r, i)
    OBVIOUS
  <2>1. PICK i \in GroupEnds(r) : g = Group(r, i)
    BY DEF Iterations
  <2>2. i \in 1 .. n /\ Group(r, i).drafts = {}
    BY <1>8, <2>1
  <2>3. CASE i \in G
    <3>1. \A j \in 1 .. i - 1 : j \in 1 .. i
      BY <2>2
    <3>2. \A j \in 1 .. i - 1 : (\A b \in G : b < i => b < j) => ~Draft(flow.gate, p[j])
      BY <1>14, <2>2, <3>1
    <3> QED
      BY <2>1, <2>3, <3>2 DEF Bares
  <2>4. CASE i \notin G
    <3>1. i = n
      BY <1>8, <2>4
    <3>2. Idle(flow.gate, p)
      <4>1. \A j \in 1 .. n : (\A b \in G : b < j) => ~Draft(flow.gate, p[j])
        BY <1>14, <2>2, <3>1
      <4>2. DOMAIN p = 1 .. n
        BY <1>1 DEF Path
      <4> HIDE DEF p
      <4> QED
        BY <4>1, <4>2 DEF Idle
    <3> QED
      BY <2>4, <3>1, <3>2
  <2> QED
    BY <2>3, <2>4
<1>16. Cardinality(bare) <= c
  <2> DEFINE f == [i \in B |-> Group(r, i)]
             T == {f[i] : i \in B}
  <2>1. f \in [B -> T]
    OBVIOUS
  <2>2. bare \subseteq T
    BY <1>15
  <2> HIDE DEF f, bare, B
  <2>3. IsFiniteSet(T) /\ Cardinality(T) <= Cardinality(B)
    BY <1>4, <2>1, ImageSize
  <2> HIDE DEF T
  <2>4. IsFiniteSet(bare) /\ Cardinality(bare) <= Cardinality(T)
    BY <2>2, <2>3, FS_Subset
  <2>5. Cardinality(bare) \in Nat /\ Cardinality(T) \in Nat /\ Cardinality(B) \in Nat
    BY <1>4, <2>3, <2>4, FS_CardinalityType
  <2> QED
    BY <1>5, <2>3, <2>4, <2>5
<1> QED
  BY <1>3, <1>6, <1>10, <1>11, <1>12, <1>16

\* The fields of a row of telemetry, from the records it is computed from.
LEMMA RowOf ==
  ASSUME NEW r, r = RecordsOfRun, decided # {},
         {g.review : g \in {h \in Iterations(r) : h.review # 0}} = decided,
         Newest(decided) # 0, {h \in Iterations(r) : h.review # 0} # {}
  PROVE  /\ Telemetry.iterations = Iterations(r)
         /\ Telemetry.success = (status = "completed")
         /\ Telemetry.accepted = execs[Newest(decided)].reply
         /\ Telemetry.firstPass = IF firstPass = "unset" THEN FirstPassAccept(r) ELSE firstPass = "yes"
         /\ Telemetry.iteration_count = Cardinality({h \in Iterations(r) : h.review # 0})
         /\ Telemetry.review_count = Cardinality(GatesAt(r))
         /\ Telemetry.text = FinalText(r)
         /\ Telemetry.reason = Reason(execs[Newest(decided)].reply)
BY DEF Telemetry

\* The texts that records tell of are those the run would have gone on with.
LEMMA TextsOf ==
  ASSUME NEW r \in Seq(Nat \ {0}), NEW outputs \in [Step -> Nat], Matches(execs, r, outputs)
  PROVE  [i \in Step |-> LET k == Newest({r[j] : j \in {j \in DOMAIN r : execs[r[j]].step = i}})
                         IN IF k = 0 THEN 0 ELSE TextOf(k)] = outputs
<1> SUFFICES ASSUME NEW i \in Step
             PROVE  LET k == Newest({r[j] : j \in {j \in DOMAIN r : execs[r[j]].step = i}})
                    IN (IF k = 0 THEN 0 ELSE TextOf(k)) = outputs[i]
  OBVIOUS
<1> DEFINE K == {r[j] : j \in {j \in DOMAIN r : execs[r[j]].step = i}}
<1>1. K \in SUBSET Nat /\ \A j \in DOMAIN r : r[j] \in Nat /\ r[j] # 0
  OBVIOUS
<1>2. Tells(execs, r, i, outputs[i])
  BY DEF Matches
<1>3. CASE outputs[i] = 0 /\ \A j \in DOMAIN r : execs[r[j]].step # i
  <2>1. K = {}
    BY <1>3
  <2>2. Newest(K) = 0
    BY <2>1 DEF Newest
  <2> QED
    BY <1>3, <2>2
<1>4. CASE \E j \in DOMAIN r :
             /\ execs[r[j]].step = i
             /\ \A m \in DOMAIN r : execs[r[m]].step = i => r[m] <= r[j]
             /\ outputs[i] = IF execs[r[j]].reply = "empty" THEN 0 ELSE r[j]
  <2>1. PICK j \in DOMAIN r :
               /\ execs[r[j]].step = i
               /\ \A m \in DOMAIN r : execs[r[m]].step = i => r[m] <= r[j]
               /\ outputs[i] = IF execs[r[j]].reply = "empty" THEN 0 ELSE r[j]
    BY <1>4
  <2>2. r[j] \in K /\ \A k \in K : k <= r[j]
    BY <2>1
  <2>3. Newest(K) = r[j]
    <3> HIDE DEF K
    <3> QED
      BY <1>1, <2>2, NewestIs
  <2>4. outputs[i] = TextOf(r[j]) /\ r[j] # 0
    BY <1>1, <2>1 DEF TextOf
  <2> HIDE DEF K
  <2>5. (IF Newest(K) = 0 THEN 0 ELSE TextOf(Newest(K))) = outputs[i]
    BY <2>3, <2>4
  <2> QED
    BY <2>5 DEF K
<1> QED
  BY <1>2, <1>3, <1>4 DEF Tells

\* What is known of a run that has completed is what its row says.
LEMMA CompletedTold ==
  ASSUME Known, TellInv, flow.gate # 0, decided # {}, status = "completed"
  PROVE  TelemetryTellsTheRun
<1> DEFINE r == manifest
           p == Path(execs, r)
<1>1. TypeOK /\ TelemetryTypeOK /\ Attempts \in Nat /\ crashes \in Nat
  BY RowTypes, BoundsAssumption DEF Known, WorkInv, TypeOK
<1>2. /\ r \in Seq(1 .. Attempts) /\ r # <<>> /\ r[Len(r)] = Attempts
      /\ Books(flow.gate, execs, r, decided, crashes) /\ Attempts \in decided
      /\ execs[Attempts].reply = "accept" /\ execs[Attempts].step = Steps
      /\ firstPass = IF FirstPassAccept(r) THEN "yes" ELSE "no"
  BY <1>1 DEF TellInv, FinalInv, Final, Latest, TelemetryTypeOK, Records
<1>3. Len(r) \in Gates(p)
  <2>1. Len(r) \in DOMAIN r
    BY <1>2
  <2> QED
    BY <1>2, <2>1 DEF Gates, Path
<1>4. r = RecordsOfRun
  BY <1>2 DEF RecordsOfRun
<1>5. Newest(decided) = Attempts /\ Attempts # 0
  <2>1. decided \subseteq 1 .. Attempts
    BY <1>1 DEF TelemetryTypeOK
  <2>2. decided \in SUBSET Nat /\ \A k \in decided : k <= Attempts /\ k # 0
    BY <1>1, <2>1
  <2> QED
    BY <1>2, <2>2, NewestIs
<1> DEFINE groups  == Iterations(r)
           reviews == {g \in groups : g.review # 0}
<1>6. /\ Cardinality(GatesAt(r)) = Cardinality(decided)
      /\ {g.review : g \in reviews} = decided
      /\ reviews # {}
      /\ Cardinality(reviews) = Cardinality(decided)
      /\ Cardinality({g \in groups : g.drafts = {}}) <= crashes
      /\ GatesAt(r) = Gates(p)
  <2> HIDE DEF r
  <2> QED
    BY <1>1, <1>2, <1>3, GroupsOf DEF p
<1>7. FirstPassAccept(r) <=> Cardinality(decided) = 1
  <2>1. IsFiniteSet(GatesAt(r)) /\ GatesAt(r) \subseteq DOMAIN r
    <3>1. IsFiniteSet(1 .. Len(r)) /\ DOMAIN r = 1 .. Len(r)
      BY <1>2, FS_Interval
    <3> QED
      BY <3>1, FS_Subset DEF GatesAt
  <2>2. Cardinality(GatesAt(r)) = 1 <=> \E i : GatesAt(r) = {i}
    BY <2>1, FS_Singleton
  <2>3. \A i \in DOMAIN r : GatesAt(r) = {i} => r[i] = Attempts
    BY <1>2, <1>6 DEF Books
  <2> QED
    BY <1>2, <1>6, <2>1, <2>2, <2>3 DEF FirstPassAccept
<1> DEFINE row == Telemetry
<1>8. /\ row.iterations = groups
      /\ row.success
      /\ row.accepted = "accept"
      /\ row.firstPass <=> Cardinality(decided) = 1
      /\ row.iteration_count = Cardinality(reviews)
      /\ row.review_count = Cardinality(GatesAt(r))
      /\ row.reason = Reason("accept")
  <2> HIDE DEF r
  <2>1. /\ Telemetry.iterations = Iterations(r)
        /\ Telemetry.success = (status = "completed")
        /\ Telemetry.accepted = execs[Newest(decided)].reply
        /\ Telemetry.firstPass = IF firstPass = "unset" THEN FirstPassAccept(r) ELSE firstPass = "yes"
        /\ Telemetry.iteration_count = Cardinality({h \in Iterations(r) : h.review # 0})
        /\ Telemetry.review_count = Cardinality(GatesAt(r))
        /\ Telemetry.reason = Reason(execs[Newest(decided)].reply)
    BY <1>4, <1>5, <1>6, RowOf
  <2> QED
    BY <1>2, <1>5, <1>7, <2>1
<1>9. row.reason = "accepted"
  BY <1>8 DEF Reason
<1>10. \A g \in groups : g.review # 0 => g.review \in decided
  BY <1>6
<1> HIDE DEF row, groups, reviews, r
<1>11. /\ row.iteration_count = Cardinality(decided)
       /\ row.review_count = Cardinality(decided)
       /\ \A g \in row.iterations : g.review # 0 => g.review \in decided
       /\ Cardinality({g \in row.iterations : g.drafts = {}}) <= crashes
       /\ row.firstPass <=> (row.success /\ Cardinality(decided) = 1)
       /\ row.success /\ row.accepted = "accept" /\ row.reason = "accepted"
  BY <1>6, <1>8, <1>9, <1>10 DEF reviews
<1> QED
  BY <1>11 DEF TelemetryTellsTheRun, row

\* ... and of one that has failed and may be resumed.
LEMMA FailedTold ==
  ASSUME Known, TellInv, flow.gate # 0, decided # {}, status = "failed", saved
  PROVE  TelemetryTellsTheRun
<1> DEFINE r == stored
           p == Path(execs, r)
<1>1. TypeOK /\ TelemetryTypeOK /\ Attempts \in Nat /\ crashes \in Nat
  BY RowTypes, BoundsAssumption DEF Known, WorkInv, TypeOK
<1>2. /\ r \in Seq(1 .. Attempts) /\ r # <<>>
      /\ Books(flow.gate, execs, r, decided, crashes)
      /\ Matches(execs, r, kept.outputs)
      /\ \A k \in decided : execs[k].reply = "reject"
      /\ Gates(p) # {} /\ Idle(flow.gate, p) => Len(r) \in Gates(p)
      /\ manifest = <<>> /\ firstPass = "unset" /\ article = 0
  BY <1>1 DEF TellInv, StoredInv, FinalInv, Open, Way, TelemetryTypeOK, Records
<1>3. Gates(p) # {}
  BY <1>2 DEF Books
<1>4. r = RecordsOfRun
  BY <1>2 DEF RecordsOfRun
<1>5. Newest(decided) \in decided /\ Newest(decided) # 0
  <2>1. decided \in SUBSET (1 .. Attempts)
    BY <1>1 DEF TelemetryTypeOK
  <2>2. Newest(decided) \in decided
    BY <1>1, <2>1, LastIsNewest
  <2> QED
    BY <2>1, <2>2
<1> DEFINE groups  == Iterations(r)
           reviews == {g \in groups : g.review # 0}
<1>6. /\ Cardinality(GatesAt(r)) = Cardinality(decided)
      /\ {g.review : g \in reviews} = decided
      /\ reviews # {}
      /\ Cardinality(reviews) = Cardinality(decided)
      /\ Cardinality({g \in groups : g.drafts = {}}) <= crashes
      /\ GatesAt(r) = Gates(p)
  <2>1. Idle(flow.gate, p) => Len(r) \in Gates(p)
    BY <1>2, <1>3
  <2> HIDE DEF r
  <2> QED
    BY <1>1, <1>2, <2>1, GroupsOf DEF p
<1>7. ~FirstPassAccept(r)
  <2>1. \A i \in Gates(p) : r[i] \in decided
    BY <1>2 DEF Books
  <2>2. \A i \in GatesAt(r) : execs[r[i]].reply = "reject"
    BY <1>2, <1>6, <2>1
  <2> QED
    BY <2>2 DEF FirstPassAccept
<1>8. ArticleBody(kept.outputs) # 0 => FinalText(r) = ArticleBody(kept.outputs)
  <2>1. kept.outputs \in [Step -> Nat]
    BY <1>1 DEF TypeOK, WorkRecord
  <2>2. r \in Seq(Nat \ {0})
    <3>1. \A i \in DOMAIN r : r[i] \in Nat \ {0}
      BY <1>1, <1>2
    <3> HIDE DEF r
    <3> QED
      BY <1>2, <3>1, SequenceOf
  <2> DEFINE outputs == [i \in Step |-> LET k == Newest({r[j] : j \in {j \in DOMAIN r : execs[r[j]].step = i}})
                                        IN IF k = 0 THEN 0 ELSE TextOf(k)]
  <2>3. outputs = kept.outputs
    <3> HIDE DEF r
    <3> QED
      BY <1>2, <2>1, <2>2, TextsOf
  <2>4. FinalText(r) = IF article # 0 THEN article
                       ELSE IF ArticleBody(outputs) # 0 THEN ArticleBody(outputs)
                       ELSE Newest({TextOf(r[j]) : j \in DOMAIN r} \ {0})
    BY DEF FinalText
  <2> HIDE DEF outputs, r
  <2> QED
    BY <1>2, <2>3, <2>4
<1> DEFINE row == Telemetry
<1>9. /\ row.iterations = groups
      /\ ~row.success
      /\ row.accepted = "reject"
      /\ ~row.firstPass
      /\ row.iteration_count = Cardinality(reviews)
      /\ row.review_count = Cardinality(GatesAt(r))
      /\ row.text = FinalText(r)
      /\ row.reason = Reason("reject")
  <2> HIDE DEF r
  <2>1. /\ Telemetry.iterations = Iterations(r)
        /\ Telemetry.success = (status = "completed")
        /\ Telemetry.accepted = execs[Newest(decided)].reply
        /\ Telemetry.firstPass = IF firstPass = "unset" THEN FirstPassAccept(r) ELSE firstPass = "yes"
        /\ Telemetry.iteration_count = Cardinality({h \in Iterations(r) : h.review # 0})
        /\ Telemetry.review_count = Cardinality(GatesAt(r))
        /\ Telemetry.text = FinalText(r)
        /\ Telemetry.reason = Reason(execs[Newest(decided)].reply)
    BY <1>4, <1>5, <1>6, RowOf
  <2> QED
    BY <1>2, <1>5, <1>7, <2>1
<1>10. row.reason # "accepted"
  BY <1>9 DEF Reason
<1>11. \A g \in groups : g.review # 0 => g.review \in decided
  BY <1>6
<1> HIDE DEF row, groups, reviews, r
<1>12. /\ row.iteration_count = Cardinality(decided)
       /\ row.review_count = Cardinality(decided)
       /\ \A g \in row.iterations : g.review # 0 => g.review \in decided
       /\ Cardinality({g \in row.iterations : g.drafts = {}}) <= crashes
       /\ ArticleBody(kept.outputs) # 0 => row.text = ArticleBody(kept.outputs)
       /\ ~row.firstPass /\ ~row.success
       /\ row.accepted = "reject" /\ row.reason # "accepted"
  BY <1>6, <1>8, <1>9, <1>10, <1>11 DEF reviews
<1> QED
  BY <1>12 DEF TelemetryTellsTheRun, row

\* Telemetry tells the run: of every run through a gate that has completed, or
\* has failed with its checkpoint, it counts the gate's decisions, says how the
\* first and the last went and what text there was, whatever was rejected,
\* repeated or lost in crashes.  Only the first step may not lead to the gate.
THEOREM TelemetryAlwaysTells == NoShortcut /\ TelemetrySpec => []TelemetryTellsTheRun
<1> SUFFICES ASSUME NoShortcut
             PROVE  TelemetrySpec => []TelemetryTellsTheRun
  OBVIOUS
<1>1. NoShortcut /\ TelemetrySpec => []TellInv
  BY TellAlways
<1>2. ASSUME Known, TellInv
      PROVE  TelemetryTellsTheRun
  <2>1. CASE flow.gate # 0 /\ decided # {} /\ status = "completed"
    BY <1>2, <2>1, CompletedTold
  <2>2. CASE flow.gate # 0 /\ decided # {} /\ status = "failed" /\ saved
    BY <1>2, <2>2, FailedTold
  <2> QED
    BY <2>1, <2>2 DEF TelemetryTellsTheRun
<1> QED
  BY <1>1, <1>2, KnownAlways, PTL
===============================================================================
