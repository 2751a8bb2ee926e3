---------------------------- MODULE RunTelemetry -----------------------------
(***************************************************************************)
(* What the factory tells of a run once it has ended (telemetry.py,        *)
(* flow_roles.py, flow_performance.py).  The records of its steps go       *)
(* through the worker's memory, the checkpoint and the manifest, beside    *)
(* the executions; telemetry is computed from whichever is there, at the   *)
(* end of the run and again at every rebuild.                              *)
(*                                                                         *)
(* The module adds the records to every action of FlowPipeline.  A record  *)
(* is known by its execution.  Scores, criteria, issues, tokens and        *)
(* durations are left out; a review's JSON block says what its VERDICT     *)
(* line says; flows have no performance section (none that the code        *)
(* builds has).                                                            *)
(***************************************************************************)
EXTENDS FlowPipeline

VARIABLES
  records,    \* step_records of the worker
  stored,     \* step_records of pipeline_state
  manifest,   \* step_stats of the manifest; empty before the run completes
  firstPass,  \* FactoryRun.first_pass_accept; "unset" before the run completes
  error,      \* what FactoryRun.error says
  decided     \* the gate's reviews that were acted upon (history)

told  == <<records, stored, manifest, firstPass, error, decided>>
tvars == <<vars, told>>

Errors == {"none", "Max flow iterations exceeded", "Last step response missing VERDICT",
           "Last step must allow completion", "Flow ended without completion",
           "Flow finished without article content", "raised", "interrupted"}

Records == Seq(1 .. Attempts)

TelemetryTypeOK ==
  /\ records \in Records /\ stored \in Records /\ manifest \in Records
  /\ firstPass \in {"unset", "yes", "no"}
  /\ error \in Errors /\ decided \subseteq 1 .. Attempts

-----------------------------------------------------------------------------
(* Roles and iterations.                                                   *)

IsGate(k) == flow.gate # 0 /\ execs[k].step = Steps

\* The steps the gate sends back to, up to the gate; all steps without one.
IsProducer(k) == flow.gate = 0 \/ execs[k].step \in flow.gate .. Steps - 1

GatesAt(r) == {i \in DOMAIN r : IsGate(r[i])}

\* A group ends at every record of the gate, and at the last record.
GroupEnds(r) == GatesAt(r) \cup (IF r = <<>> THEN {} ELSE {Len(r)})

\* The groups, by the position where they end: the drafts in them and their
\* review, if any.
Group(r, i) ==
  LET before == {j \in GatesAt(r) : j < i}
  IN [drafts |-> {r[j] : j \in {j \in 1 .. i : (\A b \in before : b < j) /\ ~IsGate(r[j]) /\ IsProducer(r[j])}},
      review |-> IF IsGate(r[i]) THEN r[i] ELSE 0]

Iterations(r) == {Group(r, i) : i \in GroupEnds(r)}

\* Accepted by the only review; without a gate, no step was repeated.
FirstPassAccept(r) ==
  IF flow.gate = 0
  THEN r # <<>> /\ \A i, j \in DOMAIN r : execs[r[i]].step = execs[r[j]].step => i = j
  ELSE \E i \in DOMAIN r : GatesAt(r) = {i} /\ execs[r[i]].reply = "accept"

-----------------------------------------------------------------------------
(* The rows of a run that has ended.                                       *)

\* The executions of S in the order they were opened.
InOrder(S) ==
  [n \in 1 .. Cardinality(S) |-> CHOOSE k \in S : Cardinality({j \in S : j <= k}) = n]

Completed == InOrder({k \in DOMAIN execs : execs[k].state = "completed"})

\* The manifest, else the checkpoint, else what the executions hold.
RecordsOfRun ==
  IF manifest # <<>> THEN manifest ELSE IF stored # <<>> THEN stored ELSE Completed

Reason(accepted) ==
  CASE status = "cancelled" -> "cancelled"
    [] status = "failed" ->
         IF error = "Max flow iterations exceeded" THEN "max_iterations"
         ELSE IF error = "Last step response missing VERDICT" THEN "no_verdict" ELSE "failed"
    [] status = "completed" -> IF accepted = "reject" THEN "failed" ELSE "accepted"

TextOf(k) == IF execs[k].reply = "empty" THEN 0 ELSE k

\* The article, else what the records hold of it, else their last text.
FinalText(r) ==
  LET outputs == [i \in Step |-> LET k == Newest({r[j] : j \in {j \in DOMAIN r : execs[r[j]].step = i}})
                                 IN IF k = 0 THEN 0 ELSE TextOf(k)]
  IN IF article # 0 THEN article
     ELSE IF ArticleBody(outputs) # 0 THEN ArticleBody(outputs)
     ELSE Newest({TextOf(r[j]) : j \in DOMAIN r} \ {0})

\* RunTelemetry and its IterationTelemetry, whenever they are captured.
Telemetry ==
  LET r       == RecordsOfRun
      groups == Iterations(r)
      reviews == {g \in groups : g.review # 0}
      last    == Newest({g.review : g \in reviews})
      verdict == IF last = 0 THEN "none" ELSE execs[last].reply
  IN [iterations      |-> groups,
      success         |-> status = "completed",
      accepted        |-> verdict,
      firstPass       |-> IF firstPass = "unset" THEN FirstPassAccept(r) ELSE firstPass = "yes",
      iteration_count |-> IF reviews = {} THEN Cardinality(groups) ELSE Cardinality(reviews),
      review_count    |-> Cardinality(GatesAt(r)),
      text            |-> FinalText(r),
      reason          |-> Reason(verdict)]

-----------------------------------------------------------------------------
(* The records beside every action.                                        *)

TelemetryInit ==
  /\ Init
  /\ records = <<>> /\ stored = <<>> /\ manifest = <<>> /\ firstPass = "unset"
  /\ error = "none" /\ decided = {}

Silent(A) == A /\ UNCHANGED told

\* The record of a step, and the checkpoint that holds it.
Recorded == records' = Append(records, Attempts)

GoesOn ==
  /\ Advance /\ Recorded /\ stored' = records'
  /\ UNCHANGED <<manifest, firstPass, error, decided>>

GoesBack ==
  /\ SendBack /\ Recorded /\ stored' = records'
  /\ decided' = decided \cup (IF at = Steps THEN {Attempts} ELSE {})
  /\ UNCHANGED <<manifest, firstPass, error>>

Accepts == Accept /\ Recorded /\ UNCHANGED <<stored, manifest, firstPass, error, decided>>

Delivers ==
  /\ Deliver
  /\ manifest' = records /\ stored' = <<>>
  /\ firstPass' = IF FirstPassAccept(records) THEN "yes" ELSE "no"
  /\ decided' = decided \cup {k \in {Attempts} : IsGate(k)}
  /\ UNCHANGED <<records, error>>

Fails(A, why) ==
  /\ A /\ error' = why
  /\ UNCHANGED <<records, stored, manifest, firstPass, decided>>

UndecidedWhy == IF flow.completes THEN "Last step response missing VERDICT"
                ELSE "Last step must allow completion"

\* Whatever ends without its checkpoint ends without its records.
Drops(A, why) ==
  /\ A
  /\ stored' = IF saved' THEN stored ELSE <<>>
  /\ error' = why
  /\ UNCHANGED <<records, manifest, firstPass, decided>>

GoesDown == Crash /\ records' = <<>> /\ UNCHANGED <<stored, manifest, firstPass, error, decided>>

\* A checkpoint that is rebuilt holds the completed executions.
ComesUp ==
  /\ Restart
  /\ stored' = IF Rebuildable THEN Completed ELSE stored
  /\ error' = IF status' = "failed" THEN "interrupted" ELSE error
  /\ UNCHANGED <<records, manifest, firstPass, decided>>

\* Variant: a resumed run starts its records anew.
ResumesEmpty ==
  Continue /\ records' = <<>> /\ UNCHANGED <<stored, manifest, firstPass, error, decided>>

Resumes ==
  Continue /\ records' = stored /\ UNCHANGED <<stored, manifest, firstPass, error, decided>>

TelemetryWorker ==
  \/ Silent(CheckStep) \/ Silent(OpenStep) \/ Silent(Answer)
  \/ GoesOn \/ GoesBack \/ Accepts \/ Delivers
  \/ Fails(RunsOut, "Flow ended without completion")
  \/ Fails(Spent, "Max flow iterations exceeded")
  \/ Fails(Undecided, UndecidedWhy)
  \/ Fails(StepRaises, "raised")
  \/ Drops(AcceptNothing, "Flow finished without article content")
  \/ Drops(NoticesStop, error)

TelemetryNext ==
  \/ TelemetryWorker \/ Silent(RequestStop) \/ Drops(StopRun, error)
  \/ GoesDown \/ ComesUp \/ Resumes

TelemetrySpec == TelemetryInit /\ [][TelemetryNext]_tvars

\* The fairness of FlowPipeline.
TelemetryFairSpec ==
  /\ TelemetrySpec
  /\ WF_tvars(TelemetryWorker) /\ WF_tvars(ComesUp) /\ WF_tvars(Resumes)

-----------------------------------------------------------------------------
\* What docs/telemetry-v1.md defines, for a run that has completed, or failed
\* with its checkpoint: iteration_count counts the gate's decisions (also when
\* a crash made the gate judge twice, or lost an answer), first_pass_accept
\* says that its first decision accepted, accepted and the reason say how its
\* last one went, and a failed run's text is the one it would have gone on
\* with.  An iteration without a draft is one that a crash began anew at the
\* review.
TelemetryTellsTheRun ==
  (flow.gate # 0 /\ flow.completes /\ decided # {}
     /\ (status = "completed" \/ (status = "failed" /\ saved))) =>
    LET row == Telemetry IN
    /\ row.iteration_count = Cardinality(decided)
    /\ row.review_count = Cardinality(decided)
    /\ \A g \in row.iterations : g.review # 0 => g.review \in decided
    /\ Cardinality({g \in row.iterations : g.drafts = {}}) <= crashes
    /\ LET body == ArticleBody(kept.outputs)
       IN ~row.success /\ body # 0 => row.text = body
    /\ row.firstPass <=> (row.success /\ Cardinality(decided) = 1)
    /\ row.success => row.accepted = "accept" /\ row.reason = "accepted"
    /\ ~row.success => row.accepted = "reject" /\ row.reason # "accepted"
=============================================================================
