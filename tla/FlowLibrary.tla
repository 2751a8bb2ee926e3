---------------------------- MODULE FlowLibrary -----------------------------
(***************************************************************************)
(* Flows on disk (services/flow_storage.py, routes/flows.py), the versions *)
(* the database keeps of them (flow_versions.py) and the jobs that improve *)
(* their prompts (prompt_improvement.py, prompt_improvement_runner.py).    *)
(*                                                                         *)
(* The routes of flows and versions are sync handlers: they run in threads *)
(* and interleave with each other and with the event loop, which runs the  *)
(* jobs and begins the runs.  A crash may cut a write short: write_text    *)
(* truncates the file first.  A run may name any path, so the default path *)
(* and the queued topics, which follow a flow that moves, are left out.    *)
(*                                                                         *)
(* The step ids of a flow are minted together (uuid4): a family of ids, by *)
(* number, stands for them.  A family that refers to a step of another is  *)
(* a dangling reference.                                                   *)
(***************************************************************************)
EXTENDS Naturals, Sequences

CONSTANTS
  Paths,        \* flow files, relative to the flows root
  Templates,    \* those under _templates/
  Seed,         \* a path ensure_default_flows writes when it is absent
  Absent, Torn, \* no file; a file that is no JSON
  Texts,        \* what the prompts of a flow may say
  Runs, Jobs,
  MaxFamilies,  \* bound: families of step ids
  MaxVersions,  \* bound: rows of flow_versions
  MaxRequests,  \* bound: requests of operators
  MaxFaults     \* bound: restarts, and commits that find the database locked

ASSUME PathAssumption  == Templates \subseteq Paths /\ Seed \in Paths
ASSUME JobAssumption   == Jobs \subseteq Nat \ {0}   \* 0 is Nobody
ASSUME BoundAssumption == {MaxFamilies, MaxVersions, MaxRequests, MaxFaults} \subseteq Nat

VARIABLES
  file,      \* the flows directory
  versions,  \* FlowVersion rows, by id; job: who made it (0: a request or a run)
  moves,     \* move requests that have written and not yet deleted
  saves,     \* version requests between reading a number and their commit
  run,       \* FactoryRun: status, flow_path, flow_version_id
  job,       \* PromptImprovementJob, and where its task is
  reports,   \* PromptImprovementReport rows
  families, requests, faults

shelf  == <<file, versions, moves, saves>>
vars   == <<shelf, run, job, reports, families, requests, faults>>

-----------------------------------------------------------------------------
Nobody == 0

\* What a flow says, and whose steps it refers to: inside where its last step
\* and the loops that are on go back to, and the step that writes its article;
\* loose where the other loops do (that of the first step, one that is off,
\* the completion of an inner step), its own if it has none.  brief: whether
\* it is a desk's.
Flow == [ids : Nat \ {0}, inside : Nat \ {0}, loose : Nat \ {0}, brief : BOOLEAN, text : Texts]

ASSUME FlowAssumption == Absent \notin Flow /\ Torn \notin Flow

Version == [path : Paths, number : Nat, flow : Flow, job : Nat]
Task    == {"none", "spawned", "asking", "numbered", "reporting", "closing"}

TypeOK ==
  /\ file \in [Paths -> Flow \cup {Absent, Torn}]
  /\ versions \in Seq(Version)
  /\ moves \subseteq [from : Paths, to : Paths]
  /\ saves \subseteq Version
  /\ run \in [Runs -> [status : {"none", "running", "ended"}, path : Paths, version : Nat]]
  /\ job \in [Jobs -> [status : {"none", "queued", "running", "completed", "failed"},
                       source : Nat, task : Task, number : Nat]]
  /\ reports \subseteq [job : Jobs, version : Nat]
  /\ families \in Nat /\ requests \in 0..MaxRequests /\ faults \in 0..MaxFaults

IsFlow(c) == c \notin {Absent, Torn}
Ids == DOMAIN versions

\* What the schema looks at: not at the loose loops.
Valid(c) == c.inside = c.ids

NewFlow(f, desk, text) ==
  [ids |-> f, inside |-> f, loose |-> f, brief |-> desk, text |-> text]

\* A copy with ids of its own; its references follow, those that are not to
\* its steps remain.
Renamed(x, c, f) == IF x = c.ids THEN f ELSE x

\* Variant: only what the schema looks at is renamed.
RemappedWhereLooked(c, f, desk) ==
  [ids |-> f, inside |-> Renamed(c.inside, c, f), loose |-> c.loose,
   brief |-> desk, text |-> c.text]

Remapped(c, f, desk) ==
  [ids |-> f, inside |-> Renamed(c.inside, c, f), loose |-> Renamed(c.loose, c, f),
   brief |-> desk, text |-> c.text]

-----------------------------------------------------------------------------
\* Requests for files.

Asked == /\ requests < MaxRequests /\ requests' = requests + 1
         /\ UNCHANGED <<run, job, reports, faults>>

Write(p, c) == /\ file' = [file EXCEPT ![p] = c]
               /\ UNCHANGED <<versions, moves, saves>>

Minted == families < MaxFamilies /\ families' = families + 1

Put(p) == \E c \in [ids : 1..families, inside : 1..families, loose : 1..families,
                    brief : BOOLEAN, text : Texts] :
  Valid(c) /\ Write(p, c) /\ Asked /\ UNCHANGED families

\* Without overwrite; with it, an import is a Put.
Import(p) == file[p] = Absent /\ Put(p)

Create(p) ==
  /\ file[p] = Absent
  /\ \E text \in Texts : Write(p, NewFlow(families + 1, FALSE, text))
  /\ Minted /\ Asked

CreateDesk(p) ==
  /\ file[p] = Absent
  /\ \E text \in Texts : Write(p, NewFlow(families + 1, TRUE, text))
  /\ Minted /\ Asked

\* The copy has no brief; the schema is asked before it is written.
Duplicate(p, q) ==
  LET copy == Remapped(file[p], families + 1, FALSE) IN
  /\ IsFlow(file[p]) /\ file[q] = Absent
  /\ p \in Templates <=> q \in Templates
  /\ Valid(copy) /\ Write(q, copy)
  /\ Minted /\ Asked

FromTemplate(p, q) ==
  LET copy == Remapped(file[p], families + 1, file[p].brief) IN
  /\ p \in Templates /\ IsFlow(file[p]) /\ file[q] = Absent
  /\ Valid(copy) /\ Write(q, copy)
  /\ Minted /\ Asked

\* Anything outside _templates that is no desk serves as a template, too.
IsPipelineTemplate(p) == IsFlow(file[p]) /\ (p \in Templates \/ ~file[p].brief)

\* The steps of a template, or of any version, go to a desk, which keeps its
\* brief.  model_copy does not ask the schema.
ApplyTemplate(p) ==
  /\ p \notin Templates /\ IsFlow(file[p]) /\ file[p].brief
  /\ \E c \in {file[t] : t \in {t \in Paths : IsPipelineTemplate(t)}}
              \cup {versions[v].flow : v \in Ids} :
       Write(p, Remapped(c, families + 1, TRUE))
  /\ Minted /\ Asked

Delete(p) == file[p] # Absent /\ Write(p, Absent) /\ Asked /\ UNCHANGED families

\* A move writes the new file, then deletes the old one: another request, or a
\* crash, may come between.
MoveWrites(p, q) ==
  /\ IsFlow(file[p]) /\ q \notin Templates /\ file[q] = Absent
  /\ file' = [file EXCEPT ![q] = file[p]]
  /\ moves' = moves \cup {[from |-> p, to |-> q]}
  /\ Asked /\ UNCHANGED <<versions, saves, families>>

MoveDeletes(m) ==
  /\ m \in moves /\ moves' = moves \ {m}
  /\ file' = [file EXCEPT ![m.from] = Absent]
  /\ UNCHANGED <<versions, saves, run, job, reports, families, requests, faults>>

-----------------------------------------------------------------------------
\* Versions.

VersionsOf(p) == {v \in Ids : versions[v].path = p}

\* The rows ORDER BY version_number DESC may put first: two requests at once
\* may give out one number twice.
Latest(p) == {v \in VersionsOf(p) : \A w \in VersionsOf(p) : versions[w].number <= versions[v].number}

NextNumber(p) == IF Latest(p) = {} THEN 1
                 ELSE versions[CHOOSE v \in Latest(p) : TRUE].number + 1

Row(p, n, c, maker) == [path |-> p, number |-> n, flow |-> c, job |-> maker]

Insert(row) == Len(versions) < MaxVersions /\ versions' = Append(versions, row)

\* A request to keep the file as a version: nothing to do when a version of
\* the same content exists, else the number is read, then the row is written.
AskVersion(p) ==
  /\ IsFlow(file[p]) /\ \A v \in VersionsOf(p) : versions[v].flow # file[p]
  /\ saves' = saves \cup {Row(p, NextNumber(p), file[p], Nobody)}
  /\ Asked /\ UNCHANGED <<file, versions, moves, families>>

SaveVersion(s) ==
  /\ s \in saves /\ saves' = saves \ {s} /\ Insert(s)
  /\ UNCHANGED <<file, moves, run, job, reports, families, requests, faults>>

ApplyVersion(v) == Write(versions[v].path, versions[v].flow) /\ Asked /\ UNCHANGED families

-----------------------------------------------------------------------------
\* The event loop: between numbering its version and completing, a job awaits
\* nothing.

LoopFree == \A j \in Jobs : job[j].task \notin {"numbered", "reporting", "closing"}

Began(r, p, v) == run' = [run EXCEPT ![r] = [status |-> "running", path |-> p, version |-> v]]

\* The version a run asks for; else the latest one, whatever the file says;
\* else the file becomes the first.
BeginRun(r, p) ==
  /\ run[r].status = "none" /\ LoopFree
  /\ \/ \E v \in VersionsOf(p) : Began(r, p, v) /\ UNCHANGED versions
     \/ \E v \in Latest(p) : Began(r, p, v) /\ UNCHANGED versions
     \/ /\ VersionsOf(p) = {} /\ IsFlow(file[p])
        /\ Insert(Row(p, 1, file[p], Nobody))
        /\ Began(r, p, Len(versions) + 1)
  /\ UNCHANGED <<file, moves, saves, job, reports, families, requests, faults>>

EndRun(r) ==
  /\ run[r].status = "running" /\ LoopFree
  /\ run' = [run EXCEPT ![r].status = "ended"]
  /\ UNCHANGED <<shelf, job, reports, families, requests, faults>>

\* Variant: a run follows the latest version of its flow.
ExecutesLatest(r) ==
  IF VersionsOf(run[r].path) # {} THEN versions[CHOOSE v \in Latest(run[r].path) : TRUE].flow
  ELSE file[run[r].path]

\* What a run executes, whenever its worker looks.
Executes(r) ==
  IF run[r].version \in VersionsOf(run[r].path) THEN versions[run[r].version].flow
  ELSE file[run[r].path]

JobGoes(j, status, task) ==
  /\ job' = [job EXCEPT ![j] = [@ EXCEPT !.status = status, !.task = task]]
  /\ UNCHANGED <<run, families, requests, faults>>

\* A version must have completed runs; the telemetry of runs is not modelled.
AskJob(j, v) ==
  /\ job[j].status = "none" /\ LoopFree /\ requests < MaxRequests
  /\ job' = [job EXCEPT ![j] = [status |-> "queued", source |-> v, task |-> "spawned", number |-> 0]]
  /\ requests' = requests + 1
  /\ UNCHANGED <<shelf, run, reports, families, faults>>

\* The steps in question may have no prompt.
JobStarts(j) ==
  /\ job[j].task = "spawned" /\ LoopFree
  /\ JobGoes(j, "running", "asking") \/ JobGoes(j, "failed", "none")
  /\ UNCHANGED <<shelf, reports>>

\* No puller, no answer, no JSON, or no prompt that differs.
JobFails(j) ==
  /\ job[j].task = "asking" /\ LoopFree /\ JobGoes(j, "failed", "none")
  /\ UNCHANGED <<shelf, reports>>

JobAnswered(j) ==
  /\ job[j].task = "asking" /\ LoopFree
  /\ job' = [job EXCEPT ![j] = [@ EXCEPT !.task = "numbered",
                                  !.number = NextNumber(versions[job[j].source].path)]]
  /\ UNCHANGED <<shelf, run, reports, families, requests, faults>>

\* At least one prompt differs.
Improved(c) == {[c EXCEPT !.text = t] : t \in Texts \ {c.text}}

\* Variant: the commit is tried again although it got through.
JobSavesAgain(j) ==
  LET source == versions[job[j].source] IN
  /\ job[j].task = "numbered"
  /\ \E c \in Improved(source.flow) : Insert(Row(source.path, job[j].number, c, j))
  /\ JobGoes(j, "running", "reporting") \/ JobGoes(j, "running", "numbered")
  /\ UNCHANGED <<file, moves, saves, reports>>

JobSaves(j) ==
  LET source == versions[job[j].source] IN
  /\ job[j].task = "numbered"
  /\ \E c \in Improved(source.flow) : Insert(Row(source.path, job[j].number, c, j))
  /\ JobGoes(j, "running", "reporting")
  /\ UNCHANGED <<file, moves, saves, reports>>

\* new_version.id: the row its own commit has added.
JobReports(j) ==
  /\ job[j].task = "reporting"
  /\ \E v \in Ids : versions[v].job = j /\ (\A w \in Ids : versions[w].job = j => w <= v)
       /\ reports' = reports \cup {[job |-> j, version |-> v]}
  /\ JobGoes(j, "running", "closing")
  /\ UNCHANGED shelf

JobCompletes(j) ==
  job[j].task = "closing" /\ JobGoes(j, "completed", "none") /\ UNCHANGED <<shelf, reports>>

\* The session of a failed commit can neither write that the job failed nor
\* read it again: the task dies, the row stays.
JobLocked(j) ==
  /\ job[j].task # "none" /\ faults < MaxFaults
  /\ job[j].task \in {"spawned", "asking"} => LoopFree
  /\ job' = [job EXCEPT ![j].task = "none"] /\ faults' = faults + 1
  /\ UNCHANGED <<shelf, run, reports, families, requests>>

\* A torn file exists: it is not written again.
Seeded(left) ==
  IF left[Seed] = Absent
  THEN /\ Minted
       /\ \E t \in Texts : file' = [left EXCEPT ![Seed] = NewFlow(families + 1, FALSE, t)]
  ELSE file' = left /\ UNCHANGED families

\* Only a job that has not begun starts again.
Resumed(j) ==
  CASE job[j].status = "running" -> [job[j] EXCEPT !.status = "failed", !.task = "none"]
    [] job[j].status = "queued"  -> [job[j] EXCEPT !.task = "spawned"]
    [] OTHER -> job[j]

\* A crash, perhaps in the middle of a write, and the start after it.
Restart(torn) ==
  /\ faults < MaxFaults /\ faults' = faults + 1
  /\ Seeded([p \in Paths |-> IF p \in torn THEN Torn ELSE file[p]])
  /\ moves' = {} /\ saves' = {}
  /\ job' = [j \in Jobs |-> Resumed(j)]
  /\ UNCHANGED <<versions, run, reports, requests>>

-----------------------------------------------------------------------------
Init ==
  /\ \E d \in Paths \ Templates, t \in Texts :
       file = [p \in Paths |-> IF p = Seed THEN NewFlow(1, FALSE, t)
                              ELSE IF p = d THEN NewFlow(2, TRUE, t) ELSE Absent]
  /\ versions = <<>> /\ moves = {} /\ saves = {} /\ reports = {}
  /\ run = [r \in Runs |-> [status |-> "none", path |-> Seed, version |-> 0]]
  /\ job = [j \in Jobs |-> [status |-> "none", source |-> 0, task |-> "none", number |-> 0]]
  /\ families = 2 /\ requests = 0 /\ faults = 0

Editing ==
  \/ \E p \in Paths : \/ Put(p) \/ Import(p) \/ Create(p) \/ CreateDesk(p)
                      \/ ApplyTemplate(p) \/ Delete(p) \/ AskVersion(p)
  \/ \E p, q \in Paths : Duplicate(p, q) \/ FromTemplate(p, q) \/ MoveWrites(p, q)
  \/ \E m \in moves : MoveDeletes(m)
  \/ \E s \in saves : SaveVersion(s)
  \/ \E v \in Ids : ApplyVersion(v)

Running == \E r \in Runs : EndRun(r) \/ \E p \in Paths : BeginRun(r, p)

Improving == \E j \in Jobs :
  \/ \E v \in Ids : AskJob(j, v)
  \/ JobStarts(j) \/ JobFails(j) \/ JobAnswered(j)
  \/ JobSaves(j) \/ JobReports(j) \/ JobCompletes(j) \/ JobLocked(j)

Crashing == \E torn \in {{}} \cup {{p} : p \in Paths} : Restart(torn)

Next == Editing \/ Running \/ Improving \/ Crashing
Spec == Init /\ [][Next]_vars

-----------------------------------------------------------------------------
\* Whatever operators do to the file, its versions and the other flows, and
\* however often the factory restarts, a run executes to its end the flow it
\* has begun with (resolve_flow_for_run is asked again at every resume).
RunKeepsItsFlow ==
  [][\A r \in Runs : run[r].status = "running" /\ run'[r].status = "running"
                       => Executes(r)' = Executes(r)]_vars

\* The flows on disk, in the database and on their way to it, and the steps of
\* other flows, or of none, that their loose loops go back to.
Kept   == {c \in {file[p] : p \in Paths} : IsFlow(c)} \cup {versions[v].flow : v \in Ids}
            \cup {s.flow : s \in saves}
Strays == {c.loose : c \in {c \in Kept : c.loose # c.ids}}

\* Every flow that is kept can be read again: the references the schema looks
\* at are to its own steps, although nobody asks the schema about a template
\* that is applied or a prompt that is improved.  And where the schema does
\* not look, a reference to a step of another flow is one that an operator
\* sent: what is copied, applied, moved, saved or improved never points into
\* the flow it comes from.
ReferencesStayInside ==
  /\ [](\A c \in Kept : Valid(c))
  /\ [][Strays' \subseteq Strays \/ \E p \in Paths : Put(p)]_vars

\* A job makes at most one version and one report, over all restarts and
\* failed commits; a completed one has both, and its report names its version.
OneVersionPerJob == \A j \in Jobs :
  /\ \A v, w \in Ids : versions[v].job = j /\ versions[w].job = j => v = w
  /\ \A x, y \in reports : x.job = j /\ y.job = j => x = y
  /\ \A x \in reports : x.job = j => x.version \in Ids /\ versions[x.version].job = j
  /\ job[j].status = "completed" => \E x \in reports : x.job = j
=============================================================================
