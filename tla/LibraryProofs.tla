---------------------------- MODULE LibraryProofs ----------------------------
(***************************************************************************)
(* Proofs about FlowLibrary, for any flows, templates, runs and jobs and   *)
(* whatever the bounds are.                                                *)
(***************************************************************************)
EXTENDS FlowLibrary, TLAPS

-----------------------------------------------------------------------------
(* Flows: what is minted, copied or improved refers to its own steps, but  *)
(* for loose loops to those of the flows in X.                             *)

Sound(X)        == {c \in Flow : Valid(c) /\ c.loose \in {c.ids} \cup X}
Contents(X)     == Sound(X) \cup {Absent, Torn}
SoundVersion(X) == [path : Paths, number : Nat, flow : Sound(X), job : Nat]

LEMMA NewFlowSound ==
  ASSUME NEW X, NEW f \in Nat, NEW desk \in BOOLEAN, NEW text \in Texts
  PROVE  NewFlow(f + 1, desk, text) \in Sound(X)
BY DEF NewFlow, Sound, Valid, Flow

LEMMA RemappedSound ==
  ASSUME NEW X, NEW c \in Sound(X), NEW f \in Nat, NEW desk \in BOOLEAN
  PROVE  Remapped(c, f + 1, desk) \in Sound(X)
BY DEF Remapped, Renamed, Sound, Valid, Flow

LEMMA ImprovedSound ==
  ASSUME NEW X, NEW c \in Sound(X), NEW d \in Improved(c)
  PROVE  d \in Sound(X)
BY DEF Improved, Sound, Valid, Flow

\* A content that is a flow is sound.
LEMMA IsFlowSound ==
  ASSUME NEW X, NEW c \in Contents(X), IsFlow(c)
  PROVE  c \in Sound(X)
BY DEF Contents, IsFlow

-----------------------------------------------------------------------------
(* The shelf: files, versions and what requests hold of them.              *)

Shelved(X) ==
  /\ file \in [Paths -> Contents(X)]
  /\ versions \in Seq(SoundVersion(X))
  /\ moves \subseteq [from : Paths, to : Paths]
  /\ saves \subseteq {s \in SoundVersion(X) : s.job = Nobody}
  /\ families \in Nat

\* What a step does to the files, the versions and the requests.
Rewritten(X) == file' = file \/ \E p \in Paths, c \in Contents(X) : file' = [file EXCEPT ![p] = c]

Grown(X, makers) ==
  \/ versions' = versions
  \/ \E row \in SoundVersion(X) : row.job \in makers /\ versions' = Append(versions, row)

LEMMA VersionFlows ==
  ASSUME NEW X, Shelved(X)
  PROVE  /\ Ids = 1 .. Len(versions)
         /\ Len(versions) \in Nat
         /\ \A v \in Ids : versions[v] \in SoundVersion(X) /\ versions[v].flow \in Sound(X)
                            /\ versions[v].path \in Paths /\ versions[v].number \in Nat
<1>1. versions \in Seq(SoundVersion(X))
  BY DEF Shelved
<1>2. /\ DOMAIN versions = 1 .. Len(versions)
      /\ Len(versions) \in Nat
      /\ \A v \in 1 .. Len(versions) : versions[v] \in SoundVersion(X)
  BY <1>1
<1> QED
  BY <1>2 DEF Ids, SoundVersion

LEMMA NextNumberNat ==
  ASSUME NEW X, Shelved(X), NEW p \in Paths
  PROVE  NextNumber(p) \in Nat
<1>1. CASE Latest(p) = {}
  BY <1>1 DEF NextNumber
<1>2. CASE Latest(p) # {}
  <2>1. (CHOOSE v \in Latest(p) : TRUE) \in Latest(p)
    BY <1>2
  <2>2. Latest(p) \subseteq Ids
    BY DEF Latest, VersionsOf
  <2> QED
    BY <1>2, <2>1, <2>2, VersionFlows DEF NextNumber
<1> QED
  BY <1>1, <1>2

\* What a request about files and versions leaves behind.
Edits(X) ==
  /\ Rewritten(X)
  /\ Grown(X, {Nobody})
  /\ moves' \subseteq [from : Paths, to : Paths]
  /\ saves' \subseteq {s \in SoundVersion(X) : s.job = Nobody}
  /\ families' \in Nat
  /\ UNCHANGED <<run, job, reports>>

LEMMA WriteEdits ==
  ASSUME NEW X, Shelved(X), NEW p \in Paths, NEW c \in Contents(X), Write(p, c), Asked, families' \in Nat
  PROVE  Edits(X)
BY DEF Shelved, Write, Asked, Edits, Rewritten, Grown

LEMMA MintedNat ==
  ASSUME NEW X, Shelved(X), Minted
  PROVE  families' \in Nat
BY DEF Shelved, Minted

\* Whoever sends a flow may refer to any other.
Licensed(X) == (\E p \in Paths : Put(p)) => Nat \subseteq X

LEMMA EditingEdits ==
  ASSUME NEW X, Shelved(X), Licensed(X), Editing
  PROVE  Edits(X)
<1>a. /\ file \in [Paths -> Contents(X)] /\ families \in Nat
      /\ \A p \in Paths : file[p] \in Contents(X)
      /\ Absent \in Contents(X)
  BY DEF Shelved, Contents
<1>1. ASSUME NEW p \in Paths, Put(p) PROVE Edits(X)
  <2>1. PICK c \in [ids : 1..families, inside : 1..families, loose : 1..families,
                    brief : BOOLEAN, text : Texts] :
          Valid(c) /\ Write(p, c) /\ Asked /\ UNCHANGED families
    BY <1>1 DEF Put
  <2>2. c \in Contents(X)
    BY <1>1, <1>a, <2>1 DEF Licensed, Contents, Sound, Flow
  <2> QED
    BY <1>a, <2>1, <2>2, WriteEdits
<1>2. ASSUME NEW p \in Paths, Create(p) PROVE Edits(X)
  <2>1. PICK text \in Texts : Write(p, NewFlow(families + 1, FALSE, text))
    BY <1>2 DEF Create
  <2>2. NewFlow(families + 1, FALSE, text) \in Contents(X)
    BY <1>a, NewFlowSound DEF Contents
  <2> QED
    BY <1>2, <2>1, <2>2, WriteEdits, MintedNat DEF Create
<1>3. ASSUME NEW p \in Paths, CreateDesk(p) PROVE Edits(X)
  <2>1. PICK text \in Texts : Write(p, NewFlow(families + 1, TRUE, text))
    BY <1>3 DEF CreateDesk
  <2>2. NewFlow(families + 1, TRUE, text) \in Contents(X)
    BY <1>a, NewFlowSound DEF Contents
  <2> QED
    BY <1>3, <2>1, <2>2, WriteEdits, MintedNat DEF CreateDesk
<1>4. ASSUME NEW p \in Paths, ApplyTemplate(p) PROVE Edits(X)
  <2>1. PICK c \in {file[t] : t \in {t \in Paths : IsPipelineTemplate(t)}}
                    \cup {versions[v].flow : v \in Ids} :
          Write(p, Remapped(c, families + 1, TRUE))
    BY <1>4 DEF ApplyTemplate
  <2>2. c \in Sound(X)
    BY <1>a, IsFlowSound, VersionFlows DEF IsPipelineTemplate
  <2>3. Remapped(c, families + 1, TRUE) \in Contents(X)
    BY <1>a, <2>2, RemappedSound DEF Contents
  <2> QED
    BY <1>4, <2>1, <2>3, WriteEdits, MintedNat DEF ApplyTemplate
<1>5. ASSUME NEW p \in Paths, Delete(p) PROVE Edits(X)
  BY <1>5, <1>a, WriteEdits DEF Delete
<1>6. ASSUME NEW p \in Paths, AskVersion(p) PROVE Edits(X)
  <2> DEFINE s == Row(p, NextNumber(p), file[p], Nobody)
  <2>1. file[p] \in Sound(X)
    BY <1>6, <1>a, IsFlowSound DEF AskVersion
  <2>2. s \in SoundVersion(X) /\ s.job = Nobody
    BY <2>1, NextNumberNat DEF Row, SoundVersion, Nobody
  <2>3. saves' = saves \cup {s} /\ Asked /\ UNCHANGED <<file, versions, moves, families>>
    BY <1>6 DEF AskVersion
  <2> QED
    BY <2>2, <2>3 DEF Shelved, Asked, Edits, Rewritten, Grown
<1>7. ASSUME NEW p \in Paths, NEW q \in Paths, Duplicate(p, q) PROVE Edits(X)
  <2>1. Remapped(file[p], families + 1, FALSE) \in Contents(X)
    BY <1>7, <1>a, IsFlowSound, RemappedSound DEF Duplicate, Contents
  <2> QED
    BY <1>7, <2>1, WriteEdits, MintedNat DEF Duplicate
<1>8. ASSUME NEW p \in Paths, NEW q \in Paths, FromTemplate(p, q) PROVE Edits(X)
  <2>1. file[p] \in Sound(X)
    BY <1>8, <1>a, IsFlowSound DEF FromTemplate
  <2>2. file[p].brief \in BOOLEAN
    BY <2>1 DEF Sound, Flow
  <2>3. Remapped(file[p], families + 1, file[p].brief) \in Contents(X)
    BY <1>a, <2>1, <2>2, RemappedSound DEF Contents
  <2> QED
    BY <1>8, <2>3, WriteEdits, MintedNat DEF FromTemplate
<1>9. ASSUME NEW p \in Paths, NEW q \in Paths, MoveWrites(p, q) PROVE Edits(X)
  <2>1. file[p] \in Contents(X) /\ file' = [file EXCEPT ![q] = file[p]]
    BY <1>9, <1>a DEF MoveWrites
  <2>2. Rewritten(X)
    BY <2>1 DEF Rewritten
  <2> QED
    BY <1>9, <2>2 DEF MoveWrites, Shelved, Asked, Edits, Grown
<1>10. ASSUME NEW m \in moves, MoveDeletes(m) PROVE Edits(X)
  BY <1>10, <1>a DEF MoveDeletes, Shelved, Edits, Rewritten, Grown
<1>11. ASSUME NEW s \in saves, SaveVersion(s) PROVE Edits(X)
  BY <1>11 DEF SaveVersion, Insert, Shelved, Edits, Rewritten, Grown
<1>12. ASSUME NEW v \in Ids, ApplyVersion(v) PROVE Edits(X)
  <2>1. versions[v].path \in Paths /\ versions[v].flow \in Contents(X)
    BY VersionFlows DEF Contents
  <2> QED
    BY <1>12, <1>a, <2>1, WriteEdits DEF ApplyVersion
<1>13. ASSUME NEW p \in Paths, Import(p) PROVE Edits(X)
  BY <1>13, <1>1 DEF Import
<1> QED
  BY <1>1, <1>2, <1>3, <1>4, <1>5, <1>6, <1>7, <1>8, <1>9, <1>10, <1>11, <1>12, <1>13 DEF Editing

-----------------------------------------------------------------------------
(* Types.                                                                  *)

Statuses  == {"none", "queued", "running", "completed", "failed"}
JobRecord == [status : Statuses,
              source : Nat, task : Task, number : Nat]

Tasks ==
  /\ run \in [Runs -> [status : {"none", "running", "ended"}, path : Paths, version : Nat]]
  /\ job \in [Jobs -> JobRecord]
  /\ reports \subseteq [job : Jobs, version : Nat]
  /\ requests \in 0..MaxRequests /\ faults \in 0..MaxFaults

Typed == Shelved(Nat) /\ Tasks

LEMMA TypedTypes ==
  ASSUME Typed
  PROVE  TypeOK
<1>1. Sound(Nat) \subseteq Flow /\ SoundVersion(Nat) \subseteq Version
  BY DEF Sound, SoundVersion, Version
<1>2. file \in [Paths -> Flow \cup {Absent, Torn}]
  BY <1>1 DEF Typed, Shelved, Contents
<1>3. versions \in Seq(Version)
  BY <1>1 DEF Typed, Shelved
<1>4. saves \subseteq Version
  BY <1>1 DEF Typed, Shelved
<1> QED
  BY <1>2, <1>3, <1>4 DEF Typed, Shelved, Tasks, TypeOK, JobRecord, Statuses

LEMMA InitTyped ==
  ASSUME Init
  PROVE  Typed
<1>1. PICK d \in Paths \ Templates, t \in Texts :
        file = [p \in Paths |-> IF p = Seed THEN NewFlow(1, FALSE, t)
                               ELSE IF p = d THEN NewFlow(2, TRUE, t) ELSE Absent]
  BY DEF Init
<1>2. NewFlow(1, FALSE, t) \in Sound(Nat) /\ NewFlow(2, TRUE, t) \in Sound(Nat)
  BY DEF NewFlow, Sound, Valid, Flow
<1>3. file \in [Paths -> Contents(Nat)]
  BY <1>1, <1>2 DEF Contents
<1>4. Seed \in Paths /\ MaxRequests \in Nat /\ MaxFaults \in Nat
  BY PathAssumption, BoundAssumption
<1>5. Shelved(Nat)
  <2>1. versions = <<>> /\ <<>> \in Seq(SoundVersion(Nat))
    BY DEF Init
  <2>2. moves = {} /\ saves = {} /\ families = 2
    BY DEF Init
  <2> QED
    BY <1>3, <2>1, <2>2 DEF Shelved
<1>6. Tasks
  BY <1>4 DEF Init, Tasks, Task, JobRecord, Statuses
<1> QED
  BY <1>5, <1>6 DEF Typed

LEMMA GrownShelf ==
  ASSUME NEW X, Shelved(X), NEW makers, Grown(X, makers)
  PROVE  versions' \in Seq(SoundVersion(X))
BY DEF Shelved, Grown

LEMMA RewrittenShelf ==
  ASSUME NEW X, Shelved(X), Rewritten(X)
  PROVE  file' \in [Paths -> Contents(X)]
BY DEF Shelved, Rewritten

\* What a run or a job does to the shelf.
LEMMA BeginRunGrows ==
  ASSUME NEW X, Shelved(X), NEW r \in Runs, NEW p \in Paths, BeginRun(r, p)
  PROVE  /\ Grown(X, {Nobody})
         /\ \E v \in Ids' : /\ run' = [run EXCEPT ![r] =
                                         [status |-> "running", path |-> p, version |-> v]]
                            /\ versions'[v].path = p
<1>1. CASE \E v \in VersionsOf(p) : Began(r, p, v) /\ UNCHANGED versions
  BY <1>1 DEF Began, VersionsOf, Grown, Ids
<1>2. CASE \E v \in Latest(p) : Began(r, p, v) /\ UNCHANGED versions
  BY <1>2 DEF Began, VersionsOf, Latest, Grown, Ids
<1>3. CASE /\ VersionsOf(p) = {} /\ IsFlow(file[p])
           /\ Insert(Row(p, 1, file[p], Nobody))
           /\ Began(r, p, Len(versions) + 1)
  <2> DEFINE row == Row(p, 1, file[p], Nobody)
  <2>1. file[p] \in Sound(X)
    BY <1>3, IsFlowSound DEF Shelved
  <2>2. row \in SoundVersion(X) /\ row.job = Nobody /\ row.path = p
    BY <2>1 DEF Row, SoundVersion, Nobody
  <2>3. versions' = Append(versions, row) /\ versions \in Seq(SoundVersion(X))
    BY <1>3 DEF Insert, Shelved
  <2>4. Len(versions) + 1 \in Ids' /\ versions'[Len(versions) + 1] = row
    BY <2>2, <2>3 DEF Ids
  <2> QED
    BY <1>3, <2>2, <2>3, <2>4 DEF Began, Grown
<1> QED
  BY <1>1, <1>2, <1>3 DEF BeginRun

LEMMA JobSavesGrows ==
  ASSUME NEW X, Shelved(X), Tasks, NEW j \in Jobs, JobSaves(j), job[j].source \in Ids
  PROVE  \E row \in SoundVersion(X) : row.job = j /\ versions' = Append(versions, row)
<1> DEFINE source == versions[job[j].source]
<1>1. source.path \in Paths /\ source.flow \in Sound(X)
  BY VersionFlows
<1>2. PICK c \in Improved(source.flow) : Insert(Row(source.path, job[j].number, c, j))
  BY DEF JobSaves
<1>3. c \in Sound(X)
  BY <1>1, <1>2, ImprovedSound
<1>4. job[j].number \in Nat /\ j \in Nat
  BY JobAssumption DEF Tasks, JobRecord
<1>5. Row(source.path, job[j].number, c, j) \in SoundVersion(X)
  BY <1>1, <1>3, <1>4 DEF Row, SoundVersion
<1> QED
  BY <1>2, <1>5 DEF Insert, Row

\* A job that has been asked for is about a version.
Sourced == \A j \in Jobs :
  /\ job[j].status = "none" => job[j].task = "none"
  /\ job[j].status # "none" => job[j].source \in Ids

\* Every step leaves the shelf in order and only adds versions: a request, a
\* run or a restart in nobody's name, a job in its own.
LEMMA NextShelf ==
  ASSUME NEW X, Shelved(X), Licensed(X), Tasks, Sourced, Next
  PROVE  /\ Shelved(X)'
         /\ Grown(X, {Nobody}) \/ \E j \in Jobs : JobSaves(j) /\ Grown(X, {j})
<1>a. Shelved(X)
  OBVIOUS
<1>1. CASE Editing
  <2>1. Edits(X)
    BY <1>1, <1>a, EditingEdits
  <2> QED
    BY <1>a, <2>1, RewrittenShelf, GrownShelf DEF Edits, Shelved
<1>2. CASE Running
  <2>1. ASSUME NEW r \in Runs, EndRun(r)
        PROVE  Shelved(X)' /\ Grown(X, {Nobody})
    BY <1>a, <2>1 DEF EndRun, shelf, Shelved, Grown
  <2>2. ASSUME NEW r \in Runs, NEW p \in Paths, BeginRun(r, p)
        PROVE  Shelved(X)' /\ Grown(X, {Nobody})
    <3>1. Grown(X, {Nobody})
      BY <1>a, <2>2, BeginRunGrows
    <3>2. versions' \in Seq(SoundVersion(X))
      BY <1>a, <3>1, GrownShelf
    <3> QED
      BY <1>a, <2>2, <3>1, <3>2 DEF BeginRun, Shelved
  <2> QED
    BY <1>2, <2>1, <2>2 DEF Running
<1>3. CASE Improving
  <2>1. PICK j \in Jobs :
          \/ \E v \in Ids : AskJob(j, v)
          \/ JobStarts(j) \/ JobFails(j) \/ JobAnswered(j)
          \/ JobSaves(j) \/ JobReports(j) \/ JobCompletes(j) \/ JobLocked(j)
    BY <1>3 DEF Improving
  <2>2. CASE JobSaves(j)
    <3>1. job[j].status # "none"
      BY <2>2 DEF Sourced, JobSaves
    <3>2. PICK row \in SoundVersion(X) : row.job = j /\ versions' = Append(versions, row)
      BY <2>2, <3>1, JobSavesGrows DEF Sourced
    <3>3. Grown(X, {j})
      BY <3>2 DEF Grown
    <3>4. versions' \in Seq(SoundVersion(X))
      BY <1>a, <3>3, GrownShelf
    <3> QED
      BY <1>a, <2>2, <3>3, <3>4 DEF JobSaves, JobGoes, Shelved
  <2>3. CASE ~JobSaves(j)
    <3>1. UNCHANGED <<shelf, families>>
      BY <2>1, <2>3 DEF AskJob, JobStarts, JobFails, JobAnswered, JobReports, JobCompletes,
                        JobLocked, JobGoes, shelf
    <3> QED
      BY <1>a, <3>1 DEF shelf, Shelved, Grown
  <2> QED
    BY <2>2, <2>3
<1>4. CASE Crashing
  <2>1. PICK torn \in {{}} \cup {{p} : p \in Paths} : Restart(torn)
    BY <1>4 DEF Crashing
  <2> DEFINE left == [p \in Paths |-> IF p \in torn THEN Torn ELSE file[p]]
  <2>2. left \in [Paths -> Contents(X)]
    BY <1>a DEF Shelved, Contents
  <2>3. Seeded(left)
    BY <2>1 DEF Restart
  <2>4. file' \in [Paths -> Contents(X)] /\ families' \in Nat
    <3>1. CASE left[Seed] = Absent
      <4>1. PICK t \in Texts : file' = [left EXCEPT ![Seed] = NewFlow(families + 1, FALSE, t)]
        BY <2>3, <3>1 DEF Seeded
      <4>2. NewFlow(families + 1, FALSE, t) \in Contents(X)
        BY <1>a, NewFlowSound DEF Contents, Shelved
      <4>3. families' \in Nat
        BY <1>a, <2>3, <3>1, MintedNat DEF Seeded
      <4> HIDE DEF left
      <4> QED
        BY <2>2, <4>1, <4>2, <4>3
    <3>2. CASE left[Seed] # Absent
      BY <1>a, <2>2, <2>3, <3>2 DEF Seeded, Shelved
    <3> QED
      BY <3>1, <3>2
  <2> QED
    BY <1>a, <2>1, <2>4 DEF Restart, Shelved, Grown
<1> QED
  BY <1>1, <1>2, <1>3, <1>4 DEF Next

\* No version changes or is lost.
LEMMA GrownKeeps ==
  ASSUME NEW X, Shelved(X), NEW makers, Grown(X, makers)
  PROVE  /\ Ids \subseteq Ids'
         /\ \A v \in Ids : versions'[v] = versions[v]
         /\ \A v \in Ids' : v \in Ids \/ versions'[v].job \in makers
<1>1. versions \in Seq(SoundVersion(X))
  BY DEF Shelved
<1>2. CASE versions' = versions
  BY <1>2 DEF Ids
<1>3. CASE \E row \in SoundVersion(X) : row.job \in makers /\ versions' = Append(versions, row)
  <2>1. PICK row \in SoundVersion(X) : row.job \in makers /\ versions' = Append(versions, row)
    BY <1>3
  <2>2. /\ DOMAIN versions = 1 .. Len(versions) /\ Len(versions) \in Nat
        /\ DOMAIN versions' = 1 .. Len(versions) + 1
        /\ \A v \in 1 .. Len(versions) : versions'[v] = versions[v]
        /\ versions'[Len(versions) + 1] = row
    BY <1>1, <2>1
  <2> QED
    BY <2>1, <2>2 DEF Ids
<1> QED
  BY <1>2, <1>3 DEF Grown

-----------------------------------------------------------------------------
(* Jobs.                                                                   *)

\* What becomes of job j; the others stay what they are.
OnlyJob(j, row) ==
  /\ job' \in [Jobs -> JobRecord]
  /\ job'[j] = row
  /\ \A i \in Jobs : i # j => job'[i] = job[i]

Moved(j, status, task) ==
  [status |-> status, source |-> job[j].source, task |-> task, number |-> job[j].number]

\* What the updates of a job make of its row.
LEMMA SetStatusTask ==
  ASSUME NEW r \in JobRecord, NEW t \in Task,
         NEW s \in Statuses
  PROVE  /\ [r EXCEPT !.task = t] =
              [status |-> r.status, source |-> r.source, task |-> t, number |-> r.number]
         /\ [r EXCEPT !.status = s, !.task = t] =
              [status |-> s, source |-> r.source, task |-> t, number |-> r.number]
<1> DEFINE once == [r EXCEPT !.status = s]
<1>1. once \in JobRecord
  BY DEF JobRecord
<1>2. once.source = r.source /\ once.number = r.number /\ once.status = s
  BY DEF JobRecord
<1> HIDE DEF once
<1>3. \A x \in JobRecord : [x EXCEPT !.task = t] =
        [status |-> x.status, source |-> x.source, task |-> t, number |-> x.number]
  BY DEF JobRecord
<1>4. [once EXCEPT !.task = t] = [status |-> s, source |-> r.source, task |-> t, number |-> r.number]
  BY <1>1, <1>2, <1>3
<1>5. [r EXCEPT !.status = s, !.task = t] = [once EXCEPT !.task = t]
  BY DEF once
<1> QED
  BY <1>3, <1>4, <1>5

LEMMA SetTaskNumber ==
  ASSUME NEW r \in JobRecord, NEW t \in Task, NEW n \in Nat
  PROVE  [r EXCEPT !.task = t, !.number = n] =
           [status |-> r.status, source |-> r.source, task |-> t, number |-> n]
<1> DEFINE once == [r EXCEPT !.task = t]
<1>1. once \in JobRecord
  BY DEF JobRecord
<1>2. once.source = r.source /\ once.task = t /\ once.status = r.status
  BY DEF JobRecord
<1> HIDE DEF once
<1>3. \A x \in JobRecord : [x EXCEPT !.number = n] =
        [status |-> x.status, source |-> x.source, task |-> x.task, number |-> n]
  BY DEF JobRecord
<1>4. [once EXCEPT !.number = n] = [status |-> r.status, source |-> r.source, task |-> t, number |-> n]
  BY <1>1, <1>2, <1>3
<1>5. [r EXCEPT !.task = t, !.number = n] = [once EXCEPT !.number = n]
  BY DEF once
<1> QED
  BY <1>4, <1>5
LEMMA OnlyJobSet ==
  ASSUME Typed, NEW j \in Jobs, NEW row \in JobRecord, job' = [job EXCEPT ![j] = row]
  PROVE  OnlyJob(j, row)
BY DEF Typed, Tasks, OnlyJob

LEMMA JobTypes ==
  ASSUME Typed, NEW j \in Jobs
  PROVE  /\ job[j] \in JobRecord
         /\ job[j].source \in Nat /\ job[j].number \in Nat /\ job[j].task \in Task
         /\ job[j].status \in Statuses
         /\ job[j] = [status |-> job[j].status, source |-> job[j].source,
                      task |-> job[j].task, number |-> job[j].number]
<1>1. job[j] \in JobRecord
  BY DEF Typed, Tasks
<1> QED
  BY <1>1 DEF JobRecord

LEMMA JobGoesMoves ==
  ASSUME Typed, NEW j \in Jobs,
         NEW to \in Statuses,
         NEW what \in Task, JobGoes(j, to, what)
  PROVE  OnlyJob(j, Moved(j, to, what))
<1>1. Moved(j, to, what) \in JobRecord
  BY JobTypes DEF Moved, JobRecord
<1>2. job' = [job EXCEPT ![j] = [job[j] EXCEPT !.status = to, !.task = what]]
  BY DEF JobGoes, Typed, Tasks
<1>3. [job[j] EXCEPT !.status = to, !.task = what] = Moved(j, to, what)
  <2>1. job[j] \in JobRecord
    BY JobTypes
  <2>2. [job[j] EXCEPT !.status = to, !.task = what] =
          [status |-> to, source |-> job[j].source, task |-> what, number |-> job[j].number]
    <3> DEFINE once == [job[j] EXCEPT !.status = to]
    <3>1. once \in JobRecord
      BY <2>1 DEF JobRecord
    <3>2. once.source = job[j].source /\ once.number = job[j].number /\ once.status = to
      BY <2>1 DEF JobRecord
    <3>3. [job[j] EXCEPT !.status = to, !.task = what] = [once EXCEPT !.task = what]
      OBVIOUS
    <3> HIDE DEF once
    <3>4. [once EXCEPT !.task = what] =
            [status |-> once.status, source |-> once.source, task |-> what, number |-> once.number]
      BY <3>1, SetStatusTask
    <3> QED
      BY <3>2, <3>3, <3>4
  <2> QED
    BY <2>2 DEF Moved
<1> QED
  BY <1>1, <1>2, <1>3, OnlyJobSet

LEMMA AskJobMoves ==
  ASSUME Typed, NEW j \in Jobs, NEW v \in Ids, AskJob(j, v)
  PROVE  OnlyJob(j, [status |-> "queued", source |-> v, task |-> "spawned", number |-> 0])
<1>1. v \in Nat
  BY VersionFlows DEF Typed
<1>2. [status |-> "queued", source |-> v, task |-> "spawned", number |-> 0] \in JobRecord
  BY <1>1 DEF JobRecord, Task, Statuses
<1> QED
  BY <1>2, OnlyJobSet DEF AskJob

LEMMA JobAnsweredMoves ==
  ASSUME Typed, Sourced, NEW j \in Jobs, JobAnswered(j)
  PROVE  /\ OnlyJob(j, job'[j])
         /\ job'[j].status = job[j].status /\ job'[j].task = "numbered"
         /\ job'[j].source = job[j].source
<1> DEFINE n == NextNumber(versions[job[j].source].path)
<1>1. job[j].source \in Ids
  BY DEF Sourced, JobAnswered
<1>2. n \in Nat
  BY <1>1, VersionFlows, NextNumberNat DEF Typed
<1> DEFINE row == [status |-> job[j].status, source |-> job[j].source,
                   task |-> "numbered", number |-> n]
<1>3. row \in JobRecord
  BY <1>2, JobTypes DEF JobRecord, Task, Statuses
<1>4. job' = [job EXCEPT ![j] = [job[j] EXCEPT !.task = "numbered", !.number = n]]
  BY DEF JobAnswered, Typed, Tasks
<1> HIDE DEF n
<1>5. [job[j] EXCEPT !.task = "numbered", !.number = n] = row
  BY <1>2, JobTypes, SetTaskNumber DEF Task
<1>6. OnlyJob(j, row)
  BY <1>3, <1>4, <1>5, OnlyJobSet
<1> QED
  BY <1>6 DEF OnlyJob

LEMMA JobLockedMoves ==
  ASSUME Typed, NEW j \in Jobs, JobLocked(j)
  PROVE  OnlyJob(j, Moved(j, job[j].status, "none"))
<1>1. Moved(j, job[j].status, "none") \in JobRecord
  BY JobTypes DEF Moved, JobRecord, Task, Statuses
<1>2. job' = [job EXCEPT ![j] = [job[j] EXCEPT !.task = "none"]]
  BY DEF JobLocked, Typed, Tasks
<1>3. [job[j] EXCEPT !.task = "none"] = Moved(j, job[j].status, "none")
  BY JobTypes, SetStatusTask DEF Moved, Task, Statuses
<1> QED
  BY <1>1, <1>2, <1>3, OnlyJobSet

LEMMA RestartMoves ==
  ASSUME Typed, NEW torn, Restart(torn)
  PROVE  /\ job' \in [Jobs -> JobRecord]
         /\ \A j \in Jobs :
              job'[j] = CASE job[j].status = "running" -> Moved(j, "failed", "none")
                          [] job[j].status = "queued"  -> Moved(j, "queued", "spawned")
                          [] OTHER -> job[j]
<1>1. ASSUME NEW j \in Jobs, job[j].status = "running"
      PROVE  Resumed(j) = Moved(j, "failed", "none")
  <2>1. Resumed(j) = [job[j] EXCEPT !.status = "failed", !.task = "none"]
    BY <1>1 DEF Resumed
  <2> QED
    BY <2>1, JobTypes, SetStatusTask DEF Moved, Task, Statuses
<1>2. ASSUME NEW j \in Jobs, job[j].status = "queued"
      PROVE  Resumed(j) = Moved(j, "queued", "spawned")
  <2>1. Resumed(j) = [job[j] EXCEPT !.task = "spawned"]
    BY <1>2 DEF Resumed
  <2> QED
    BY <1>2, <2>1, JobTypes, SetStatusTask DEF Moved, Task, Statuses
<1>3. ASSUME NEW j \in Jobs, job[j].status \notin {"running", "queued"}
      PROVE  Resumed(j) = job[j]
  BY <1>3 DEF Resumed
<1>4. \A j \in Jobs : Moved(j, "failed", "none") \in JobRecord
                        /\ Moved(j, "queued", "spawned") \in JobRecord /\ job[j] \in JobRecord
  BY JobTypes DEF Moved, JobRecord, Task, Statuses
<1>5. job' = [j \in Jobs |-> Resumed(j)]
  BY DEF Restart
<1>6. ASSUME NEW j \in Jobs
      PROVE  /\ job'[j] = CASE job[j].status = "running" -> Moved(j, "failed", "none")
                            [] job[j].status = "queued"  -> Moved(j, "queued", "spawned")
                            [] OTHER -> job[j]
             /\ job'[j] \in JobRecord
  <2>1. job'[j] = Resumed(j)
    BY <1>5
  <2>2. CASE job[j].status = "running"
    BY <1>1, <1>4, <2>1, <2>2
  <2>3. CASE job[j].status = "queued"
    BY <1>2, <1>4, <2>1, <2>3
  <2>4. CASE job[j].status \notin {"running", "queued"}
    BY <1>3, <1>4, <2>1, <2>4
  <2> QED
    BY <2>2, <2>3, <2>4
<1> QED
  BY <1>5, <1>6

-----------------------------------------------------------------------------
(* What a job has made at each stage.                                      *)

Stage(j) ==
  /\ job[j].task = "spawned" => job[j].status = "queued"
  /\ job[j].task \in {"asking", "numbered", "reporting", "closing"} => job[j].status = "running"
  /\ job[j].status \in {"none", "queued"} \/ job[j].task \in {"asking", "numbered"} =>
       \A v \in Ids : versions[v].job # j
  /\ job[j].status \in {"none", "queued"} \/ job[j].task \in {"asking", "numbered", "reporting"} =>
       \A x \in reports : x.job # j
  /\ job[j].task = "closing" \/ job[j].status = "completed" => \E x \in reports : x.job = j
  /\ \A v, w \in Ids : versions[v].job = j /\ versions[w].job = j => v = w
  /\ \A x, y \in reports : x.job = j /\ y.job = j => x = y
  /\ \A x \in reports : x.job = j => x.version \in Ids /\ versions[x.version].job = j

\* A running run has a version, and it is one of the flow's.
Pinned == \A r \in Runs :
  run[r].status = "running" => run[r].version \in Ids /\ versions[run[r].version].path = run[r].path

IInv == Typed /\ Sourced /\ Pinned /\ \A j \in Jobs : Stage(j)

\* Nothing that concerns a job: it stays at its stage.
LEMMA StageStays ==
  ASSUME Typed, NEW j \in Jobs, Stage(j), NEW makers, Grown(Nat, makers), j \notin makers,
         job'[j] = job[j], \A x : x.job = j => (x \in reports' <=> x \in reports)
  PROVE  Stage(j)'
<1>1. /\ Ids \subseteq Ids'
      /\ \A v \in Ids : versions'[v] = versions[v]
      /\ \A v \in Ids' : v \in Ids \/ versions'[v].job \in makers
  BY GrownKeeps DEF Typed
<1>2. \A v \in Ids' : versions'[v].job = j => v \in Ids /\ versions[v].job = j
  BY <1>1
<1>3. \A v \in Ids : versions[v].job = j => v \in Ids' /\ versions'[v].job = j
  BY <1>1
<1> QED
  BY <1>2, <1>3 DEF Stage

\* A run, a request or a restart adds nothing in the name of a job.
LEMMA PinnedStays ==
  ASSUME Typed, Pinned, NEW makers, Grown(Nat, makers), UNCHANGED run
  PROVE  Pinned'
BY GrownKeeps DEF Pinned, Typed

LEMMA SourcedStays ==
  ASSUME Typed, Sourced, NEW makers, Grown(Nat, makers), UNCHANGED job
  PROVE  Sourced'
BY GrownKeeps DEF Sourced, Typed

LEMMA EditingKeeps ==
  ASSUME IInv, Editing
  PROVE  Tasks' /\ Sourced' /\ Pinned' /\ \A j \in Jobs : Stage(j)'
<1>1. Edits(Nat)
  BY EditingEdits DEF IInv, Typed, Licensed
<1>2. Grown(Nat, {Nobody}) /\ UNCHANGED <<run, job, reports>>
  BY <1>1 DEF Edits
<1>3. \A j \in Jobs : j \notin {Nobody}
  BY JobAssumption DEF Nobody
<1>4. Sourced' /\ Pinned'
  BY <1>2, SourcedStays, PinnedStays DEF IInv
<1>5. \A j \in Jobs : Stage(j)'
  BY <1>2, <1>3, StageStays DEF IInv
<1>6. requests' \in 0 .. MaxRequests /\ faults' \in 0 .. MaxFaults
  <2>1. Asked \/ UNCHANGED <<requests, faults>>
    BY DEF Editing, Put, Import, Create, CreateDesk, ApplyTemplate, Delete, AskVersion, Duplicate,
           FromTemplate, MoveWrites, MoveDeletes, SaveVersion, ApplyVersion
  <2> QED
    BY <2>1, BoundAssumption DEF Asked, IInv, Typed, Tasks
<1> QED
  BY <1>2, <1>4, <1>5, <1>6 DEF IInv, Typed, Tasks

LEMMA RunningKeeps ==
  ASSUME IInv, Running
  PROVE  Tasks' /\ Sourced' /\ Pinned' /\ \A j \in Jobs : Stage(j)'
<1>a. Typed /\ Sourced /\ Pinned /\ Tasks
  BY DEF IInv, Typed
<1>b. \A j \in Jobs : j \notin {Nobody}
  BY JobAssumption DEF Nobody
<1>1. ASSUME NEW r \in Runs, EndRun(r)
      PROVE  Grown(Nat, {Nobody}) /\ Pinned' /\ Tasks' /\ UNCHANGED <<job, reports>>
  <2>1. Grown(Nat, {Nobody}) /\ UNCHANGED <<job, reports, versions, requests, faults>>
    BY <1>1 DEF EndRun, shelf, Grown
  <2>2. run' = [run EXCEPT ![r].status = "ended"]
    BY <1>1 DEF EndRun
  <2>3. /\ run' \in [Runs -> [status : {"none", "running", "ended"}, path : Paths, version : Nat]]
        /\ \A q \in Runs : run'[q].status = "running" => run'[q] = run[q]
    BY <1>a, <2>2 DEF Tasks
  <2>4. Pinned'
    BY <1>a, <2>1, <2>3 DEF Pinned, Ids
  <2> QED
    BY <1>a, <2>1, <2>3, <2>4 DEF Tasks
<1>2. ASSUME NEW r \in Runs, NEW p \in Paths, BeginRun(r, p)
      PROVE  Grown(Nat, {Nobody}) /\ Pinned' /\ Tasks' /\ UNCHANGED <<job, reports>>
  <2>1. Grown(Nat, {Nobody}) /\ Shelved(Nat)'
    BY <1>a, <1>2, BeginRunGrows, NextShelf DEF Typed, Licensed, Next, Running
  <2>2. PICK v \in Ids' : /\ run' = [run EXCEPT ![r] =
                                       [status |-> "running", path |-> p, version |-> v]]
                          /\ versions'[v].path = p
    BY <1>a, <1>2, BeginRunGrows DEF Typed
  <2>3. Ids' \subseteq Nat
    BY <2>1 DEF Shelved, Ids
  <2>4. /\ run' \in [Runs -> [status : {"none", "running", "ended"}, path : Paths, version : Nat]]
        /\ run'[r] = [status |-> "running", path |-> p, version |-> v]
        /\ \A q \in Runs : q # r => run'[q] = run[q]
    BY <1>a, <2>2, <2>3 DEF Tasks
  <2>5. /\ Ids \subseteq Ids'
        /\ \A w \in Ids : versions'[w] = versions[w]
    BY <1>a, <2>1, GrownKeeps DEF Typed
  <2>6. Pinned'
    BY <1>a, <2>2, <2>4, <2>5 DEF Pinned
  <2> QED
    BY <1>a, <1>2, <2>1, <2>4, <2>6 DEF BeginRun, Tasks
<1>3. Grown(Nat, {Nobody}) /\ Pinned' /\ Tasks' /\ UNCHANGED <<job, reports>>
  BY <1>1, <1>2 DEF Running
<1>4. Sourced'
  BY <1>a, <1>3, SourcedStays
<1>5. \A j \in Jobs : Stage(j)'
  BY <1>b, <1>3, StageStays DEF IInv
<1> QED
  BY <1>3, <1>4, <1>5

\* A step of job j keeps its source, except the one that asks for it.
LEMMA SourcedMoves ==
  ASSUME Typed, Sourced, NEW j \in Jobs, NEW row, OnlyJob(j, row), NEW makers, Grown(Nat, makers),
         row.status = "none" => row.task = "none",
         row.status # "none" => row.source \in Ids
  PROVE  Sourced'
<1>1. Ids \subseteq Ids'
  BY GrownKeeps DEF Typed
<1> QED
  BY <1>1 DEF Sourced, OnlyJob

\* A step of job j leaves the others at their stages.
LEMMA OthersStay ==
  ASSUME Typed, NEW j \in Jobs, NEW row, OnlyJob(j, row), Grown(Nat, {j}) \/ UNCHANGED versions,
         NEW i \in Jobs, i # j, Stage(i), \A x : x.job = i => (x \in reports' <=> x \in reports)
  PROVE  Stage(i)'
<1>1. Grown(Nat, {j}) /\ i \notin {j} /\ job'[i] = job[i]
  BY DEF Grown, OnlyJob
<1> QED
  BY <1>1, StageStays

\* A job that has moved on and made nothing.
LEMMA StageMoves ==
  ASSUME NEW j \in Jobs, Stage(j), UNCHANGED <<versions, reports>>, NEW row, OnlyJob(j, row),
         row.task = "spawned" => row.status = "queued",
         row.task \in {"asking", "numbered", "reporting", "closing"} => row.status = "running",
         row.status \in {"none", "queued"} \/ row.task \in {"asking", "numbered"} =>
           job[j].status \in {"none", "queued"} \/ job[j].task \in {"asking", "numbered"},
         row.task = "reporting" => job[j].task = "reporting",
         row.task = "closing" \/ row.status = "completed" =>
           job[j].task = "closing" \/ job[j].status = "completed"
  PROVE  Stage(j)'
<1>1. /\ job'[j] = row /\ Ids' = Ids /\ versions' = versions /\ reports' = reports
  BY DEF OnlyJob, Ids
<1> QED
  BY <1>1 DEF Stage

LEMMA ImprovingKeeps ==
  ASSUME IInv, Improving
  PROVE  Tasks' /\ Sourced' /\ Pinned' /\ \A j \in Jobs : Stage(j)'
<1>a. Typed /\ Sourced /\ Pinned /\ Tasks
  BY DEF IInv, Typed
<1>b. PICK j \in Jobs :
        \/ \E v \in Ids : AskJob(j, v)
        \/ JobStarts(j) \/ JobFails(j) \/ JobAnswered(j)
        \/ JobSaves(j) \/ JobReports(j) \/ JobCompletes(j) \/ JobLocked(j)
  BY DEF Improving
<1>c. Stage(j) /\ \A i \in Jobs : Stage(i)
  BY DEF IInv
<1>d. /\ job[j].status = "none" => job[j].task = "none"
      /\ job[j].status # "none" => job[j].source \in Ids
  BY <1>a DEF Sourced
<1>e. /\ UNCHANGED run
      /\ requests' \in 0 .. MaxRequests /\ faults' \in 0 .. MaxFaults
  BY <1>a, <1>b, BoundAssumption DEF AskJob, JobStarts, JobFails, JobAnswered, JobSaves, JobReports,
                                     JobCompletes, JobLocked, JobGoes, Tasks
\* It suffices to follow job j.
<1>f. ASSUME NEW row, OnlyJob(j, row), Grown(Nat, {j}) \/ UNCHANGED versions,
             row.status = "none" => row.task = "none",
             row.status # "none" => row.source \in Ids,
             reports' \subseteq [job : Jobs, version : Nat],
             \A i \in Jobs : i # j => \A x : x.job = i => (x \in reports' <=> x \in reports),
             Stage(j)'
      PROVE  Tasks' /\ Sourced' /\ Pinned' /\ \A i \in Jobs : Stage(i)'
  <2>1. Grown(Nat, {j})
    BY <1>f DEF Grown
  <2>2. Sourced'
    BY <1>a, <1>f, <2>1, SourcedMoves
  <2>3. Pinned'
    BY <1>a, <1>e, <2>1, PinnedStays
  <2>4. \A i \in Jobs : Stage(i)'
    BY <1>a, <1>c, <1>f, OthersStay
  <2>5. Tasks'
    BY <1>a, <1>e, <1>f DEF Tasks, OnlyJob
  <2> QED
    BY <2>2, <2>3, <2>4, <2>5
\* ... and, if it makes nothing, only its row.
<1>g. ASSUME NEW row, OnlyJob(j, row), UNCHANGED <<versions, reports>>,
             row.status = "none" => row.task = "none",
             row.status # "none" => row.source \in Ids,
             Stage(j)'
      PROVE  Tasks' /\ Sourced' /\ Pinned' /\ \A i \in Jobs : Stage(i)'
  <2>1. reports' \subseteq [job : Jobs, version : Nat]
    BY <1>a, <1>g DEF Tasks
  <2> QED
    BY <1>f, <1>g, <2>1
<1>1. ASSUME NEW v \in Ids, AskJob(j, v)
      PROVE  Tasks' /\ Sourced' /\ Pinned' /\ \A i \in Jobs : Stage(i)'
  <2> DEFINE row == [status |-> "queued", source |-> v, task |-> "spawned", number |-> 0]
  <2>1. OnlyJob(j, row) /\ UNCHANGED <<versions, reports>> /\ job[j].status = "none"
    BY <1>a, <1>1, AskJobMoves DEF AskJob, shelf
  <2>2. Stage(j)'
    BY <1>c, <2>1, StageMoves
  <2> QED
    BY <1>g, <2>1, <2>2
<1>2. ASSUME NEW to \in Statuses, NEW what \in Task, JobGoes(j, to, what),
             UNCHANGED <<versions, reports>>,
             \/ JobStarts(j) /\ <<to, what>> \in {<<"running", "asking">>, <<"failed", "none">>}
             \/ JobFails(j) /\ to = "failed" /\ what = "none"
             \/ JobCompletes(j) /\ to = "completed" /\ what = "none"
      PROVE  Tasks' /\ Sourced' /\ Pinned' /\ \A i \in Jobs : Stage(i)'
  <2> DEFINE row == Moved(j, to, what)
  <2>1. OnlyJob(j, row)
    BY <1>a, <1>2, JobGoesMoves
  <2>2. row.status = to /\ row.task = what /\ row.source = job[j].source
    BY DEF Moved
  <2>3. job[j].task \in {"spawned", "asking", "closing"}
    BY <1>2 DEF JobStarts, JobFails, JobCompletes
  <2>4. job[j].source \in Ids
    BY <1>d, <2>3
  <2>5. Stage(j)'
    <3>1. CASE JobStarts(j) /\ to = "running" /\ what = "asking"
      <4>1. job[j].task = "spawned" /\ job[j].status = "queued"
        BY <1>c, <3>1 DEF JobStarts, Stage
      <4> QED
        BY <1>2, <1>c, <2>1, <2>2, <3>1, <4>1, StageMoves
    <3>2. CASE to = "failed" /\ what = "none"
      BY <1>2, <1>c, <2>1, <2>2, <3>2, StageMoves
    <3>3. CASE JobCompletes(j) /\ to = "completed" /\ what = "none"
      BY <1>2, <1>c, <2>1, <2>2, <3>3, StageMoves DEF JobCompletes
    <3> QED
      BY <1>2, <3>1, <3>2, <3>3
  <2>6. row.status # "none"
    BY <1>2, <2>2
  <2> HIDE DEF row
  <2> QED
    BY <1>g, <1>2, <2>1, <2>2, <2>4, <2>5, <2>6
<1>3. ASSUME JobAnswered(j)
      PROVE  Tasks' /\ Sourced' /\ Pinned' /\ \A i \in Jobs : Stage(i)'
  <2> DEFINE row == job'[j]
  <2>1. /\ OnlyJob(j, row) /\ UNCHANGED <<versions, reports>>
        /\ row.status = job[j].status /\ row.task = "numbered" /\ row.source = job[j].source
        /\ job[j].task = "asking"
    BY <1>a, <1>3, JobAnsweredMoves DEF JobAnswered, shelf
  <2>2. job[j].status = "running"
    BY <1>c, <2>1 DEF Stage
  <2>3. Stage(j)'
    BY <1>c, <2>1, <2>2, StageMoves
  <2> QED
    BY <1>g, <1>d, <2>1, <2>2, <2>3
<1>4. ASSUME JobLocked(j)
      PROVE  Tasks' /\ Sourced' /\ Pinned' /\ \A i \in Jobs : Stage(i)'
  <2> DEFINE row == Moved(j, job[j].status, "none")
  <2>1. OnlyJob(j, row) /\ UNCHANGED <<versions, reports>>
    BY <1>a, <1>4, JobLockedMoves DEF JobLocked, shelf
  <2>2. row.status = job[j].status /\ row.task = "none" /\ row.source = job[j].source
    BY DEF Moved
  <2> HIDE DEF row
  <2>3. Stage(j)'
    BY <1>c, <2>1, <2>2, StageMoves
  <2> QED
    BY <1>g, <1>d, <2>1, <2>2, <2>3
<1>5. ASSUME JobSaves(j)
      PROVE  Tasks' /\ Sourced' /\ Pinned' /\ \A i \in Jobs : Stage(i)'
  <2> DEFINE to == Moved(j, "running", "reporting")
  <2>1. OnlyJob(j, to) /\ UNCHANGED reports /\ job[j].task = "numbered"
    BY <1>a, <1>5, JobGoesMoves DEF JobSaves, Task, Statuses
  <2>2. to.status = "running" /\ to.task = "reporting" /\ to.source = job[j].source
    BY DEF Moved
  <2>3. job[j].status = "running" /\ job[j].source \in Ids
    BY <1>c, <1>d, <2>1 DEF Stage
  <2>4. PICK row \in SoundVersion(Nat) : row.job = j /\ versions' = Append(versions, row)
    BY <1>a, <1>5, <2>3, JobSavesGrows DEF Typed
  <2>5. Grown(Nat, {j})
    BY <2>4 DEF Grown
  <2>6. /\ Ids \subseteq Ids'
        /\ \A v \in Ids : versions'[v] = versions[v]
        /\ \A v \in Ids' : v \in Ids \/ v = Len(versions) + 1
    <3>1. versions \in Seq(SoundVersion(Nat))
      BY <1>a DEF Typed, Shelved
    <3> QED
      BY <2>4, <3>1 DEF Ids
  <2>7. /\ \A v \in Ids : versions[v].job # j
        /\ \A x \in reports : x.job # j
    BY <1>c, <2>1 DEF Stage
  <2>8. \A v, w \in Ids' : versions'[v].job = j /\ versions'[w].job = j => v = w
    BY <2>6, <2>7
  <2> HIDE DEF to
  <2>9. job'[j].status = "running" /\ job'[j].task = "reporting" /\ reports' = reports
    BY <2>1, <2>2 DEF OnlyJob
  <2>10. Stage(j)'
    BY <2>7, <2>8, <2>9 DEF Stage
  <2>11. reports' \subseteq [job : Jobs, version : Nat]
    BY <1>a, <2>9 DEF Tasks
  <2> QED
    BY <1>f, <2>1, <2>2, <2>3, <2>5, <2>10, <2>11
<1>6. ASSUME JobReports(j)
      PROVE  Tasks' /\ Sourced' /\ Pinned' /\ \A i \in Jobs : Stage(i)'
  <2> DEFINE to == Moved(j, "running", "closing")
  <2>1. OnlyJob(j, to) /\ UNCHANGED versions /\ job[j].task = "reporting"
    BY <1>a, <1>6, JobGoesMoves DEF JobReports, Task, Statuses, shelf
  <2>2. to.status = "running" /\ to.task = "closing" /\ to.source = job[j].source
    BY DEF Moved
  <2>3. job[j].status = "running" /\ job[j].source \in Ids
    BY <1>c, <1>d, <2>1 DEF Stage
  <2>4. PICK v \in Ids : versions[v].job = j /\ reports' = reports \cup {[job |-> j, version |-> v]}
    BY <1>6 DEF JobReports
  <2> DEFINE x == [job |-> j, version |-> v]
  <2>5. x.job = j /\ x.version = v /\ x \in [job : Jobs, version : Nat]
    BY <1>a, VersionFlows DEF Typed
  <2>6. reports' = reports \cup {x}
    BY <2>4
  <2> HIDE DEF x, to
  <2>7. \A y \in reports : y.job # j
    BY <1>c, <2>1 DEF Stage
  <2>8. job'[j].status = "running" /\ job'[j].task = "closing" /\ Ids' = Ids /\ versions' = versions
    BY <2>1, <2>2 DEF OnlyJob, Ids
  <2>9. Stage(j)'
    BY <1>c, <2>4, <2>5, <2>6, <2>7, <2>8 DEF Stage
  <2>10. reports' \subseteq [job : Jobs, version : Nat]
    BY <1>a, <2>5, <2>6 DEF Tasks
  <2>11. \A i \in Jobs : i # j => \A y : y.job = i => (y \in reports' <=> y \in reports)
    BY <2>5, <2>6
  <2> QED
    BY <1>f, <2>1, <2>2, <2>3, <2>9, <2>10, <2>11
<1>7. ASSUME JobStarts(j) \/ JobFails(j) \/ JobCompletes(j)
      PROVE  Tasks' /\ Sourced' /\ Pinned' /\ \A i \in Jobs : Stage(i)'
  <2>1. UNCHANGED <<versions, reports>>
    BY <1>7 DEF JobStarts, JobFails, JobCompletes, shelf
  <2>2. CASE JobStarts(j) /\ JobGoes(j, "running", "asking")
    BY <1>2, <2>1, <2>2 DEF Task, Statuses
  <2>3. CASE JobStarts(j) /\ JobGoes(j, "failed", "none")
    BY <1>2, <2>1, <2>3 DEF Task, Statuses
  <2>4. CASE JobFails(j)
    BY <1>2, <2>1, <2>4 DEF Task, Statuses, JobFails
  <2>5. CASE JobCompletes(j)
    BY <1>2, <2>1, <2>5 DEF Task, Statuses, JobCompletes
  <2> QED
    BY <1>7, <2>2, <2>3, <2>4, <2>5 DEF JobStarts
<1> QED
  BY <1>b, <1>1, <1>3, <1>4, <1>5, <1>6, <1>7

LEMMA RestartKeeps ==
  ASSUME IInv, Crashing
  PROVE  Tasks' /\ Sourced' /\ Pinned' /\ \A j \in Jobs : Stage(j)'
<1>a. Typed /\ Sourced /\ Pinned /\ Tasks /\ \A j \in Jobs : Stage(j)
  BY DEF IInv, Typed
<1>b. PICK torn : Restart(torn)
  BY DEF Crashing
<1>1. /\ job' \in [Jobs -> JobRecord]
      /\ \A j \in Jobs :
           job'[j] = CASE job[j].status = "running" -> Moved(j, "failed", "none")
                       [] job[j].status = "queued"  -> Moved(j, "queued", "spawned")
                       [] OTHER -> job[j]
  BY <1>a, <1>b, RestartMoves
<1>2. UNCHANGED <<versions, run, reports, requests>> /\ faults < MaxFaults /\ faults' = faults + 1
  BY <1>b DEF Restart
<1>3. Tasks'
  BY <1>a, <1>1, <1>2, BoundAssumption DEF Tasks
<1>4. Ids' = Ids
  BY <1>2 DEF Ids
<1>5. ASSUME NEW j \in Jobs
      PROVE  /\ Stage(j)'
             /\ job'[j].status = "none" => job'[j].task = "none"
             /\ job'[j].status # "none" => job'[j].source \in Ids
  <2>0. /\ job[j].status = "none" => job[j].task = "none"
        /\ job[j].status # "none" => job[j].source \in Ids
        /\ Stage(j)
    BY <1>a DEF Sourced
  <2>1. CASE job[j].status = "running"
    <3>1. job'[j].status = "failed" /\ job'[j].task = "none" /\ job'[j].source = job[j].source
      BY <1>1, <2>1 DEF Moved
    <3> QED
      BY <1>2, <1>4, <2>0, <2>1, <3>1 DEF Stage
  <2>2. CASE job[j].status = "queued"
    <3>1. job'[j].status = "queued" /\ job'[j].task = "spawned" /\ job'[j].source = job[j].source
      BY <1>1, <2>2 DEF Moved
    <3> QED
      BY <1>2, <1>4, <2>0, <2>2, <3>1 DEF Stage
  <2>3. CASE job[j].status \notin {"running", "queued"}
    <3>1. job'[j] = job[j]
      BY <1>1, <2>3
    <3> QED
      BY <1>2, <1>4, <2>0, <3>1 DEF Stage
  <2> QED
    BY <2>1, <2>2, <2>3
<1>6. Sourced'
  BY <1>4, <1>5 DEF Sourced
<1>7. Pinned'
  BY <1>a, <1>2, <1>4 DEF Pinned
<1> QED
  BY <1>3, <1>5, <1>6, <1>7

-----------------------------------------------------------------------------
(* The theorems.                                                           *)

LEMMA InitIInv ==
  ASSUME Init
  PROVE  IInv
<1>1. Typed
  BY InitTyped
<1>2. Ids = {} /\ reports = {}
  BY DEF Init, Ids
<1>3. \A j \in Jobs : job[j].status = "none" /\ job[j].task = "none"
  BY DEF Init
<1>4. \A r \in Runs : run[r].status = "none"
  BY DEF Init
<1>5. \A j \in Jobs : Stage(j)
  BY <1>2, <1>3 DEF Stage
<1>6. Sourced /\ Pinned
  BY <1>3, <1>4 DEF Sourced, Pinned
<1> QED
  BY <1>1, <1>5, <1>6 DEF IInv

LEMMA NextIInv ==
  ASSUME IInv, [Next]_vars
  PROVE  IInv'
<1>1. CASE Next
  <2>1. Shelved(Nat)'
    BY <1>1, NextShelf DEF IInv, Typed, Licensed
  <2>2. Tasks' /\ Sourced' /\ Pinned' /\ \A j \in Jobs : Stage(j)'
    BY <1>1, EditingKeeps, RunningKeeps, ImprovingKeeps, RestartKeeps DEF Next
  <2> QED
    BY <2>1, <2>2 DEF IInv, Typed
<1>2. CASE UNCHANGED vars
  BY <1>2 DEF vars, shelf, IInv, Typed, Shelved, Tasks, Sourced, Pinned, Stage, Ids
<1> QED
  BY <1>1, <1>2

LEMMA SpecIInv == Spec => []IInv
<1>1. Init => IInv
  BY InitIInv
<1>2. IInv /\ [Next]_vars => IInv'
  BY NextIInv
<1> QED
  BY <1>1, <1>2, PTL DEF Spec

\* Files, versions, runs, jobs and reports keep their types.
THEOREM TypeCorrect == Spec => []TypeOK
<1>1. IInv => TypeOK
  BY TypedTypes DEF IInv
<1> QED
  BY <1>1, SpecIInv, PTL

\* What is kept is what the shelf says of it, before a step and after it.
LEMMA ShelvedKept ==
  ASSUME NEW X, Shelved(X)
  PROVE  \A c \in Kept : c \in Sound(X)
<1>1. \A p \in Paths : IsFlow(file[p]) => file[p] \in Sound(X)
  BY IsFlowSound DEF Shelved
<1>2. \A v \in Ids : versions[v].flow \in Sound(X)
  BY VersionFlows
<1>3. \A s \in saves : s.flow \in Sound(X)
  BY DEF Shelved, SoundVersion
<1> QED
  BY <1>1, <1>2, <1>3 DEF Kept

LEMMA KeptLater ==
  ASSUME NEW X, Shelved(X)'
  PROVE  \A c \in Kept' : c \in Sound(X)
<1>1. \A p \in Paths : IsFlow(file'[p]) => file'[p] \in Sound(X)
  BY DEF Shelved, Contents, IsFlow
<1>2. \A v \in Ids' : versions'[v].flow \in Sound(X)
  <2>1. versions' \in Seq(SoundVersion(X))
    BY DEF Shelved
  <2>2. \A v \in DOMAIN versions' : versions'[v] \in SoundVersion(X)
    BY <2>1
  <2> QED
    BY <2>2 DEF Ids, SoundVersion
<1>3. \A s \in saves' : s.flow \in Sound(X)
  BY DEF Shelved, SoundVersion
<1> QED
  BY <1>1, <1>2, <1>3 DEF Kept, IsFlow

LEMMA KeptShelved ==
  ASSUME NEW X, Shelved(Nat), \A c \in Kept : c \in Sound(X)
  PROVE  Shelved(X)
<1>1. file \in [Paths -> Contents(X)]
  BY DEF Shelved, Contents, Kept, IsFlow
<1>2. versions \in Seq(SoundVersion(X))
  <2>1. versions \in Seq(SoundVersion(Nat)) /\ Len(versions) \in Nat
        /\ DOMAIN versions = 1 .. Len(versions)
    BY DEF Shelved
  <2>2. \A v \in 1 .. Len(versions) : versions[v] \in SoundVersion(Nat) /\ versions[v].flow \in Kept
    BY <2>1 DEF Kept, Ids
  <2>3. \A v \in 1 .. Len(versions) : versions[v] \in SoundVersion(X)
    BY <2>2 DEF SoundVersion
  <2> QED
    BY <2>1, <2>3
<1>3. saves \subseteq {s \in SoundVersion(X) : s.job = Nobody}
  BY DEF Shelved, Kept, SoundVersion
<1> QED
  BY <1>1, <1>2, <1>3 DEF Shelved

\* Every flow in a file, a version or a request refers to its own steps where
\* the schema looks; where it does not look, only a flow that an operator
\* sends refers to the steps of another for the first time: copying,
\* applying, moving, restoring and improving flows add no such reference.
THEOREM ReferencesInside == Spec => ReferencesStayInside
<1>a. ASSUME IInv
      PROVE  \A c \in Kept : c \in Sound(Nat)
  BY <1>a, ShelvedKept DEF IInv, Typed
<1>1. IInv => \A c \in Kept : Valid(c)
  BY <1>a DEF Sound
<1>2. ASSUME IInv, Next, ~(\E p \in Paths : Put(p))
      PROVE  Strays' \subseteq Strays
  <2>1. PICK X : X = Strays
    OBVIOUS
  <2>2. \A c \in Kept : c \in Sound(X)
    BY <1>2, <1>a, <2>1 DEF Sound, Strays
  <2>3. Shelved(X)
    BY <1>2, <2>2, KeptShelved DEF IInv, Typed
  <2>4. Shelved(X)'
    BY <1>2, <2>3, NextShelf DEF IInv, Typed, Licensed
  <2>5. \A c \in Kept' : c \in Sound(X)
    BY <2>4, KeptLater
  <2>6. Strays' \subseteq X
    BY <2>5 DEF Strays, Sound
  <2> QED
    BY <2>1, <2>6
<1>3. IInv /\ [Next]_vars => [Strays' \subseteq Strays \/ \E p \in Paths : Put(p)]_vars
  BY <1>2
<1> QED
  BY <1>1, <1>3, SpecIInv, PTL DEF Spec, ReferencesStayInside

\* A job makes one version and one report at most, over any number of
\* restarts and failed commits, and a completed one has its report.
THEOREM JobMakesOne == Spec => []OneVersionPerJob
<1>1. ASSUME IInv
      PROVE  OneVersionPerJob
  BY <1>1 DEF IInv, Stage, OneVersionPerJob
<1> QED
  BY <1>1, SpecIInv, PTL

\* A running run executes to its end the flow it has begun with.
THEOREM RunKeepsFlow == Spec => RunKeepsItsFlow
<1>1. ASSUME IInv, Next, NEW r \in Runs, run[r].status = "running", run'[r].status = "running"
      PROVE  Executes(r)' = Executes(r)
  <2>a. Typed /\ Sourced /\ run \in [Runs -> [status : {"none", "running", "ended"},
                                              path : Paths, version : Nat]]
    BY <1>1 DEF IInv, Typed, Tasks
  <2>1. run'[r] = run[r]
    <3>1. CASE Editing
      BY <2>a, <3>1, EditingEdits DEF Edits, Typed, Licensed
    <3>2. CASE Running
      <4>1. ASSUME NEW q \in Runs, EndRun(q)
            PROVE  run'[r] = run[r]
        <5>1. run' = [run EXCEPT ![q].status = "ended"]
          BY <4>1 DEF EndRun
        <5>2. q # r
          BY <1>1, <2>a, <5>1
        <5> QED
          BY <5>1, <5>2, <2>a
      <4>2. ASSUME NEW q \in Runs, NEW p \in Paths, BeginRun(q, p)
            PROVE  run'[r] = run[r]
        <5>1. q # r
          BY <1>1, <4>2 DEF BeginRun
        <5> QED
          BY <2>a, <4>2, <5>1, BeginRunGrows DEF Typed
      <4> QED
        BY <3>2, <4>1, <4>2 DEF Running
    <3>3. CASE Improving
      BY <3>3 DEF Improving, AskJob, JobStarts, JobFails, JobAnswered, JobSaves, JobReports,
                  JobCompletes, JobLocked, JobGoes
    <3>4. CASE Crashing
      BY <3>4 DEF Crashing, Restart
    <3> QED
      BY <1>1, <3>1, <3>2, <3>3, <3>4 DEF Next
  <2>2. PICK makers : Grown(Nat, makers)
    BY <1>1, <2>a, NextShelf DEF Typed, Licensed
  <2>3. Ids \subseteq Ids' /\ \A v \in Ids : versions'[v] = versions[v]
    BY <2>a, <2>2, GrownKeeps DEF Typed
  <2>4. run[r].version \in Ids /\ versions[run[r].version].path = run[r].path
    BY <1>1 DEF IInv, Pinned
  <2>5. Executes(r) = versions[run[r].version].flow
    BY <2>4 DEF Executes, VersionsOf
  <2>6. Executes(r)' = versions'[run'[r].version].flow
    BY <2>1, <2>3, <2>4 DEF Executes, VersionsOf
  <2> QED
    BY <2>1, <2>3, <2>4, <2>5, <2>6
<1>2. IInv /\ [Next]_vars =>
        [\A r \in Runs : run[r].status = "running" /\ run'[r].status = "running"
                           => Executes(r)' = Executes(r)]_vars
  BY <1>1
<1> QED
  BY <1>2, SpecIInv, PTL DEF Spec, RunKeepsItsFlow

=============================================================================
