--------------------------- MODULE PullerDispatch ---------------------------
(***************************************************************************)
(* Who works on what: the tick gives the waiting lines of the shift on air *)
(* to idle pullers (orchestrator/runner.py), desk by desk                  *)
(* (services/shift_dispatch.py, puller_selection.py), and to the reporters *)
(* of their desks (persona_selection.py, personas.py).                     *)
(*                                                                         *)
(* The control plane is external: it may call any pullers idle.  The       *)
(* reservations of the loop are left out: the prune at the start of a tick *)
(* looks for workers named "queue-", there are none, and all are forgotten *)
(* before they are read.  The shift stays on air; FactoryLoop and          *)
(* ShiftScheduler say how it ends.                                         *)
(***************************************************************************)
EXTENDS Naturals, FiniteSets, Sequences

CONSTANTS
  DeskCount,      \* the desks of the shift, in dispatch order
  LineCount,      \* the lines of a desk, by priority
  PullerCount,    \* pullers, by name
  ReporterCount,  \* the personas that reporter pools name, by slug
  Mode,           \* reporter_selection_mode of every desk
  AutoScheduler,  \* auto_scheduler_enabled
  MaxRequests,    \* bound: test runs of desks, and stops of runs
  MaxEdits,       \* bound: changes of personas
  MaxFaults       \* bound: restarts, and commits that find the database locked

ASSUME SizeAssumption ==
  /\ DeskCount \in Nat \ {0} /\ PullerCount \in Nat \ {0}
  /\ {LineCount, ReporterCount, MaxRequests, MaxEdits, MaxFaults} \subseteq Nat
ASSUME ModeAssumption ==
  /\ Mode \in [1..DeskCount -> {"round_robin", "lru"}]
  /\ AutoScheduler \in BOOLEAN

VARIABLES
  lines,     \* the ShiftAssignments of every desk
  approved,  \* the roster needs no review any more
  personas,  \* the Persona rows of the reporter pools
  tests,     \* the pullers of running test runs
  rr,        \* FactoryLoop._shift_rr_index
  tick,      \* where the tick is, and the pullers it has read as in use
  requests, edits, faults,
  turns,     \* the reporters a desk has chosen since its pool changed (history)
  passed,    \* dispatches of other desks while a desk waited (history)
  refused    \* desks whose choice of a reporter raised (history)

vars == <<lines, approved, personas, tests, rr, tick, requests, edits, faults,
          turns, passed, refused>>
history == <<turns, passed, refused>>

Desks == 1..DeskCount
Pullers == 1..PullerCount
Reporters == 1..ReporterCount
Nobody == 0
Places == Desks \X (1..LineCount)   \* the lines, by desk and priority

Line == [status    : {"pending", "running", "ended"},
         suggested : BOOLEAN,                    \* source = "ai_suggested"
         reporter  : Reporters \cup {Nobody},
         worker    : {"none", "spawned", "running", "stopped"},
         puller    : Pullers \cup {Nobody},      \* of the worker
         orphans   : SUBSET Pullers]             \* of runs of an earlier process

TypeOK ==
  /\ lines \in [Desks -> [1..LineCount -> Line]]
  /\ approved \in BOOLEAN
  /\ personas \subseteq Reporters
  /\ tests \subseteq Pullers
  /\ rr \in 0..(DeskCount - 1)
  /\ tick \in [at : {"idle", "checking", "listing"}, inUse : SUBSET Pullers]
  /\ requests \in 0..MaxRequests /\ edits \in 0..MaxEdits /\ faults \in 0..MaxFaults
  /\ turns \in [Desks -> Seq(Reporters)]
  /\ passed \in [Desks -> [Desks -> Nat]]
  /\ refused \subseteq Desks

NeverPassed == [d \in Desks |-> [e \in Desks |-> 0]]
NoTurns == [d \in Desks |-> <<>>]
Resting == [at |-> "idle", inUse |-> {}]

Init ==
  /\ lines \in [Desks -> [1..LineCount ->
       {[status |-> "pending", suggested |-> b, reporter |-> Nobody,
         worker |-> "none", puller |-> Nobody, orphans |-> {}] : b \in BOOLEAN}]]
  /\ approved = FALSE
  /\ personas = Reporters \ {ReporterCount}
  /\ tests = {}
  /\ rr = 0
  /\ tick = Resting
  /\ requests = 0 /\ edits = 0 /\ faults = 0
  /\ turns = NoTurns
  /\ passed = NeverPassed
  /\ refused = {}

-----------------------------------------------------------------------------
(* Selection.                                                              *)

Min(S) == CHOOSE n \in S : \A m \in S : n <= m

\* assignment_is_dispatchable
MayRun(line) == approved \/ ~line.suggested

Pending(d) == {i \in 1..LineCount : lines[d][i].status = "pending"}

\* What one visit of desk d adds to the picks: its first pending line that is
\* not picked yet, and nothing if that one may not run.
Visit(d, picks) ==
  LET open == {i \in Pending(d) : \A k \in DOMAIN picks : picks[k] # <<d, i>>}
  IN  IF open # {} /\ MayRun(lines[d][Min(open)])
      THEN Append(picks, <<d, Min(open)>>) ELSE picks

\* select_pending_assignments_round_robin, visit by visit: the picks so far, and
\* the index of the desk that is next.
Walk(limit) ==
  LET walk[n \in 0..(DeskCount * limit)] ==
        IF n = 0 THEN [picks |-> <<>>, index |-> rr]
        ELSE LET before == walk[n - 1] IN
             IF Len(before.picks) = limit THEN before
             ELSE [picks |-> Visit(before.index + 1, before.picks),
                   index |-> (before.index + 1) % DeskCount]
  IN  walk

Selection(limit) == Walk(limit)[DeskCount * limit]

\* Variant: a line counts when it is done.
UsedWhenDone(rows) ==
  {i \in DOMAIN rows : rows[i].reporter # Nobody /\ rows[i].status = "ended"}

\* _assignments_for_desk_in_shift
Used(rows) ==
  {i \in DOMAIN rows : rows[i].reporter # Nobody /\ rows[i].status \in {"running", "ended"}}

\* The n-th slug of the pool, of those that exist.
PoolMember(n) == CHOOSE r \in personas : Cardinality({q \in personas : q < r}) = n

\* select_reporter_persona_slug compares the times of rows, which SQLite returns
\* without a zone, with a time that has one: that raises.
Raises(d, rows) ==
  Mode[d] = "lru" /\ \E i \in Used(rows) : rows[i].reporter \in personas

Reporter(d, rows) ==
  IF personas = {} THEN Nobody
  ELSE IF Mode[d] = "lru" THEN PoolMember(0)
  ELSE PoolMember(Cardinality(Used(rows)) % Cardinality(personas))

-----------------------------------------------------------------------------
(* The tick.                                                               *)

With(worker) == {x \in Places : lines[x[1]][x[2]].worker = worker}

\* selected_puller of the runs whose row is running: a stopped run's worker may
\* still poll for an answer of its puller, but that one counts as idle.
InUse == tests \cup (UNION {lines[x[1]][x[2]].orphans : x \in Places})
  \cup {lines[x[1]][x[2]].puller : x \in With("running")}

Spawned == With("spawned")

\* With the scheduler on, the tick first awaits the control plane for T-15 and
\* the boundaries; without it, it does not suspend before the scan.
TickBegins ==
  /\ tick.at = "idle"
  /\ tick' = [tick EXCEPT !.at = "checking"]
  /\ UNCHANGED <<lines, approved, personas, tests, rr, requests, edits, faults, history>>

\* Variant: the scan does not wait for the workers to begin.
ScanAtOnce ==
  /\ tick.at = "checking"
  /\ tick' = [at |-> "listing", inUse |-> InUse]
  /\ UNCHANGED <<lines, approved, personas, tests, rr, requests, edits, faults, history>>

\* The pullers of the running runs are read, then the control plane is asked.
\* A worker that was spawned begins when the tick suspends.
Scan ==
  /\ tick.at = "checking"
  /\ AutoScheduler => Spawned = {}
  /\ tick' = [at |-> "listing", inUse |-> InUse]
  /\ UNCHANGED <<lines, approved, personas, tests, rr, requests, edits, faults, history>>

\* The request fails, or nobody who supports the model is idle and not in use.
NobodyIdle ==
  /\ tick.at = "listing"
  /\ tick' = Resting
  /\ UNCHANGED <<lines, approved, personas, tests, rr, requests, edits, faults, history>>

\* The k-th puller of a set, by name.
Nth(S, k) == CHOOSE p \in S : Cardinality({q \in S : q < p}) = k - 1

Taken(x) == lines[x[1]][x[2]].worker # "none"   \* its key is in _run_workers

\* The rows after the first n picks; in lost are picks whose writes a failed
\* commit has rolled back, although their workers start.
Rows(picks, idle, lost) ==
  LET after[n \in 0..Len(picks)] ==
        IF n = 0 THEN lines
        ELSE LET x == picks[n]
                 rows == after[n - 1]
                 spawned == [rows[x[1]][x[2]] EXCEPT !.worker = "spawned", !.puller = Nth(idle, n)]
             IN IF Taken(x) THEN rows
                ELSE [rows EXCEPT ![x[1]][x[2]] =
                  IF n \in lost THEN spawned
                  ELSE [spawned EXCEPT !.status = "running",
                                       !.reporter = Reporter(x[1], rows[x[1]])]]
  IN  after

\* Picks that give a line to a worker.
Given(picks, n) == {k \in 1..n : ~Taken(picks[k])}

Waiting(d) ==
  Pending(d) # {} /\ LET head == lines[d][Min(Pending(d))]
                     IN  head.worker = "none" /\ MayRun(head)

\* How often e was given a line after d was, or since the tick began.
Overtaken(picks, n, d, e) ==
  LET last == {k \in Given(picks, n) : picks[k][1] = d} IN
  Cardinality({k \in Given(picks, n) : picks[k][1] = e /\ \A j \in last : j < k})

Record(picks, n, failed) ==
  /\ turns' = [d \in Desks |->
       LET mine == {k \in Given(picks, n) : picks[k][1] = d /\
                      lines'[d][picks[k][2]].reporter # Nobody}
       IN  turns[d] \o [k \in 1..Cardinality(mine) |-> lines'[d][picks[Nth(mine, k)][2]].reporter]]
  /\ passed' = IF failed THEN NeverPassed
               ELSE [d \in Desks |-> [e \in Desks |->
                 IF ~Waiting(d) \/ ~Waiting(d)' \/ d = e THEN 0
                 ELSE IF \E k \in Given(picks, n) : picks[k][1] = d
                      THEN Overtaken(picks, n, d, e)
                      ELSE passed[d][e] + Overtaken(picks, n, d, e)]]

\* Variant: the next tick starts at the same desk again.
StartAgain(limit) == UNCHANGED rr

\* _shift_rr_index is set before anything is dispatched.
Advance(limit) == rr' = Selection(limit).index

\* The first n picks are dispatched to the idle pullers.
Hand(idle, picks, n, lost, failed) ==
  /\ lines' = Rows(picks, idle, lost)[n]
  /\ Advance(Cardinality(idle))
  /\ tick' = Resting
  /\ UNCHANGED <<approved, personas, tests, requests, edits>>
  /\ Record(picks, n, failed)

\* The pick that ends the loop because the choice of its reporter raises.
RaisingPicks(picks, rows) ==
  {k \in Given(picks, Len(picks)) : Raises(picks[k][1], rows[k - 1][picks[k][1]])}

\* The sets of pullers the control plane may call idle and that are not in use.
Idle == SUBSET (Pullers \ tick.inUse) \ {{}}

Dispatch ==
  /\ tick.at = "listing"
  /\ \E idle \in Idle :
       LET picks == Selection(Cardinality(idle)).picks
           raising == RaisingPicks(picks, Rows(picks, idle, {}))
           n == IF raising = {} THEN Len(picks) ELSE Min(raising) - 1
       IN  /\ Hand(idle, picks, n, {}, FALSE)
           /\ refused' = IF raising = {} THEN refused ELSE refused \cup {picks[n + 1][1]}
  /\ UNCHANGED faults

\* The database is locked at pick k.  A reporter is flushed first, and that
\* error ends the tick; without one, the commit is rolled back and retried with
\* nothing in it.
DispatchLocked ==
  /\ tick.at = "listing"
  /\ faults < MaxFaults
  /\ \E idle \in Idle :
       LET picks == Selection(Cardinality(idle)).picks
           rows == Rows(picks, idle, {})
       IN  \E k \in Given(picks, Len(picks)) :
             /\ RaisingPicks(picks, rows) = {}
             /\ IF rows[k][picks[k][1]][picks[k][2]].reporter = Nobody
                THEN Hand(idle, picks, Len(picks), {k}, TRUE)
                ELSE Hand(idle, picks, k - 1, {}, TRUE)
  /\ faults' = faults + 1
  /\ UNCHANGED refused

-----------------------------------------------------------------------------
(* Workers, restarts, and operators.                                       *)

\* The run's row is committed with the puller that was picked for it.
Begin(d, i) ==
  /\ lines[d][i].worker = "spawned"
  /\ lines' = [lines EXCEPT ![d][i].worker = "running"]
  /\ UNCHANGED <<approved, personas, tests, rr, tick, requests, edits, faults, history>>

\* The flow cannot be read: no run, and the line is not touched again.
BeginFails(d, i) ==
  /\ lines[d][i].worker = "spawned"
  /\ lines' = [lines EXCEPT ![d][i].worker = "none", ![d][i].puller = Nobody]
  /\ UNCHANGED <<approved, personas, tests, rr, tick, requests, edits, faults, history>>

\* POST /runs/{id}/stop, or the stop of all runs: the run's row is cancelled, but
\* the key of its worker is the line's, so it is not found and works on.
StopRun(d, i) ==
  /\ requests < MaxRequests
  /\ requests' = requests + 1
  /\ lines[d][i].worker = "running"
  /\ lines' = [lines EXCEPT ![d][i].worker = "stopped"]
  /\ UNCHANGED <<approved, personas, tests, rr, tick, edits, faults, history>>

\* A run ends and its line with it, unless it was flagged and noticed that.
EndRun(d, i) ==
  /\ lines[d][i].worker \in {"running", "stopped"}
  /\ \E status \in {"ended", lines[d][i].status} :
       lines' = [lines EXCEPT ![d][i] =
         [@ EXCEPT !.worker = "none", !.puller = Nobody, !.status = status]]
  /\ UNCHANGED <<approved, personas, tests, rr, tick, requests, edits, faults, history>>

\* So does one that was resumed after a restart, or is to be; the worker of such
\* a run is found by a stop.
EndOrphan(d, i) ==
  /\ \E p \in lines[d][i].orphans, status \in {"ended", lines[d][i].status} :
       lines' = [lines EXCEPT ![d][i] =
         [lines[d][i] EXCEPT !.orphans = @ \ {p}, !.status = status]]
  /\ UNCHANGED <<approved, personas, tests, rr, tick, requests, edits, faults, history>>

\* Running runs are resumed by the next scan, with their pullers; stopped ones
\* are not.
Restart ==
  /\ faults < MaxFaults
  /\ faults' = faults + 1
  /\ lines' = [d \in Desks |-> [i \in 1..LineCount |->
       [lines[d][i] EXCEPT
          !.orphans = IF lines[d][i].worker = "running" THEN @ \cup {lines[d][i].puller} ELSE @,
          !.worker = "none", !.puller = Nobody]]]
  /\ rr' = 0
  /\ tick' = Resting
  /\ passed' = NeverPassed
  /\ UNCHANGED <<approved, personas, tests, requests, edits, turns, refused>>

\* POST /plans/{id}/roster/approve
Approve ==
  /\ ~approved
  /\ approved' = TRUE
  /\ UNCHANGED <<lines, personas, tests, rr, tick, requests, edits, faults, history>>

\* POST /desks/test-run takes the first idle puller, whatever runs on it.
TestRun ==
  /\ requests < MaxRequests
  /\ requests' = requests + 1
  /\ \E p \in Pullers : tests' = tests \cup {p}
  /\ UNCHANGED <<lines, approved, personas, rr, tick, edits, faults, history>>

TestEnds ==
  /\ \E p \in tests : tests' = tests \ {p}
  /\ UNCHANGED <<lines, approved, personas, rr, tick, requests, edits, faults, history>>

EditPersonas(rows) ==
  /\ edits < MaxEdits
  /\ edits' = edits + 1
  /\ personas' = rows
  /\ turns' = NoTurns
  /\ UNCHANGED <<lines, approved, tests, rr, tick, requests, faults, passed, refused>>

\* A slug is made unique before it is written.
CreatePersona == \E r \in Reporters \ personas : EditPersonas(personas \cup {r})
UpdatePersona ==
  \E r \in personas, q \in Reporters \ personas : EditPersonas((personas \ {r}) \cup {q})
DeletePersona == \E r \in personas : EditPersonas(personas \ {r})

Worker(d, i) == Begin(d, i) \/ BeginFails(d, i) \/ EndRun(d, i) \/ EndOrphan(d, i)

Next ==
  \/ TickBegins \/ Scan \/ NobodyIdle \/ Dispatch \/ DispatchLocked
  \/ \E d \in Desks, i \in 1..LineCount : Worker(d, i) \/ StopRun(d, i)
  \/ Restart \/ Approve
  \/ TestRun \/ TestEnds
  \/ CreatePersona \/ UpdatePersona \/ DeletePersona

Spec == Init /\ [][Next]_vars

-----------------------------------------------------------------------------
(* Properties.                                                             *)

\* The pullers that work for runs of a line, or soon will; not those of a run
\* that was stopped, whose answers nobody wants.
Working(d, i) ==
  lines[d][i].orphans \cup
    IF lines[d][i].worker \in {"spawned", "running"} THEN {lines[d][i].puller} ELSE {}

\* idle_pullers_for_model(exclude=in_use): no puller is given to a line while it
\* works for another one's run, although what is in use was read before the
\* control plane was awaited.  Stopped runs alone are no obstacle.
OnePullerPerLine ==
  \A d, e \in Desks, i, j \in 1..LineCount :
    <<d, i>> # <<e, j>> => Working(d, i) \cap Working(e, j) = {}

\* "round-robin across desk slots": while the head of a desk waits, no other
\* desk is given a second line, however few pullers each tick has.
RoundRobinIsFair == \A d, e \in Desks : passed[d][e] <= 1

\* No reporter of a desk gets a story before each colleague has had one, also
\* when several are chosen in one tick, and after a restart.
ReportersTakeTurns ==
  \A d \in Desks : Mode[d] = "round_robin" =>
    \A i, j \in DOMAIN turns[d] :
      i < j /\ j - i < Cardinality(personas) => turns[d][i] # turns[d][j]

\* "Least recently used within this desk slot on the shift": a desk of that
\* mode always finds its next reporter, whoever has worked for it before.
LeastRecentlyUsedIsFound == refused = {}
=============================================================================
