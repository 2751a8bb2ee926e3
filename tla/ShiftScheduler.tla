--------------------------- MODULE ShiftScheduler ---------------------------
(***************************************************************************)
(* The calendar of shifts: operators plan windows (services/shift_plans.py,*)
(* routes/shifts.py), standing orders and a model fill their rosters       *)
(* (services/assignment_desk.py, shift_t15_scheduler.py), and the tick     *)
(* takes shifts on and off the air (shift_boundary_scheduler.py).          *)
(*                                                                         *)
(* A scheduler that has written a row holds SQLite's write lock until it   *)
(* commits or is rolled back, also over its awaits, so what it does from   *)
(* its first write on is one action.  What it read before that may be old. *)
(* A desk's lines stand in the order of their priority.  A model and a     *)
(* control plane are configured; two desks of one path on one shift, and   *)
(* alerts that only inform, are left out.                                  *)
(***************************************************************************)
EXTENDS Naturals, FiniteSets, Sequences

CONSTANTS
  Count,        \* the number of windows of the calendar
  Length,       \* of a window
  Lead,         \* T15_LEAD_MINUTES
  Desks,        \* desk paths
  MaxTopics,    \* bound: lines that are planned or ordered at a time
  MaxEdits      \* bound: requests of operators

ASSUME TimeAssumption ==
  /\ Count \in Nat \ {0} /\ Length \in Nat \ {0}
  /\ Lead \in 1..Length /\ MaxTopics \in Nat /\ MaxEdits \in Nat

VARIABLES
  now,      \* the time
  plans,    \* the ShiftPlan of every window
  slots,    \* its ShiftDeskSlots, by path
  roster,   \* the ShiftAssignments of every slot, by priority
  orders,   \* the StandingOrder of every desk and window
  alerts,   \* NewsroomAlerts that warn and are open
  tick,     \* where the scheduler is, the time and the plan it has read
  auto,     \* auto_scheduler_enabled of the factory's settings
  edits     \* requests so far

vars == <<now, plans, slots, roster, orders, alerts, tick, auto, edits>>

Windows == 1..Count
Horizon == Count * Length
Starts(w) == (w - 1) * Length
Ends(w)   == w * Length
WindowAt(t) == CHOOSE w \in Windows : Starts(w) <= t /\ t < Ends(w)

Statuses == {"none", "draft", "active", "complete"}
Plan == [status : Statuses,                       \* "none": there is no row yet
         t15    : BOOLEAN,                        \* t15_applied_at
         review : {"none", "pending", "ready"}]   \* roster_review_status

Line == [source : {"standing", "ai_suggested", "manual"},
         locked : BOOLEAN,
         status : {"pending", "running", "ended"},
         seen   : BOOLEAN]   \* was in an approved roster (history)

Order == [topics : 0..MaxTopics, target : 0..MaxTopics]
NoOrder == [topics |-> 0, target |-> MaxTopics + 1]

TypeOK ==
  /\ now \in 0..Horizon
  /\ plans \in [Windows -> Plan]
  /\ slots \in [Windows -> SUBSET Desks]
  /\ roster \in [Windows -> [Desks -> Seq(Line)]]
  /\ orders \in [Desks -> [Windows -> Order \cup {NoOrder}]]
  /\ alerts \subseteq {"shift_started_empty", "roster_incomplete_t15"} \X Windows
  /\ tick \in [at : {"idle", "t15", "boundary", "listed"},
               plan : 0..Count, now : 0..Horizon]
  /\ auto \in BOOLEAN
  /\ edits \in 0..MaxEdits

Init ==
  /\ now = 0
  /\ plans = [w \in Windows |-> [status |-> "none", t15 |-> FALSE, review |-> "none"]]
  /\ slots = [w \in Windows |-> {}]
  /\ roster = [w \in Windows |-> [d \in Desks |-> <<>>]]
  /\ orders \in [Desks -> [Windows -> Order \cup {NoOrder}]]
  /\ alerts = {}
  /\ tick = [at |-> "idle", plan |-> 0, now |-> 0]
  /\ auto = TRUE
  /\ edits = 0

Having(status) == {w \in Windows : plans[w].status = status}

-----------------------------------------------------------------------------
(* Lines.                                                                  *)

NewLine(source, locked) ==
  [source |-> source, locked |-> locked, status |-> "pending", seen |-> FALSE]
NewLines(n, source) == [i \in 1..n |-> NewLine(source, FALSE)]

Least(m, n) == IF m < n THEN m ELSE n
Less(m, n) == IF m > n THEN m - n ELSE 0   \* max(0, m - n)

Unfinished(lines) == {i \in DOMAIN lines : lines[i].status # "ended"}
LockedOf(lines) == {i \in Unfinished(lines) : lines[i].locked}

Target(order) == IF order = NoOrder THEN 0 ELSE order.target

\* Deletes the pending lines of a source.
Without(lines, source) ==
  LET rest[i \in 0..Len(lines)] ==
        IF i = 0 THEN <<>>
        ELSE IF lines[i].source = source /\ lines[i].status = "pending"
             THEN rest[i - 1] ELSE Append(rest[i - 1], lines[i])
  IN  rest[Len(lines)]

\* Variant: all that is pending is replaced, not only standing lines.
ApplyStandingToAll(lines, order) ==
  SelectSeq(lines, LAMBDA l : l.status # "pending")
    \o NewLines(Least(order.topics, Target(order)), "standing")

\* Standing lines are replaced; what is locked counts towards the target.
ApplyStanding(lines, order) ==
  LET kept == Without(lines, "standing")
  IN  kept \o NewLines(Least(order.topics, Less(Target(order), Cardinality(LockedOf(kept)))),
                       "standing")

\* How many suggestions are asked for.
Gap(lines, order) == Less(Target(order), Cardinality(Unfinished(lines)))

\* The roster T-15 leaves on a desk when the model has n suggestions.
Generated(lines, order, n) ==
  LET standing == ApplyStanding(Without(lines, "ai_suggested"), order)
  IN  standing \o NewLines(Least(n, Gap(standing, order)), "ai_suggested")

Approved(lines) == [i \in DOMAIN lines |-> [lines[i] EXCEPT !.seen = TRUE]]
Settled(lines) == [i \in DOMAIN lines |-> [lines[i] EXCEPT !.status = "ended"]]

Total(w, lines) == \E d \in slots[w] : lines[d] # <<>>
NoLines == [d \in Desks |-> <<>>]

Dispatchable(w, line) ==
  /\ line.status = "pending"
  /\ plans[w].review = "pending" => line.source # "ai_suggested"

-----------------------------------------------------------------------------
(* Requests of operators.                                                  *)

Edit == edits < MaxEdits /\ edits' = edits + 1

\* POST /plans/ensure
EnsurePlan(w) ==
  /\ Edit
  /\ plans[w].status = "none"
  /\ plans' = [plans EXCEPT ![w].status = "draft"]
  /\ UNCHANGED <<now, auto, slots, roster, orders, alerts, tick>>

\* What an operator may plan for a desk.
Planned == UNION {[1..n -> {NewLine("manual", b) : b \in BOOLEAN}] : n \in 0..MaxTopics}

\* POST /plans/save: everything planned so far is replaced; neither t15 nor
\* the review starts anew.
SavePlan(w) ==
  /\ Edit
  /\ plans[w].status \in {"none", "draft"}
  /\ plans' = [plans EXCEPT ![w].status = "draft"]
  /\ \E D \in SUBSET Desks \ {{}} :
       /\ slots' = [slots EXCEPT ![w] = D]
       /\ \E lines \in [D -> Planned] :
            roster' = [roster EXCEPT ![w] =
              [d \in Desks |-> IF d \in D THEN lines[d] ELSE <<>>]]
  /\ UNCHANGED <<now, auto, orders, alerts, tick>>

\* POST /plans/{id}/desks
AddDesk(w, d) ==
  /\ Edit
  /\ plans[w].status = "draft"
  /\ d \notin slots[w]
  /\ slots' = [slots EXCEPT ![w] = @ \cup {d}]
  /\ UNCHANGED <<now, auto, plans, roster, orders, alerts, tick>>

\* PUT /plans/{id}/desks/{id}/assignments
ReplaceLines(w, d) ==
  /\ Edit
  /\ plans[w].status = "draft"
  /\ d \in slots[w]
  /\ \E n \in 0..MaxTopics :
       roster' = [roster EXCEPT ![w][d] = NewLines(n, "manual")]
  /\ UNCHANGED <<now, auto, plans, slots, orders, alerts, tick>>

\* PATCH /plans/{id}/roster locks, unlocks or promotes a pending line.
EditLine(w, d) ==
  /\ Edit
  /\ plans[w].status = "draft"
  /\ d \in slots[w]
  /\ \E i \in DOMAIN roster[w][d], locked \in BOOLEAN, source \in {"same", "manual"} :
       LET line == roster[w][d][i] IN
       /\ line.status = "pending"
       /\ source = "manual" => line.source = "ai_suggested"
       /\ roster' = [roster EXCEPT ![w][d][i] =
            [line EXCEPT !.locked = locked,
                         !.source = IF source = "same" THEN line.source ELSE source]]
  /\ roster' # roster
  /\ UNCHANGED <<now, auto, plans, slots, orders, alerts, tick>>

\* POST /plans/{id}/roster/approve, in any status of the shift.
Approve(w) ==
  /\ Edit
  /\ plans[w].review # "none" \/ plans[w].t15
  /\ plans' = [plans EXCEPT ![w].review = "ready"]
  /\ roster' = [roster EXCEPT ![w] = [d \in Desks |-> Approved(@[d])]]
  /\ UNCHANGED <<now, auto, slots, orders, alerts, tick>>

\* POST /plans/{id}/roster/reject-ai, in any status of the shift.
RejectSuggestions(w) ==
  /\ Edit
  /\ roster' = [roster EXCEPT ![w] = [d \in Desks |-> Without(@[d], "ai_suggested")]]
  /\ roster' # roster
  /\ UNCHANGED <<now, auto, plans, slots, orders, alerts, tick>>

\* PUT /standing-orders
PutOrder(d, w) ==
  /\ Edit
  /\ \E order \in Order : orders' = [orders EXCEPT ![d][w] = order]
  /\ UNCHANGED <<now, auto, plans, slots, roster, alerts, tick>>

\* Variant: another shift may be on air.
ActivateBesides(w) ==
  /\ Edit
  /\ plans[w].status = "draft"
  /\ Total(w, roster[w])
  /\ plans' = [plans EXCEPT ![w].status = "active"]
  /\ UNCHANGED <<now, auto, slots, roster, orders, alerts, tick>>

\* POST /plans/{id}/activate, at any time.  Requests do not overlap here.
Activate(w) ==
  /\ Edit
  /\ plans[w].status = "draft"
  /\ Total(w, roster[w])
  /\ Having("active") = {}
  /\ plans' = [plans EXCEPT ![w].status = "active"]
  /\ UNCHANGED <<now, auto, slots, roster, orders, alerts, tick>>

\* hard_stop_shift_plan of the shifts in W.
Closing(W) ==
  [w \in Windows |-> IF w \in W THEN [plans[w] EXCEPT !.status = "complete"] ELSE plans[w]]
Dropping(W) ==
  [w \in Windows |-> IF w \in W THEN [d \in Desks |-> Settled(roster[w][d])] ELSE roster[w]]

\* POST /plans/{id}/complete
Complete(w) ==
  /\ Edit
  /\ plans[w].status = "active"
  /\ plans' = Closing({w})
  /\ roster' = Dropping({w})
  /\ UNCHANGED <<now, auto, slots, orders, alerts, tick>>

\* PUT /settings switches the checks of the boundaries on and off.
SwitchScheduler ==
  /\ Edit
  /\ auto' = ~auto
  /\ UNCHANGED <<now, plans, slots, roster, orders, alerts, tick>>

-----------------------------------------------------------------------------
(* The factory loop works on the shift that is on air.                     *)

\* The first pending line of a desk is dispatched, if it may be.
Dispatch(w, d) ==
  /\ plans[w].status = "active"
  /\ d \in slots[w]
  /\ \E i \in DOMAIN roster[w][d] :
       /\ \A j \in 1..(i - 1) : roster[w][d][j].status # "pending"
       /\ Dispatchable(w, roster[w][d][i])
       /\ roster' = [roster EXCEPT ![w][d][i].status = "running"]
  /\ UNCHANGED <<now, auto, plans, slots, orders, alerts, tick, edits>>

\* A run ends and its shift with the last of them, unless it is judged on the
\* rows as they were before.
Settle(w, d) ==
  /\ \E i \in DOMAIN roster[w][d] :
       /\ roster[w][d][i].status = "running"
       /\ roster' = [roster EXCEPT ![w][d][i].status = "ended"]
  /\ \/ UNCHANGED plans
     \/ /\ plans[w].status = "active"
        /\ \A e \in slots[w] : Unfinished(roster'[w][e]) = {}
        /\ plans' = Closing({w})
  /\ UNCHANGED <<now, auto, slots, orders, alerts, tick, edits>>

-----------------------------------------------------------------------------
(* The tick: T-15 first, then the boundaries.                              *)

\* Variant: a roster is generated again.
DueForT15Again ==
  {w \in Having("draft") : now < Starts(w) /\ Starts(w) <= now + Lead /\ slots[w] # {}}

DueForT15 ==
  {w \in Having("draft") :
     ~plans[w].t15 /\ now < Starts(w) /\ Starts(w) <= now + Lead /\ slots[w] # {}}

\* The plans that are due are read, and the pullers are asked for.
FindDueForT15 ==
  /\ tick.at = "idle"
  /\ \/ /\ DueForT15 = {}
        /\ tick' = [tick EXCEPT !.at = "boundary"]
     \/ \E w \in DueForT15 : tick' = [tick EXCEPT !.at = "t15", !.plan = w]
  /\ UNCHANGED <<now, auto, plans, slots, roster, orders, alerts, edits>>

AfterT15 == tick' = [tick EXCEPT !.at = "boundary", !.plan = 0]

\* Variant: the status of the shift is written where its review belongs.
ReviewedAsStatus(w, status) ==
  [plans[w] EXCEPT !.status = status, !.t15 = TRUE, !.review = status]

Reviewed(w, status) == [plans[w] EXCEPT !.status = status, !.t15 = TRUE, !.review = "pending"]

\* Variant: an earlier review is kept.
RosteredKeepingReview(w) == [plans EXCEPT ![w].t15 = TRUE]

Rostered(w) == [plans EXCEPT ![w] = Reviewed(w, plans[w].status)]

\* run_t15_for_plan; the plan's row is the one read before the pullers came,
\* so it may be on air or over by now.
GenerateRoster ==
  LET w == tick.plan IN
  /\ tick.at = "t15"
  /\ \E n \in [slots[w] -> 0..MaxTopics] :
       roster' = [roster EXCEPT ![w] = [d \in Desks |->
         IF d \in slots[w] THEN Generated(@[d], orders[d][w], n[d]) ELSE @[d]]]
  /\ plans' = Rostered(w)
  /\ AfterT15
  /\ UNCHANGED <<now, auto, slots, orders, alerts, edits>>

\* No puller is listed or idle, or a request fails and all is rolled back.
SkipT15 ==
  /\ tick.at = "t15"
  /\ AfterT15
  /\ UNCHANGED <<now, auto, plans, slots, roster, orders, alerts, edits>>

\* Variant: a shift may still end at its last moment.
OverdueLater == {w \in Having("active") : Ends(w) < now}

\* find_active_plans_past_end
Overdue == {w \in Having("active") : Ends(w) <= now}

TickEnds == tick' = [at |-> "idle", plan |-> 0, now |-> 0]

\* The operator has switched the scheduler off: shifts begin and end by hand.
SwitchedOff ==
  /\ tick.at = "boundary"
  /\ ~auto
  /\ TickEnds
  /\ UNCHANGED <<now, auto, plans, slots, roster, orders, alerts, edits>>

\* Nothing is overdue: the pullers are asked for before anything is written.
ListPullers ==
  /\ tick.at = "boundary"
  /\ auto
  /\ Overdue = {}
  /\ tick' = [tick EXCEPT !.at = "listed", !.now = now]
  /\ UNCHANGED <<now, auto, plans, slots, roster, orders, alerts, edits>>

\* The check of the boundaries goes on from its first write, at the time t
\* it began and with the shifts in W ended.
Checks(t, W) ==
  \/ tick.at = "listed" /\ t = tick.now /\ W = {}
  \/ tick.at = "boundary" /\ auto /\ t = now /\ W = Overdue /\ W # {}

\* check_desk_stalls may count a line that runs on the shift on air.
MayStall ==
  \E w \in Having("active"), d \in Desks :
    \E i \in DOMAIN roster[w][d] : roster[w][d][i].status = "running"

\* bootstrap_desks_from_standing_orders
Bootstrapped(w) == slots[w] \cup {d \in Desks : orders[d][w] # NoOrder}

\* check_t15_roster_gaps looks at these.
Unstaffed(t) ==
  {w \in Having("draft") : ~plans[w].t15 /\ t < Starts(w) /\ Starts(w) <= t + Lead /\ slots[w] = {}}
Gaps(t) == {w \in Unstaffed(t) : Bootstrapped(w) = {}}

\* The desks a committed check of window w leaves.
Staffed(t, w) ==
  [v \in Windows |-> IF v = w \/ v \in Unstaffed(t) THEN Bootstrapped(v) ELSE slots[v]]

Warned(t) == alerts \cup {<<"roster_incomplete_t15", v>> : v \in Gaps(t)}

Standing(w) ==
  [d \in Desks |-> IF d \in Bootstrapped(w)
                   THEN ApplyStanding(roster[w][d], orders[d][w]) ELSE roster[w][d]]

\* fill_roster_at_boundary: the rosters a draft may be filled with, and whether
\* a model was asked.  A draft with a line is left as it is.
Fillings(w) ==
  IF Total(w, roster[w]) THEN {<<roster[w], FALSE>>}
  ELSE {<<Standing(w), FALSE>>} \cup
       IF plans[w].t15 \/ Bootstrapped(w) = {} THEN {}
       ELSE {<<[d \in Desks |-> IF d \in Bootstrapped(w)
                                THEN Generated(roster[w][d], orders[d][w], n[d])
                                ELSE roster[w][d]], TRUE>> :
             n \in [Bootstrapped(w) -> 0..MaxTopics]}

HasLine(lines) == \E d \in Desks : lines[d] # <<>>

\* try_auto_activate_plan of the window of the time of the check: the shift
\* takes over, and whatever is on air ends.  Two others on air end the tick.
TakeOver(t, W) ==
  LET w == WindowAt(t)
      others == Having("active") \ {w}
  IN
  /\ Checks(t, W) /\ t < Horizon
  /\ plans[w].status \in {"none", "draft"}
  /\ Cardinality(others \ W) <= 1
  /\ \E filling \in Fillings(w) :
       /\ HasLine(filling[1])
       /\ plans' = [Closing(others) EXCEPT ![w] =
            IF filling[2] THEN Reviewed(w, "active") ELSE [@ EXCEPT !.status = "active"]]
       /\ roster' = [Dropping(others) EXCEPT ![w] = filling[1]]
  /\ slots' = Staffed(t, w)
  /\ alerts' = Warned(t) \ {<<"shift_started_empty", w>>}
  /\ TickEnds
  /\ UNCHANGED <<now, auto, orders, edits>>

\* The draft of the window stays empty.  Unless a shift has ended, a roster is
\* found missing or a desk stalls, all that the check has written is rolled back.
StayEmpty(t, W) ==
  LET w == WindowAt(t) IN
  /\ Checks(t, W) /\ t < Horizon
  /\ plans[w].status \in {"none", "draft"}
  /\ \E filling \in Fillings(w) :
       /\ ~HasLine(filling[1])
       /\ \/ /\ W # {} \/ Gaps(t) # {} \/ MayStall
             /\ plans' = [Closing(W) EXCEPT ![w] =
                  IF filling[2] THEN Reviewed(w, "draft") ELSE [@ EXCEPT !.status = "draft"]]
             /\ roster' = Dropping(W)
             /\ slots' = Staffed(t, w)
             /\ alerts' = Warned(t) \cup {<<"shift_started_empty", w>>}
          \/ /\ W = {} /\ Gaps(t) = {}
             /\ UNCHANGED <<plans, roster, slots, alerts>>
  /\ TickEnds
  /\ UNCHANGED <<now, auto, orders, edits>>

\* The window's shift is on air or over, or there is none at the end of time.
OnlyEnd(t, W) ==
  /\ Checks(t, W)
  /\ t < Horizon => plans[WindowAt(t)].status \in {"active", "complete"}
  /\ \/ /\ W # {} \/ Gaps(t) # {} \/ MayStall
        /\ plans' = Closing(W)
        /\ roster' = Dropping(W)
        /\ slots' = Staffed(t, 0)
        /\ alerts' = Warned(t)
     \/ /\ W = {} /\ Gaps(t) = {}
        /\ UNCHANGED <<plans, roster, slots, alerts>>
  /\ TickEnds
  /\ UNCHANGED <<now, auto, orders, edits>>

\* An exception of the control plane or of a commit: all is rolled back.
CheckFails ==
  /\ tick.at \in {"boundary", "listed"}
  /\ TickEnds
  /\ UNCHANGED <<now, auto, plans, slots, roster, orders, alerts, edits>>

TimePasses ==
  /\ now < Horizon
  /\ now' = now + 1
  /\ UNCHANGED <<plans, slots, roster, orders, alerts, tick, auto, edits>>

Request(w) ==
  \/ EnsurePlan(w) \/ SavePlan(w) \/ Approve(w) \/ RejectSuggestions(w)
  \/ Activate(w) \/ Complete(w)
  \/ \E d \in Desks : AddDesk(w, d) \/ ReplaceLines(w, d) \/ EditLine(w, d) \/ PutOrder(d, w)

Work == \E w \in Windows, d \in Desks : Dispatch(w, d) \/ Settle(w, d)

T15 == FindDueForT15 \/ GenerateRoster \/ SkipT15

Checked ==
  \E t \in 0..now, W \in SUBSET Windows : TakeOver(t, W) \/ StayEmpty(t, W) \/ OnlyEnd(t, W)

Next ==
  \/ \E w \in Windows : Request(w)
  \/ SwitchScheduler
  \/ Work
  \/ T15 \/ SwitchedOff \/ ListPullers \/ Checked \/ CheckFails
  \/ TimePasses

Spec == Init /\ [][Next]_vars

\* The loop ticks, and the control plane and the database do not fail every
\* check of the boundaries that is begun; nobody need switch them on.
Fairness ==
  /\ WF_vars(T15)
  /\ WF_vars(ListPullers)
  /\ WF_vars(Checked \/ CheckFails \/ SwitchedOff)
  /\ SF_vars(Checked)

FairSpec == Spec /\ Fairness

-----------------------------------------------------------------------------
(* Properties.                                                             *)

\* The calendar keeps its promise: shifts are drafted, on air and over once
\* each, one is on air at a time, and a shift that takes over ends the other.
Calendar == INSTANCE ShiftCalendar WITH stage <- [w \in Windows |-> plans[w].status]
ImplementsCalendar == Calendar!Spec

\* apply_standing_to_desk, T-15 and the boundaries "preserve locked manual
\* lines": only a request of an operator removes one.
LockedManual(lines) == {i \in DOMAIN lines : lines[i].source = "manual" /\ lines[i].locked}
LockedLinesSurvive ==
  [][edits' = edits =>
       \A w \in Windows, d \in Desks :
         Cardinality(LockedManual(roster'[w][d])) = Cardinality(LockedManual(roster[w][d]))]_vars

\* No suggestion of the model is worked on that was not in the roster when an
\* operator approved it, however often rosters are saved, approved and
\* generated, before and after the shift goes on air.
NoUnseenSuggestionRuns ==
  \A w \in Windows, d \in Desks :
    \A i \in DOMAIN roster[w][d] :
      LET line == roster[w][d][i] IN
      line.source = "ai_suggested" /\ line.status = "running" => line.seen

\* When T-15 has run, a desk with suggestions has no more unfinished lines than
\* its target, and its standing lines leave room for the locked ones.
Pending(lines, source) ==
  {i \in DOMAIN lines : lines[i].source = source /\ lines[i].status = "pending"}
WithinTarget(lines, order) ==
  /\ Pending(lines, "ai_suggested") # {} => Cardinality(Unfinished(lines)) <= Target(order)
  /\ Pending(lines, "standing") # {} =>
       Cardinality(LockedOf(lines) \cup Pending(lines, "standing")) <= Target(order)
GenerationRespectsTarget ==
  [][\A w \in Windows :
       ~plans[w].t15 /\ plans'[w].t15 =>
         \A d \in Desks : WithinTarget(roster'[w][d], orders[d][w])]_vars

\* A shift does not stay on air beyond its window, unless the scheduler is, or
\* gets, switched off; once it stays on, every shift that is overdue ends.
\* process_shift_boundaries
OverdueShiftCloses ==
  \A w \in Windows :
    plans[w].status = "active" /\ now >= Ends(w) ~> plans[w].status = "complete" \/ ~auto
=============================================================================
