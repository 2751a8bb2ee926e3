--------------------------- MODULE CalendarProofs ---------------------------
(***************************************************************************)
(* The scheduler of ShiftScheduler implements the calendar of              *)
(* ShiftCalendar, for any windows, desks, orders and bounds, and so has    *)
(* one shift on air at a time.  All that takes is that plans keep their    *)
(* type.  The later parts are about the rosters: their types, which lines  *)
(* may run, which lines stay and how many are generated.                   *)
(***************************************************************************)
EXTENDS ShiftScheduler, NumberLemmas, FiniteSetTheorems, TLAPS

PlansTyped == plans \in [Windows -> Plan]

Stage == [w \in Windows |-> plans[w].status]

\* The abstract steps, said of plans.
ClosesAndPlans(W, P) ==
  /\ W \subseteq Having("active")
  /\ \A w \in P : plans[w].status = "none"
  /\ P \subseteq Windows
  /\ \A w \in Windows : plans'[w].status =
       CASE w \in W -> "complete" [] w \in P -> "draft" [] OTHER -> plans[w].status

Begins(w) ==
  /\ w \in Windows
  /\ plans[w].status \in {"none", "draft"}
  /\ \A v \in Windows : plans'[v].status =
       CASE v = w -> "active" [] v \in Having("active") \ {w} -> "complete"
         [] OTHER -> plans[v].status

Same == \A w \in Windows : plans'[w].status = plans[w].status

\* What a step does to the plans.
Moves ==
  /\ PlansTyped'
  /\ \/ Same
     \/ \E W \in SUBSET Windows, P \in SUBSET Windows : ClosesAndPlans(W, P)
     \/ \E w \in Windows : Begins(w)

\* A shift that is planned or is planned already.
LEMMA PlanMoves ==
  ASSUME PlansTyped, NEW w \in Windows, NEW row \in Plan, row.status = "draft",
         plans[w].status \in {"none", "draft"}, plans' = [plans EXCEPT ![w] = row]
  PROVE  Moves
<1>1. PlansTyped'
  BY DEF PlansTyped
<1>2. CASE plans[w].status = "draft"
  <2>1. Same
    BY <1>2 DEF Same, PlansTyped
  <2> QED
    BY <1>1, <2>1 DEF Moves
<1>3. CASE plans[w].status = "none"
  <2>1. ClosesAndPlans({}, {w})
    BY <1>3 DEF ClosesAndPlans, PlansTyped
  <2> QED
    BY <1>1, <2>1 DEF Moves
<1> QED
  BY <1>2, <1>3

\* Shifts on air end.
LEMMA CloseMoves ==
  ASSUME PlansTyped, NEW W \in SUBSET Windows, W \subseteq Having("active"),
         plans' = Closing(W)
  PROVE  Moves
<1>1. \A v \in Windows : plans'[v] \in Plan /\
        plans'[v].status = IF v \in W THEN "complete" ELSE plans[v].status
  BY DEF Closing, PlansTyped, Plan, Statuses
<1>2. PlansTyped'
  BY <1>1 DEF Closing, PlansTyped
<1>3. ClosesAndPlans(W, {})
  BY <1>1 DEF ClosesAndPlans
<1> QED
  BY <1>2, <1>3 DEF Moves

\* A row is changed beside the shifts that end.
LEMMA CloseAndPlanMoves ==
  ASSUME PlansTyped, NEW W \in SUBSET Windows, W \subseteq Having("active"),
         NEW w \in Windows, plans[w].status \in {"none", "draft"},
         NEW row \in Plan, row.status = "draft",
         plans' = [Closing(W) EXCEPT ![w] = row]
  PROVE  Moves
<1>1. w \notin W
  BY DEF Having
<1>2. \A v \in Windows : plans'[v] \in Plan /\
        plans'[v].status = IF v \in W THEN "complete"
                           ELSE IF v = w THEN "draft" ELSE plans[v].status
  BY <1>1 DEF Closing, PlansTyped, Plan, Statuses
<1>3. PlansTyped'
  BY <1>2 DEF Closing, PlansTyped
<1>4. CASE plans[w].status = "draft"
  <2>1. ClosesAndPlans(W, {})
    BY <1>1, <1>2, <1>4 DEF ClosesAndPlans
  <2> QED
    BY <1>3, <2>1 DEF Moves
<1>5. CASE plans[w].status = "none"
  <2>1. ClosesAndPlans(W, {w})
    BY <1>1, <1>2, <1>5 DEF ClosesAndPlans
  <2> QED
    BY <1>3, <2>1 DEF Moves
<1> QED
  BY <1>4, <1>5

\* A shift takes over from whatever is on air.
LEMMA TakeOverMoves ==
  ASSUME PlansTyped, NEW w \in Windows, plans[w].status \in {"none", "draft"},
         NEW row \in Plan, row.status = "active",
         plans' = [Closing(Having("active") \ {w}) EXCEPT ![w] = row]
  PROVE  Moves
<1>1. \A v \in Windows : plans'[v] \in Plan /\
        plans'[v].status = IF v = w THEN "active"
                           ELSE IF v \in Having("active") \ {w} THEN "complete"
                           ELSE plans[v].status
  BY DEF Closing, PlansTyped, Plan, Statuses
<1>2. PlansTyped'
  BY <1>1 DEF Closing, PlansTyped
<1>3. Begins(w)
  BY <1>1 DEF Begins
<1> QED
  BY <1>2, <1>3 DEF Moves

\* A row of a window changes and its status does not.
LEMMA SameMoves ==
  ASSUME PlansTyped, NEW w, NEW row \in Plan, w \in Windows => row.status = plans[w].status,
         plans' = [plans EXCEPT ![w] = row]
  PROVE  Moves
<1>1. PlansTyped'
  BY DEF PlansTyped
<1>2. Same
  BY DEF Same, PlansTyped
<1> QED
  BY <1>1, <1>2 DEF Moves

-----------------------------------------------------------------------------
(* Every action.                                                           *)

\* The rows that actions write are rows.
LEMMA Rows ==
  ASSUME NEW row \in Plan, NEW s \in Statuses
  PROVE  /\ [row EXCEPT !.status = s] \in Plan
         /\ [row EXCEPT !.status = s].status = s
         /\ [row EXCEPT !.review = "ready"] \in Plan
         /\ [row EXCEPT !.review = "ready"].status = row.status
         /\ [row EXCEPT !.status = s, !.t15 = TRUE, !.review = "pending"] \in Plan
         /\ [row EXCEPT !.status = s, !.t15 = TRUE, !.review = "pending"].status = s
BY DEF Plan

LEMMA Unmoved == ASSUME PlansTyped, plans' = plans PROVE Moves
BY DEF PlansTyped, Moves, Same

LEMMA RequestMoves ==
  ASSUME PlansTyped, NEW w \in Windows, Request(w)
  PROVE  Moves
<1>0. plans[w] \in Plan /\ plans[w].status \in Statuses /\ plans \in [Windows -> Plan]
  BY DEF PlansTyped, Plan
<1> DEFINE drafted == [plans[w] EXCEPT !.status = "draft"]
<1>1. drafted \in Plan /\ drafted.status = "draft"
  BY <1>0, Rows DEF Statuses
<1>2. CASE EnsurePlan(w) \/ SavePlan(w)
  <2>1. plans[w].status \in {"none", "draft"} /\ plans' = [plans EXCEPT ![w] = drafted]
    BY <1>2, <1>0 DEF EnsurePlan, SavePlan
  <2> HIDE DEF drafted
  <2> QED
    BY <1>1, <2>1, PlanMoves
<1>3. CASE Approve(w)
  <2> DEFINE row == [plans[w] EXCEPT !.review = "ready"]
  <2>1. row \in Plan /\ row.status = plans[w].status
    BY <1>0, Rows
  <2>2. plans' = [plans EXCEPT ![w] = row]
    BY <1>3, <1>0 DEF Approve
  <2> HIDE DEF row
  <2> QED
    BY <2>1, <2>2, SameMoves
<1>4. CASE Activate(w)
  <2> DEFINE row == [plans[w] EXCEPT !.status = "active"]
  <2>1. row \in Plan /\ row.status = "active"
    BY <1>0, Rows DEF Statuses
  <2>2. Having("active") = {} /\ plans[w].status = "draft" /\ plans' = [plans EXCEPT ![w] = row]
    BY <1>4, <1>0 DEF Activate
  <2>3. Closing(Having("active") \ {w}) = plans
    BY <2>2, <1>0 DEF Closing
  <2> HIDE DEF row
  <2> QED
    BY <2>1, <2>2, <2>3, TakeOverMoves
<1>5. CASE Complete(w)
  <2>1. {w} \subseteq Having("active") /\ plans' = Closing({w})
    BY <1>5 DEF Complete, Having
  <2> QED
    BY <2>1, CloseMoves
<1>6. CASE \/ RejectSuggestions(w)
           \/ \E d \in Desks : AddDesk(w, d) \/ ReplaceLines(w, d) \/ EditLine(w, d) \/ PutOrder(d, w)
  <2>1. plans' = plans
    BY <1>6 DEF RejectSuggestions, AddDesk, ReplaceLines, EditLine, PutOrder
  <2> QED
    BY <2>1, Unmoved
<1> QED
  BY <1>2, <1>3, <1>4, <1>5, <1>6 DEF Request

LEMMA WorkMoves == ASSUME PlansTyped, Work PROVE Moves
<1>1. PICK w \in Windows, d \in Desks : Dispatch(w, d) \/ Settle(w, d)
  BY DEF Work
<1>2. CASE plans' = plans
  BY <1>2, Unmoved
<1>3. CASE plans' # plans
  <2>1. plans[w].status = "active" /\ plans' = Closing({w})
    BY <1>1, <1>3 DEF Dispatch, Settle
  <2>2. {w} \subseteq Having("active")
    BY <2>1 DEF Having
  <2> QED
    BY <2>1, <2>2, CloseMoves
<1> QED
  BY <1>2, <1>3

LEMMA T15Moves == ASSUME PlansTyped, T15 PROVE Moves
<1>1. CASE FindDueForT15 \/ SkipT15
  <2>1. plans' = plans
    BY <1>1 DEF FindDueForT15, SkipT15
  <2> QED
    BY <2>1, Unmoved
<1>2. CASE GenerateRoster
  <2> DEFINE w == tick.plan
             row == Reviewed(w, plans[w].status)
  <2>1. plans' = [plans EXCEPT ![w] = row]
    BY <1>2 DEF GenerateRoster, Rostered
  <2>2. CASE w \in Windows
    <3>1. plans[w] \in Plan /\ plans[w].status \in Statuses
      BY <2>2 DEF PlansTyped, Plan
    <3>2. row \in Plan /\ row.status = plans[w].status
      BY <3>1, Rows DEF Reviewed
    <3> HIDE DEF w, row
    <3> QED
      BY <2>1, <3>2, SameMoves
  <2>3. CASE w \notin Windows
    <3>1. plans' = plans
      BY <2>1, <2>3 DEF PlansTyped
    <3> QED
      BY <3>1, Unmoved
  <2> QED
    BY <2>2, <2>3
<1> QED
  BY <1>1, <1>2 DEF T15

\* What ends with a check of the boundaries is on air.
LEMMA ChecksEnd ==
  ASSUME NEW t, NEW W, Checks(t, W)
  PROVE  W \in SUBSET Windows /\ W \subseteq Having("active")
BY DEF Checks, Overdue, Having

LEMMA TakesOver ==
  ASSUME PlansTyped, NEW t, NEW W, TakeOver(t, W)
  PROVE  Moves
<1> DEFINE w == WindowAt(t)
           others == Having("active") \ {w}
<1>1. PICK filling \in Fillings(w) :
        plans' = [Closing(others) EXCEPT ![w] =
                    IF filling[2] THEN Reviewed(w, "active") ELSE [@ EXCEPT !.status = "active"]]
  BY DEF TakeOver
<1>2. plans[w].status \in {"none", "draft"}
  BY DEF TakeOver
<1>3. CASE w \in Windows
  <2>1. plans[w] \in Plan /\ Closing(others)[w] = plans[w]
    BY <1>3 DEF PlansTyped, Closing
  <2> DEFINE row == IF filling[2] THEN Reviewed(w, "active") ELSE [plans[w] EXCEPT !.status = "active"]
  <2>2. row \in Plan /\ row.status = "active"
    BY <2>1, Rows DEF Reviewed, Statuses
  <2>3. plans' = [Closing(others) EXCEPT ![w] = row]
    BY <1>1, <2>1
  <2> HIDE DEF w, row
  <2> QED
    BY <1>2, <1>3, <2>2, <2>3, TakeOverMoves
<1>4. CASE w \notin Windows
  <2>1. plans' = Closing(others)
    BY <1>1, <1>4 DEF Closing
  <2>2. others \in SUBSET Windows /\ others \subseteq Having("active")
    BY DEF Having
  <2> QED
    BY <2>1, <2>2, CloseMoves
<1> QED
  BY <1>3, <1>4

LEMMA StaysEmpty ==
  ASSUME PlansTyped, NEW t, NEW W, StayEmpty(t, W)
  PROVE  Moves
<1> DEFINE w == WindowAt(t)
<1>1. CASE plans' = plans
  BY <1>1, Unmoved
<1>2. CASE plans' # plans
  <2>1. PICK filling \in Fillings(w) :
          plans' = [Closing(W) EXCEPT ![w] =
                      IF filling[2] THEN Reviewed(w, "draft") ELSE [@ EXCEPT !.status = "draft"]]
    BY <1>2 DEF StayEmpty
  <2>2. plans[w].status \in {"none", "draft"}
    BY DEF StayEmpty
  <2>3. W \in SUBSET Windows /\ W \subseteq Having("active")
    BY ChecksEnd DEF StayEmpty
  <2>4. CASE w \in Windows
    <3>1. plans[w] \in Plan /\ Closing(W)[w] = plans[w]
      BY <2>2, <2>3, <2>4 DEF PlansTyped, Closing, Having
    <3> DEFINE row == IF filling[2] THEN Reviewed(w, "draft") ELSE [plans[w] EXCEPT !.status = "draft"]
    <3>2. row \in Plan /\ row.status = "draft"
      BY <3>1, Rows DEF Reviewed, Statuses
    <3>3. plans' = [Closing(W) EXCEPT ![w] = row]
      BY <2>1, <3>1
    <3> HIDE DEF w, row
    <3> QED
      BY <2>2, <2>3, <2>4, <3>2, <3>3, CloseAndPlanMoves
  <2>5. CASE w \notin Windows
    <3>1. plans' = Closing(W)
      BY <2>1, <2>5 DEF Closing
    <3> QED
      BY <2>3, <3>1, CloseMoves
  <2> QED
    BY <2>4, <2>5
<1> QED
  BY <1>1, <1>2

LEMMA OnlyEnds ==
  ASSUME PlansTyped, NEW t, NEW W, OnlyEnd(t, W)
  PROVE  Moves
<1>1. plans' = plans \/ plans' = Closing(W)
  BY DEF OnlyEnd
<1>2. W \in SUBSET Windows /\ W \subseteq Having("active")
  BY ChecksEnd DEF OnlyEnd
<1> QED
  BY <1>1, <1>2, Unmoved, CloseMoves

\* Steps that leave the calendar as it is.
Idles == SwitchScheduler \/ SwitchedOff \/ ListPullers \/ CheckFails \/ TimePasses

LEMMA StepMoves == ASSUME PlansTyped, [Next]_vars PROVE Moves
<1>1. CASE UNCHANGED vars \/ Idles
  <2>1. plans' = plans
    BY <1>1 DEF vars, Idles, SwitchScheduler, SwitchedOff, ListPullers, CheckFails, TimePasses
  <2> QED
    BY <2>1, Unmoved
<1>2. CASE \E w \in Windows : Request(w)
  BY <1>2, RequestMoves
<1>3. CASE Work
  BY <1>3, WorkMoves
<1>4. CASE T15
  BY <1>4, T15Moves
<1>5. CASE Checked
  BY <1>5, TakesOver, StaysEmpty, OnlyEnds DEF Checked
<1> QED
  BY <1>1, <1>2, <1>3, <1>4, <1>5 DEF Next, Idles

-----------------------------------------------------------------------------
(* The calendar.                                                           *)

LEMMA InitMaps == ASSUME Init PROVE PlansTyped /\ Calendar!Init
BY DEF Init, PlansTyped, Plan, Statuses, Calendar!Init

LEMMA MovesMap ==
  ASSUME PlansTyped, Moves
  PROVE  Calendar!Next \/ Stage' = Stage
<1>0. Having("active") = {w \in Windows : Stage[w] = "active"}
  BY DEF Having, Stage
<1>1. CASE Same
  BY <1>1 DEF Same, Stage
<1>2. ASSUME NEW W \in SUBSET Windows, NEW P \in SUBSET Windows, ClosesAndPlans(W, P)
      PROVE  Calendar!Next
  <2>1. Calendar!CloseAndPlan(W, P)
    BY <1>2 DEF ClosesAndPlans, Having, Calendar!CloseAndPlan, Calendar!OnAir
  <2> QED
    BY <2>1 DEF Calendar!Next
<1>3. ASSUME NEW w \in Windows, Begins(w)
      PROVE  Calendar!Next
  <2>1. Calendar!GoOnAir(w)
    BY <1>3 DEF Begins, Having, Calendar!GoOnAir, Calendar!OnAir
  <2> QED
    BY <2>1 DEF Calendar!Next
<1> QED
  BY <1>1, <1>2, <1>3 DEF Moves

\* Whatever operators ask for and whenever the tick reads what, shifts are
\* drafted, on air and over once each, one at a time; requests do not overlap.
THEOREM ImplementsTheCalendar == Spec => ImplementsCalendar
<1>1. Init => PlansTyped /\ Calendar!Init
  BY InitMaps
<1>2. PlansTyped /\ [Next]_vars => PlansTyped' /\ [Calendar!Next]_Stage
  BY StepMoves, MovesMap DEF Moves
<1> QED
  BY <1>1, <1>2, PTL DEF Spec, ImplementsCalendar, Calendar!Spec, Stage

OneOnAir == \A v, w \in Having("active") : v = w

\* So no tick, request or run ever finds two shifts on air (ShiftRace says what
\* becomes of it when requests overlap).
THEOREM OneAtATime == Spec => []OneOnAir
<1>1. Init => PlansTyped /\ OneOnAir
  BY InitMaps DEF Init, OneOnAir, Having
<1>2. ASSUME PlansTyped, OneOnAir, [Next]_vars
      PROVE  PlansTyped' /\ OneOnAir'
  <2>1. Moves
    BY <1>2, StepMoves
  <2>2. ASSUME Same PROVE OneOnAir'
    <3>1. \A v \in Having("active")' : v \in Having("active")
      BY <2>2 DEF Same, Having
    <3> QED
      BY <1>2, <3>1 DEF OneOnAir
  <2>3. ASSUME NEW W \in SUBSET Windows, NEW P \in SUBSET Windows, ClosesAndPlans(W, P)
        PROVE  OneOnAir'
    <3>1. \A v \in Having("active")' : v \in Having("active")
      BY <2>3 DEF ClosesAndPlans, Having
    <3> QED
      BY <1>2, <3>1 DEF OneOnAir
  <2>4. ASSUME NEW w \in Windows, Begins(w)
        PROVE  OneOnAir'
    <3>1. \A v \in Having("active")' : v = w
      BY <2>4 DEF Begins, Having
    <3> QED
      BY <3>1 DEF OneOnAir
  <2> QED
    BY <2>1, <2>2, <2>3, <2>4 DEF Moves
<1> QED
  BY <1>1, <1>2, PTL DEF Spec

-----------------------------------------------------------------------------
(* Lines of a roster.                                                      *)

\* The positions of the lines in Q.
Of(lines, Q) == {i \in DOMAIN lines : lines[i] \in Q}

Dropped(line, source) == line.source = source /\ line.status = "pending"

\* The equations of the function by which Without is defined.
LEMMA WithoutDef ==
  ASSUME NEW lines \in Seq(Line), NEW source
  PROVE  \E rest :
           /\ rest[0] = <<>>
           /\ \A i \in 1..Len(lines) :
                rest[i] = IF Dropped(lines[i], source) THEN rest[i - 1]
                          ELSE Append(rest[i - 1], lines[i])
           /\ Without(lines, source) = rest[Len(lines)]
<1> DEFINE N == Len(lines)
           Rest(r, i) == IF i = 0 THEN <<>>
                         ELSE IF lines[i].source = source /\ lines[i].status = "pending"
                              THEN r[i - 1] ELSE Append(r[i - 1], lines[i])
           Upto(n, r) == r = [i \in 0..n |-> Rest(r, i)]
           S == {n \in 0..N : \E r : Upto(n, r)}
<1>0. N \in Nat
  OBVIOUS
<1>1. 0 \in S
  <2> DEFINE r == [i \in 0..0 |-> <<>>]
  <2>1. Upto(0, r)
    OBVIOUS
  <2> HIDE DEF r
  <2> QED
    BY <1>0, <2>1
<1>2. ASSUME NEW n \in 0..(N - 1), n \in S
      PROVE  n + 1 \in S
  <2>1. PICK r : Upto(n, r)
    BY <1>2
  <2> DEFINE v == [i \in 0..(n + 1) |-> IF i <= n THEN r[i] ELSE Rest(r, i)]
  <2>2. \A i \in 0..n : v[i] = r[i]
    OBVIOUS
  <2>3. \A i \in 0..(n + 1) : v[i] = Rest(v, i)
    <3> TAKE i \in 0..(n + 1)
    <3>1. CASE i = 0
      BY <3>1, <2>1, <2>2
    <3>2. CASE i \in 1..n
      <4>1. r[i] = Rest(r, i)
        <5> i \in 0..n
          BY <3>2
        <5> HIDE DEF Rest
        <5> QED
          BY <2>1
      <4>2. v[i] = r[i] /\ v[i - 1] = r[i - 1] /\ i # 0
        BY <3>2, <2>2
      <4> HIDE DEF v
      <4> QED
        BY <4>1, <4>2
    <3>3. CASE i = n + 1
      <4>1. v[i] = Rest(r, i) /\ i # 0
        BY <3>3
      <4>2. v[i - 1] = r[i - 1]
        BY <3>3, <2>2
      <4> HIDE DEF v
      <4> QED
        BY <4>1, <4>2
    <3> QED
      BY <3>1, <3>2, <3>3
  <2>4. Upto(n + 1, v)
    <3>1. v = [i \in 0..(n + 1) |-> v[i]]
      OBVIOUS
    <3> HIDE DEF v, Rest
    <3> QED
      BY <2>3, <3>1
  <2> HIDE DEF v, Upto
  <2> QED
    BY <1>0, <2>4
<1>3. \E r : Upto(N, r)
  <2>1. \A n \in 0..N : n \in S
    <3> HIDE DEF S
    <3> QED
      BY <1>0, <1>1, <1>2, Induction
  <2> HIDE DEF Upto
  <2> QED
    BY <1>0, <2>1
<1> DEFINE rest == CHOOSE r : Upto(N, r)
<1>4. Without(lines, source) = rest[N]
  BY DEF Without
<1>5. Upto(N, rest)
  <2> HIDE DEF Upto
  <2> QED
    BY <1>3
<1> HIDE DEF rest
<1>6. \A i \in 0..N : rest[i] = Rest(rest, i)
  <2> HIDE DEF Rest
  <2> QED
    BY <1>5
<1>7. rest[0] = <<>>
  BY <1>0, <1>6
<1>8. \A i \in 1..N : rest[i] = IF Dropped(lines[i], source) THEN rest[i - 1]
                                ELSE Append(rest[i - 1], lines[i])
  <2> TAKE i \in 1..N
  <2>1. i \in 0..N /\ i # 0
    BY <1>0
  <2>2. rest[i] = Rest(rest, i)
    BY <1>6, <2>1
  <2> QED
    BY <2>1, <2>2 DEF Dropped
<1> QED
  BY <1>4, <1>7, <1>8

\* Deleting the pending lines of a source leaves lines that were there, in
\* particular all the lines of a set Q that has no such line.
LEMMA WithoutLines ==
  ASSUME NEW lines \in Seq(Line), NEW source, NEW Q, \A l \in Q : ~Dropped(l, source)
  PROVE  LET rest == Without(lines, source) IN
         /\ rest \in Seq(Line)
         /\ \A k \in DOMAIN rest :
              /\ \E i \in DOMAIN lines : rest[k] = lines[i]
              /\ ~Dropped(rest[k], source)
         /\ Cardinality(Of(rest, Q)) = Cardinality(Of(lines, Q))
<1> DEFINE N == Len(lines)
<1>0. N \in Nat /\ DOMAIN lines = 1..N /\ \A i \in 1..N : lines[i] \in Line
  OBVIOUS
<1>1. PICK rest :
        /\ rest[0] = <<>>
        /\ \A i \in 1..N : rest[i] = IF Dropped(lines[i], source) THEN rest[i - 1]
                                     ELSE Append(rest[i - 1], lines[i])
        /\ Without(lines, source) = rest[N]
  BY WithoutDef
<1> DEFINE First(n) == {i \in 1..n : lines[i] \in Q}
           Good(n) ==
             /\ rest[n] \in Seq(Line)
             /\ \A k \in DOMAIN rest[n] :
                  /\ \E i \in 1..n : rest[n][k] = lines[i]
                  /\ ~Dropped(rest[n][k], source)
             /\ IsFiniteSet(Of(rest[n], Q)) /\ IsFiniteSet(First(n))
             /\ Cardinality(Of(rest[n], Q)) = Cardinality(First(n))
           S == {n \in 0..N : Good(n)}
<1>2. 0 \in S
  <2>1. rest[0] = <<>> /\ rest[0] \in Seq(Line) /\ DOMAIN rest[0] = {}
    BY <1>1
  <2>2. Of(rest[0], Q) = {} /\ First(0) = {}
    BY <2>1 DEF Of
  <2>3. IsFiniteSet({})
    BY FS_EmptySet
  <2>4. Good(0)
    <3> HIDE DEF First
    <3> QED
      BY <2>1, <2>2, <2>3
  <2> HIDE DEF Good
  <2> QED
    BY <1>0, <2>4
<1>3. ASSUME NEW n \in 0..(N - 1), n \in S
      PROVE  n + 1 \in S
  <2> DEFINE old == rest[n]
             new == rest[n + 1]
             line == lines[n + 1]
  <2>1. Good(n)
    BY <1>3
  <2>2. line \in Line /\ n + 1 \in 1..N /\ n \in Nat
    BY <1>0
  <2>3. new = IF Dropped(line, source) THEN old ELSE Append(old, line)
    BY <1>1, <2>2
  <2>4. First(n + 1) = IF line \in Q THEN First(n) \cup {n + 1} ELSE First(n)
    BY <2>2
  <2>5. n + 1 \notin First(n)
    BY <2>2
  <2>6. CASE Dropped(line, source)
    <3>1. new = old /\ First(n + 1) = First(n)
      BY <2>3, <2>4, <2>6
    <3>2. \A k \in DOMAIN new : \E i \in 1..(n + 1) : new[k] = lines[i]
      BY <2>1, <2>2, <3>1
    <3>3. Good(n + 1)
      <4> HIDE DEF First
      <4> QED
        BY <2>1, <3>1, <3>2
    <3> QED
      BY <2>2, <3>3
  <2>7. CASE ~Dropped(line, source)
    <3> DEFINE m == Len(old)
    <3>1. new = Append(old, line) /\ old \in Seq(Line)
      BY <2>1, <2>3, <2>7
    <3>2. /\ m \in Nat /\ DOMAIN old = 1..m /\ DOMAIN new = 1..(m + 1)
          /\ new[m + 1] = line /\ \A k \in 1..m : new[k] = old[k]
          /\ new \in Seq(Line)
      BY <2>2, <3>1
    <3> HIDE DEF m, new, old, line
    <3>3. \A k \in DOMAIN new :
            /\ \E i \in 1..(n + 1) : new[k] = lines[i]
            /\ ~Dropped(new[k], source)
      <4> TAKE k \in DOMAIN new
      <4>1. CASE k = m + 1
        BY <2>2, <2>7, <3>2, <4>1 DEF line
      <4>2. CASE k \in 1..m
        <5>1. k \in DOMAIN old /\ new[k] = old[k]
          BY <3>2, <4>2
        <5>2. PICK i \in 1..n : old[k] = lines[i]
          BY <2>1, <5>1 DEF old
        <5>3. i \in 1..(n + 1)
          BY <2>2
        <5>4. ~Dropped(old[k], source)
          BY <2>1, <5>1 DEF old
        <5> QED
          BY <5>1, <5>2, <5>3, <5>4
      <4> QED
        BY <3>2, <4>1, <4>2
    <3>4. Of(new, Q) = IF line \in Q THEN Of(old, Q) \cup {m + 1} ELSE Of(old, Q)
      BY <3>2 DEF Of
    <3>5. m + 1 \notin Of(old, Q)
      BY <3>2 DEF Of
    <3>6. /\ IsFiniteSet(Of(old, Q)) /\ IsFiniteSet(First(n))
          /\ Cardinality(Of(old, Q)) = Cardinality(First(n))
      BY <2>1 DEF old
    <3>7. /\ IsFiniteSet(Of(new, Q)) /\ IsFiniteSet(First(n + 1))
          /\ Cardinality(Of(new, Q)) = Cardinality(First(n + 1))
      <4> HIDE DEF First
      <4>1. CASE line \in Q
        <5>1. /\ Of(new, Q) = Of(old, Q) \cup {m + 1}
              /\ First(n + 1) = First(n) \cup {n + 1}
          BY <2>4, <3>4, <4>1
        <5>2. /\ IsFiniteSet(Of(old, Q) \cup {m + 1})
              /\ Cardinality(Of(old, Q) \cup {m + 1}) = Cardinality(Of(old, Q)) + 1
          BY <3>5, <3>6, FS_AddElement
        <5>3. /\ IsFiniteSet(First(n) \cup {n + 1})
              /\ Cardinality(First(n) \cup {n + 1}) = Cardinality(First(n)) + 1
          BY <2>5, <3>6, FS_AddElement
        <5> QED
          BY <3>6, <5>1, <5>2, <5>3
      <4>2. CASE line \notin Q
        BY <2>4, <3>4, <3>6, <4>2
      <4> QED
        BY <4>1, <4>2
    <3>8. Good(n + 1)
      <4> HIDE DEF First
      <4> QED
        BY <3>2, <3>3, <3>7 DEF new
    <3> QED
      BY <2>2, <3>8
  <2> QED
    BY <2>6, <2>7
<1>4. Good(N)
  <2>1. \A n \in 0..N : n \in S
    <3> HIDE DEF S
    <3> QED
      BY <1>0, <1>2, <1>3, Induction
  <2> HIDE DEF Good
  <2> QED
    BY <1>0, <2>1
<1>5. First(N) = Of(lines, Q)
  BY <1>0 DEF Of
<1> QED
  BY <1>0, <1>1, <1>4, <1>5

LEMMA WithoutKeeps ==
  ASSUME NEW lines \in Seq(Line), NEW source
  PROVE  LET rest == Without(lines, source) IN
         /\ rest \in Seq(Line)
         /\ \A k \in DOMAIN rest :
              /\ \E i \in DOMAIN lines : rest[k] = lines[i]
              /\ ~Dropped(rest[k], source)
<1> DEFINE none == {l \in Line : FALSE}
<1>1. \A l \in none : ~Dropped(l, source)
  OBVIOUS
<1> HIDE DEF none
<1> QED
  BY <1>1, WithoutLines

\* Lines that are new.
LEMMA NewLinesAre ==
  ASSUME NEW n \in Nat, NEW source \in {"standing", "ai_suggested", "manual"}
  PROVE  /\ NewLines(n, source) \in Seq(Line)
         /\ Len(NewLines(n, source)) = n
         /\ DOMAIN NewLines(n, source) = 1..n
         /\ \A k \in 1..n : NewLines(n, source)[k] = NewLine(source, FALSE)
         /\ NewLine(source, FALSE) \in Line
         /\ NewLine(source, FALSE).source = source
         /\ NewLine(source, FALSE).status = "pending"
         /\ ~NewLine(source, FALSE).locked
         /\ ~NewLine(source, FALSE).seen
BY DEF NewLines, NewLine, Line

\* Lines are added behind those that are there.
LEMMA Joined ==
  ASSUME NEW a \in Seq(Line), NEW b \in Seq(Line)
  PROVE  /\ a \o b \in Seq(Line)
         /\ DOMAIN a = 1..Len(a) /\ Len(a) \in Nat
         /\ DOMAIN (a \o b) = 1..(Len(a) + Len(b))
         /\ \A k \in 1..Len(a) : (a \o b)[k] = a[k]
         /\ \A k \in 1..Len(b) : (a \o b)[Len(a) + k] = b[k]
         /\ \A k \in DOMAIN (a \o b) : k \in 1..Len(a) \/ k - Len(a) \in 1..Len(b)
OBVIOUS

\* Positions of lines are finitely many.
LEMMA LinesFinite ==
  ASSUME NEW lines \in Seq(Line), NEW I \in SUBSET DOMAIN lines
  PROVE  IsFiniteSet(I) /\ Cardinality(I) \in Nat
<1>1. DOMAIN lines = 1..Len(lines) /\ Len(lines) \in Nat
  OBVIOUS
<1>2. IsFiniteSet(1..Len(lines))
  BY <1>1, FS_Interval
<1>3. IsFiniteSet(I)
  BY <1>1, <1>2, FS_Subset
<1> QED
  BY <1>3, FS_CardinalityType

\* Adding n new lines of a source keeps what was there and adds nothing to a set
\* that has no new line of the source.
LEMMA JoinedNew ==
  ASSUME NEW a \in Seq(Line), NEW n \in Nat,
         NEW source \in {"standing", "ai_suggested", "manual"}
  PROVE  LET new == a \o NewLines(n, source) IN
         /\ new \in Seq(Line)
         /\ DOMAIN new = 1..(Len(a) + n)
         /\ \A k \in 1..Len(a) : new[k] = a[k]
         /\ \A k \in (Len(a) + 1)..(Len(a) + n) : new[k] = NewLine(source, FALSE)
         /\ \A Q : NewLine(source, FALSE) \notin Q => Of(new, Q) = Of(a, Q)
<1> DEFINE b == NewLines(n, source)
           new == a \o b
<1>1. b \in Seq(Line) /\ Len(b) = n /\ \A k \in 1..n : b[k] = NewLine(source, FALSE)
  BY NewLinesAre
<1>2. /\ new \in Seq(Line) /\ DOMAIN a = 1..Len(a) /\ Len(a) \in Nat
      /\ DOMAIN new = 1..(Len(a) + n)
      /\ \A k \in 1..Len(a) : new[k] = a[k]
      /\ \A k \in 1..n : new[Len(a) + k] = b[k]
  BY <1>1, Joined
<1> HIDE DEF b, new
<1>3. ASSUME NEW k \in (Len(a) + 1)..(Len(a) + n)
      PROVE  new[k] = NewLine(source, FALSE)
  <2>1. k - Len(a) \in 1..n /\ k = Len(a) + (k - Len(a))
    BY <1>2
  <2> QED
    BY <1>1, <1>2, <2>1
<1>4. ASSUME NEW Q, NewLine(source, FALSE) \notin Q
      PROVE  Of(new, Q) = Of(a, Q)
  <2>1. \A k \in DOMAIN new : k \in 1..Len(a) \/ k \in (Len(a) + 1)..(Len(a) + n)
    BY <1>2
  <2>2. \A k \in 1..Len(a) : k \in DOMAIN new
    BY <1>2
  <2> QED
    BY <1>2, <1>3, <1>4, <2>1, <2>2 DEF Of
<1> QED
  BY <1>2, <1>3, <1>4 DEF new, b

AnyOrder == Order \cup {NoOrder}

\* How many lines an order asks for.
LEMMA OrderNumbers ==
  ASSUME NEW order \in AnyOrder
  PROVE  order.topics \in Nat /\ Target(order) \in Nat
BY TimeAssumption DEF AnyOrder, Order, NoOrder, Target

LEMMA LeastNat == \A m, n \in Nat : Least(m, n) \in Nat /\ Least(m, n) <= n
BY DEF Least

LEMMA LessNat ==
  \A m, n \in Nat : Less(m, n) \in Nat /\ (Less(m, n) > 0 => Less(m, n) + n = m)
BY DEF Less

\* The lines of an order.
Ordered(kept, order) ==
  Least(order.topics, Less(Target(order), Cardinality(LockedOf(kept))))

LEMMA OrderedNat ==
  ASSUME NEW kept \in Seq(Line), NEW order \in AnyOrder
  PROVE  /\ Ordered(kept, order) \in Nat
         /\ Cardinality(LockedOf(kept)) \in Nat
         /\ Ordered(kept, order) > 0 =>
              Cardinality(LockedOf(kept)) + Ordered(kept, order) <= Target(order)
<1>1. Cardinality(LockedOf(kept)) \in Nat
  BY LinesFinite DEF LockedOf, Unfinished
<1> DEFINE c == Cardinality(LockedOf(kept))
           free == Less(Target(order), c)
<1>2. free \in Nat /\ (free > 0 => free + c = Target(order)) /\ Target(order) \in Nat
  BY <1>1, LessNat, OrderNumbers
<1>3. Ordered(kept, order) \in Nat /\ Ordered(kept, order) <= free
  BY <1>2, LeastNat, OrderNumbers DEF Ordered
<1> QED
  BY <1>1, <1>2, <1>3

\* Applying a standing order leaves lines that were there and new ones of the
\* order, and of a set without pending standing lines as many as before.
LEMMA StandingLines ==
  ASSUME NEW lines \in Seq(Line), NEW order \in AnyOrder
  PROVE  LET new == ApplyStanding(lines, order) IN
         /\ new \in Seq(Line)
         /\ \A k \in DOMAIN new :
              (\E i \in DOMAIN lines : new[k] = lines[i]) \/ new[k] = NewLine("standing", FALSE)
         /\ \A Q : (\A l \in Q : ~Dropped(l, "standing")) =>
                     Cardinality(Of(new, Q)) = Cardinality(Of(lines, Q))
<1> DEFINE kept == Without(lines, "standing")
           n == Ordered(kept, order)
           new == kept \o NewLines(n, "standing")
<1>1. ApplyStanding(lines, order) = new
  BY DEF ApplyStanding, Ordered
<1>2. kept \in Seq(Line) /\ \A k \in DOMAIN kept : \E i \in DOMAIN lines : kept[k] = lines[i]
  BY WithoutKeeps
<1>3. \A Q : (\A l \in Q : ~Dropped(l, "standing")) =>
               Cardinality(Of(kept, Q)) = Cardinality(Of(lines, Q))
  BY WithoutLines
<1> HIDE DEF kept
<1>4. n \in Nat /\ DOMAIN kept = 1..Len(kept) /\ Len(kept) \in Nat
  BY <1>2, OrderedNat
<1> HIDE DEF n
<1>5. /\ new \in Seq(Line)
      /\ DOMAIN new = 1..(Len(kept) + n)
      /\ \A k \in 1..Len(kept) : new[k] = kept[k]
      /\ \A k \in (Len(kept) + 1)..(Len(kept) + n) : new[k] = NewLine("standing", FALSE)
      /\ \A Q : NewLine("standing", FALSE) \notin Q => Of(new, Q) = Of(kept, Q)
  BY <1>2, <1>4, JoinedNew
<1> HIDE DEF new
<1>6. \A k \in DOMAIN new :
        (\E i \in DOMAIN lines : new[k] = lines[i]) \/ new[k] = NewLine("standing", FALSE)
  <2> TAKE k \in DOMAIN new
  <2>1. k \in 1..Len(kept) \/ k \in (Len(kept) + 1)..(Len(kept) + n)
    BY <1>4, <1>5
  <2> QED
    BY <1>2, <1>4, <1>5, <2>1
<1>7. ASSUME NEW Q, \A l \in Q : ~Dropped(l, "standing")
      PROVE  Cardinality(Of(new, Q)) = Cardinality(Of(lines, Q))
  <2>1. NewLine("standing", FALSE) \notin Q
    BY <1>7 DEF Dropped, NewLine
  <2> QED
    BY <1>3, <1>5, <1>7, <2>1
<1> QED
  BY <1>1, <1>5, <1>6, <1>7

\* The gap that a model may fill.
LEMMA GapNat ==
  ASSUME NEW lines \in Seq(Line), NEW order \in AnyOrder
  PROVE  /\ Gap(lines, order) \in Nat
         /\ Cardinality(Unfinished(lines)) \in Nat
         /\ Gap(lines, order) > 0 =>
              Cardinality(Unfinished(lines)) + Gap(lines, order) = Target(order)
<1> DEFINE c == Cardinality(Unfinished(lines))
<1>1. c \in Nat
  BY LinesFinite DEF Unfinished
<1>2. Target(order) \in Nat
  BY OrderNumbers
<1>3. Gap(lines, order) = Less(Target(order), c)
  BY DEF Gap
<1> HIDE DEF c
<1>4. /\ Less(Target(order), c) \in Nat
      /\ Less(Target(order), c) > 0 => Less(Target(order), c) + c = Target(order)
  BY <1>1, <1>2, LessNat
<1>5. /\ Gap(lines, order) \in Nat
      /\ Gap(lines, order) > 0 => c + Gap(lines, order) = Target(order)
  BY <1>1, <1>2, <1>3, <1>4
<1> QED
  BY <1>1, <1>5 DEF c

\* Generating a roster leaves lines that were there and new standing or suggested
\* ones, and of a set without pending lines of either as many as before.
LEMMA GeneratedLines ==
  ASSUME NEW lines \in Seq(Line), NEW order \in AnyOrder, NEW n \in Nat
  PROVE  LET new == Generated(lines, order, n) IN
         /\ new \in Seq(Line)
         /\ \A k \in DOMAIN new :
              \/ \E i \in DOMAIN lines : new[k] = lines[i]
              \/ new[k] \in {NewLine("standing", FALSE), NewLine("ai_suggested", FALSE)}
         /\ \A Q : (\A l \in Q : ~Dropped(l, "standing") /\ ~Dropped(l, "ai_suggested")) =>
                     Cardinality(Of(new, Q)) = Cardinality(Of(lines, Q))
<1> DEFINE bare == Without(lines, "ai_suggested")
           standing == ApplyStanding(bare, order)
           m == Least(n, Gap(standing, order))
           new == standing \o NewLines(m, "ai_suggested")
<1>1. Generated(lines, order, n) = new
  BY DEF Generated
<1>2. bare \in Seq(Line) /\ \A k \in DOMAIN bare : \E i \in DOMAIN lines : bare[k] = lines[i]
  BY WithoutKeeps
<1>3. \A Q : (\A l \in Q : ~Dropped(l, "ai_suggested")) =>
               Cardinality(Of(bare, Q)) = Cardinality(Of(lines, Q))
  BY WithoutLines
<1> HIDE DEF bare
<1>4. /\ standing \in Seq(Line)
      /\ \A k \in DOMAIN standing :
           (\E i \in DOMAIN bare : standing[k] = bare[i]) \/ standing[k] = NewLine("standing", FALSE)
      /\ \A Q : (\A l \in Q : ~Dropped(l, "standing")) =>
                  Cardinality(Of(standing, Q)) = Cardinality(Of(bare, Q))
  BY <1>2, StandingLines
<1> HIDE DEF standing
<1>5. m \in Nat /\ DOMAIN standing = 1..Len(standing) /\ Len(standing) \in Nat
  <2>1. Gap(standing, order) \in Nat
    BY <1>4, GapNat
  <2>2. m \in Nat
    BY <2>1, LeastNat
  <2> QED
    BY <1>4, <2>2
<1> HIDE DEF m
<1>6. /\ new \in Seq(Line)
      /\ DOMAIN new = 1..(Len(standing) + m)
      /\ \A k \in 1..Len(standing) : new[k] = standing[k]
      /\ \A k \in (Len(standing) + 1)..(Len(standing) + m) :
           new[k] = NewLine("ai_suggested", FALSE)
      /\ \A Q : NewLine("ai_suggested", FALSE) \notin Q => Of(new, Q) = Of(standing, Q)
  BY <1>4, <1>5, JoinedNew
<1> HIDE DEF new
<1>7. \A k \in DOMAIN new :
        \/ \E i \in DOMAIN lines : new[k] = lines[i]
        \/ new[k] \in {NewLine("standing", FALSE), NewLine("ai_suggested", FALSE)}
  <2> TAKE k \in DOMAIN new
  <2>1. k \in 1..Len(standing) \/ k \in (Len(standing) + 1)..(Len(standing) + m)
    BY <1>5, <1>6
  <2> QED
    BY <1>2, <1>4, <1>5, <1>6, <2>1
<1>8. ASSUME NEW Q, \A l \in Q : ~Dropped(l, "standing") /\ ~Dropped(l, "ai_suggested")
      PROVE  Cardinality(Of(new, Q)) = Cardinality(Of(lines, Q))
  <2>1. NewLine("ai_suggested", FALSE) \notin Q
    BY <1>8 DEF Dropped, NewLine
  <2> QED
    BY <1>3, <1>4, <1>6, <1>8, <2>1
<1> QED
  BY <1>1, <1>6, <1>7, <1>8

-----------------------------------------------------------------------------
(* Types.                                                                  *)

\* A desk that is not on a shift has no lines there.
Placed == \A w \in Windows, d \in Desks : d \notin slots[w] => roster[w][d] = <<>>

LEMMA EmptyLines ==
  /\ <<>> \in Seq(Line)
  /\ \A lines \in Seq(Line) : DOMAIN lines = {} => lines = <<>>
<1>1. <<>> \in Seq(Line)
  OBVIOUS
<1>2. ASSUME NEW lines \in Seq(Line), DOMAIN lines = {}
      PROVE  lines = <<>>
  <2>1. Len(lines) \in Nat /\ DOMAIN lines = 1..Len(lines)
    OBVIOUS
  <2>2. Len(lines) = 0
    <3>1. CASE Len(lines) # 0
      <4>1. 1 \in DOMAIN lines
        BY <2>1, <3>1
      <4> QED
        BY <1>2, <4>1
    <3> QED
      BY <3>1
  <2> QED
    BY <2>2
<1> QED
  BY <1>1, <1>2

LEMMA EmptyWithout ==
  ASSUME NEW source
  PROVE  Without(<<>>, source) = <<>>
<1>1. Without(<<>>, source) \in Seq(Line) /\ DOMAIN Without(<<>>, source) = {}
  <2>1. <<>> \in Seq(Line) /\ DOMAIN <<>> = {}
    BY EmptyLines
  <2> QED
    BY <2>1, WithoutKeeps
<1> QED
  BY <1>1, EmptyLines

\* A line is marked: its status changes, or an operator changes it.
LEMMA MarkLine ==
  ASSUME NEW lines \in Seq(Line), NEW i \in DOMAIN lines, NEW line \in Line
  PROVE  /\ [lines EXCEPT ![i] = line] \in Seq(Line)
         /\ DOMAIN [lines EXCEPT ![i] = line] = DOMAIN lines
         /\ [lines EXCEPT ![i] = line][i] = line
         /\ \A k \in DOMAIN lines : k # i => [lines EXCEPT ![i] = line][k] = lines[k]
OBVIOUS

\* Lines that are changed one by one.
LEMMA EachLine ==
  ASSUME NEW lines \in Seq(Line), NEW new, DOMAIN new = DOMAIN lines,
         new = [i \in DOMAIN lines |-> new[i]],
         \A i \in DOMAIN lines : new[i] \in Line
  PROVE  new \in Seq(Line)
<1>1. DOMAIN lines = 1..Len(lines) /\ Len(lines) \in Nat
  OBVIOUS
<1>2. new \in [1..Len(lines) -> Line]
  BY <1>1
<1> QED
  BY <1>1, <1>2

\* The lines of a shift that is stopped.
LEMMA SettledLines ==
  ASSUME NEW lines \in Seq(Line)
  PROVE  /\ Settled(lines) \in Seq(Line)
         /\ DOMAIN Settled(lines) = DOMAIN lines
         /\ \A i \in DOMAIN lines :
              /\ Settled(lines)[i].source = lines[i].source
              /\ Settled(lines)[i].locked = lines[i].locked
              /\ Settled(lines)[i].seen = lines[i].seen
              /\ Settled(lines)[i].status = "ended"
<1>1. \A i \in DOMAIN lines : lines[i] \in Line
  OBVIOUS
<1>2. /\ DOMAIN Settled(lines) = DOMAIN lines
      /\ Settled(lines) = [i \in DOMAIN lines |-> Settled(lines)[i]]
      /\ \A i \in DOMAIN lines : Settled(lines)[i] = [lines[i] EXCEPT !.status = "ended"]
  BY DEF Settled
<1>3. \A i \in DOMAIN lines :
        /\ Settled(lines)[i] \in Line
        /\ Settled(lines)[i].source = lines[i].source
        /\ Settled(lines)[i].locked = lines[i].locked
        /\ Settled(lines)[i].seen = lines[i].seen
        /\ Settled(lines)[i].status = "ended"
  BY <1>1, <1>2 DEF Line
<1>4. Settled(lines) \in Seq(Line)
  BY <1>2, <1>3, EachLine
<1> QED
  BY <1>2, <1>3, <1>4

\* The time of a check is in a window.
LEMMA WindowTyped ==
  ASSUME NEW t \in Nat, t < Horizon
  PROVE  WindowAt(t) \in Windows
<1> USE TimeAssumption
<1> DEFINE In(w) == Starts(w) <= t /\ t < Ends(w)
           S == {n \in 0..Count : t < n * Length => \E w \in Windows : In(w)}
<1>1. 0 \in S
  OBVIOUS
<1>2. ASSUME NEW n \in 0..(Count - 1), n \in S
      PROVE  n + 1 \in S
  <2>1. n + 1 \in Windows /\ n + 1 \in 0..Count /\ n \in Nat
    BY DEF Windows
  <2>2. (n + 1) - 1 = n /\ n * Length \in Nat
    BY <2>1
  <2>3. Starts(n + 1) = n * Length /\ Ends(n + 1) = (n + 1) * Length
    BY <2>2 DEF Starts, Ends
  <2>4. CASE t < n * Length
    BY <1>2, <2>1, <2>4
  <2>5. CASE ~(t < n * Length) /\ t < (n + 1) * Length
    <3>1. In(n + 1)
      BY <2>2, <2>3, <2>5
    <3> QED
      BY <2>1, <3>1
  <2>6. CASE ~(t < (n + 1) * Length)
    BY <2>1, <2>6
  <2> QED
    BY <2>4, <2>5, <2>6
<1>3. Count \in S
  <2>1. \A n \in 0..Count : n \in S
    <3> HIDE DEF S
    <3> QED
      BY <1>1, <1>2, Induction
  <2> HIDE DEF S
  <2> QED
    BY <2>1
<1>4. \E w \in Windows : In(w)
  BY <1>3 DEF Horizon
<1> QED
  BY <1>4 DEF WindowAt
\* The parts of the type that lines depend on.
LEMMA RosterTyped ==
  ASSUME TypeOK
  PROVE  /\ \A w \in Windows : roster[w] \in [Desks -> Seq(Line)]
         /\ \A w \in Windows, d \in Desks : roster[w][d] \in Seq(Line)
         /\ \A w \in Windows, d \in Desks : orders[d][w] \in AnyOrder
         /\ \A w \in Windows : slots[w] \in SUBSET Desks
         /\ \A w \in Windows : plans[w] \in Plan
         /\ \A w \in Windows : Bootstrapped(w) \in SUBSET Desks /\ slots[w] \subseteq Bootstrapped(w)
BY DEF TypeOK, AnyOrder, Bootstrapped

\* The rosters a draft is filled with when a window begins.
LEMMA FillingIs ==
  ASSUME TypeOK, Placed, NEW w \in Windows, NEW filling \in Fillings(w)
  PROVE  /\ filling[1] \in [Desks -> Seq(Line)]
         /\ filling[2] \in BOOLEAN
         /\ \A d \in Desks :
              \/ filling[1][d] = roster[w][d]
              \/ /\ d \in Bootstrapped(w)
                 /\ filling[1][d] = ApplyStanding(roster[w][d], orders[d][w])
              \/ /\ d \in Bootstrapped(w) /\ filling[2]
                 /\ \E n \in Nat : filling[1][d] = Generated(roster[w][d], orders[d][w], n)
         /\ filling[2] =>
              \A d \in Desks :
                /\ roster[w][d] = <<>>
                /\ \/ filling[1][d] = <<>>
                   \/ \E n \in Nat : filling[1][d] = Generated(roster[w][d], orders[d][w], n)
<1> DEFINE Drafted(n) == [d \in Desks |-> IF d \in Bootstrapped(w)
                                          THEN Generated(roster[w][d], orders[d][w], n[d])
                                          ELSE roster[w][d]]
<1>1. /\ \A d \in Desks : roster[w][d] \in Seq(Line) /\ orders[d][w] \in AnyOrder
      /\ roster[w] \in [Desks -> Seq(Line)]
  BY RosterTyped
<1>2. CASE filling = <<roster[w], FALSE>>
  <2>1. filling[1] = roster[w] /\ filling[2] = FALSE
    BY <1>2
  <2> QED
    BY <1>1, <2>1
<1>3. CASE filling = <<Standing(w), FALSE>>
  <2>1. filling[1] = Standing(w) /\ filling[2] = FALSE
    BY <1>3
  <2>2. \A d \in Desks : ApplyStanding(roster[w][d], orders[d][w]) \in Seq(Line)
    BY <1>1, StandingLines
  <2>3. Standing(w) \in [Desks -> Seq(Line)]
    BY <1>1, <2>2 DEF Standing
  <2>4. \A d \in Desks :
          Standing(w)[d] = IF d \in Bootstrapped(w)
                           THEN ApplyStanding(roster[w][d], orders[d][w]) ELSE roster[w][d]
    BY DEF Standing
  <2> QED
    BY <2>1, <2>3, <2>4
<1>4. ASSUME ~Total(w, roster[w]),
             NEW n \in [Bootstrapped(w) -> 0..MaxTopics], filling = <<Drafted(n), TRUE>>
      PROVE  /\ filling[1] \in [Desks -> Seq(Line)]
             /\ filling[2] = TRUE
             /\ \A d \in Desks :
                  /\ roster[w][d] = <<>>
                  /\ \/ d \notin Bootstrapped(w) /\ filling[1][d] = <<>>
                     \/ /\ d \in Bootstrapped(w)
                        /\ \E m \in Nat : filling[1][d] = Generated(roster[w][d], orders[d][w], m)
  <2>1. filling[1] = Drafted(n) /\ filling[2] = TRUE
    BY <1>4
  <2>2. \A d \in Bootstrapped(w) : n[d] \in Nat /\ d \in Desks
    BY TimeAssumption, RosterTyped
  <2>3. \A d \in Desks : roster[w][d] = <<>>
    BY <1>4 DEF Placed, Total
  <2>4. \A d \in Bootstrapped(w) : Generated(roster[w][d], orders[d][w], n[d]) \in Seq(Line)
    BY <1>1, <2>2, GeneratedLines
  <2>5. Drafted(n) \in [Desks -> Seq(Line)]
    BY <1>1, <2>4
  <2>6. \A d \in Desks :
          Drafted(n)[d] = IF d \in Bootstrapped(w)
                          THEN Generated(roster[w][d], orders[d][w], n[d]) ELSE roster[w][d]
    OBVIOUS
  <2> HIDE DEF Drafted
  <2> QED
    BY <2>1, <2>2, <2>3, <2>5, <2>6
<1>5. \/ filling = <<roster[w], FALSE>>
      \/ filling = <<Standing(w), FALSE>>
      \/ /\ ~Total(w, roster[w])
         /\ \E n \in [Bootstrapped(w) -> 0..MaxTopics] : filling = <<Drafted(n), TRUE>>
  BY DEF Fillings
<1> QED
  BY <1>2, <1>3, <1>4, <1>5

\* Lines that are marked, and nothing else: a line that begins to run was free to.
Marks(w, lines, new) ==
  /\ DOMAIN new = DOMAIN lines
  /\ \A i \in DOMAIN lines :
       /\ new[i].source = lines[i].source
       /\ new[i].locked = lines[i].locked
       /\ new[i].seen = lines[i].seen
       /\ new[i].status = "running" => lines[i].status = "running" \/ Dispatchable(w, lines[i])

\* What the tick and the factory loop do to a roster.
Refilled(w, d) ==
  /\ d \in slots'[w]
  /\ \/ roster'[w][d] = ApplyStanding(roster[w][d], orders[d][w])
     \/ /\ plans'[w].review = "pending"
        /\ \E n \in Nat : roster'[w][d] = Generated(roster[w][d], orders[d][w], n)

QuietMoves ==
  /\ roster' \in [Windows -> [Desks -> Seq(Line)]]
  /\ slots' \in [Windows -> SUBSET Desks]
  /\ \A w \in Windows : slots[w] \subseteq slots'[w]
  /\ \A w \in Windows, d \in Desks :
       Marks(w, roster[w][d], roster'[w][d]) \/ Refilled(w, d)
  /\ \A w \in Windows : plans'[w].review \in {plans[w].review, "pending"}
  /\ \A w \in Windows, d \in Desks :
       ~plans[w].t15 /\ plans'[w].t15 =>
         \/ roster'[w][d] = <<>>
         \/ \E n \in Nat : roster'[w][d] = Generated(roster[w][d], orders[d][w], n)

LEMMA SameMarks ==
  ASSUME NEW w, NEW lines
  PROVE  Marks(w, lines, lines)
BY DEF Marks

LEMMA SettledMarks ==
  ASSUME NEW w, NEW lines \in Seq(Line)
  PROVE  Marks(w, lines, Settled(lines))
BY SettledLines DEF Marks

\* Nothing changes on the calendar.
LEMMA StillMoves ==
  ASSUME TypeOK, UNCHANGED <<plans, slots, roster>>
  PROVE  QuietMoves
BY SameMarks DEF QuietMoves, TypeOK

\* The lines of one desk change.
LEMMA DeskChanges ==
  ASSUME NEW S, NEW f \in [Windows -> [Desks -> S]],
         NEW w \in Windows, NEW d \in Desks, NEW new \in S
  PROVE  LET g == [f EXCEPT ![w] = [f[w] EXCEPT ![d] = new]] IN
         /\ g \in [Windows -> [Desks -> S]]
         /\ \A v \in Windows, e \in Desks : g[v][e] = IF v = w /\ e = d THEN new ELSE f[v][e]
<1>1. [f[w] EXCEPT ![d] = new] \in [Desks -> S]
  OBVIOUS
<1> QED
  BY <1>1

\* One line of a desk changes its status.
LEMMA StatusMoves ==
  ASSUME TypeOK, NEW w \in Windows, NEW d \in Desks, NEW i \in DOMAIN roster[w][d],
         NEW status \in {"running", "ended"},
         status = "running" => Dispatchable(w, roster[w][d][i]),
         roster' = [roster EXCEPT ![w][d][i].status = status]
  PROVE  /\ roster' \in [Windows -> [Desks -> Seq(Line)]]
         /\ \A v \in Windows, e \in Desks : Marks(v, roster[v][e], roster'[v][e])
<1> DEFINE line == [roster[w][d][i] EXCEPT !.status = status]
           new == [roster[w][d] EXCEPT ![i] = line]
<1>1. roster \in [Windows -> [Desks -> Seq(Line)]] /\ roster[w][d] \in Seq(Line)
  BY DEF TypeOK
<1>2. roster[w][d][i] \in Line
  BY <1>1
<1>3. /\ line \in Line
      /\ line.source = roster[w][d][i].source
      /\ line.locked = roster[w][d][i].locked
      /\ line.seen = roster[w][d][i].seen
      /\ line.status = status
  BY <1>2 DEF Line
<1>4. roster' = [roster EXCEPT ![w] = [roster[w] EXCEPT ![d] = new]]
  BY <1>1
<1> HIDE DEF line
<1>5. /\ new \in Seq(Line)
      /\ DOMAIN new = DOMAIN roster[w][d]
      /\ new[i] = line
      /\ \A k \in DOMAIN roster[w][d] : k # i => new[k] = roster[w][d][k]
  BY <1>1, <1>3, MarkLine
<1> HIDE DEF new
<1>6. Marks(w, roster[w][d], new)
  BY <1>3, <1>5 DEF Marks
<1>7. roster' \in [Windows -> [Desks -> Seq(Line)]] /\ \A v \in Windows, e \in Desks :
        roster'[v][e] = IF v = w /\ e = d THEN new ELSE roster[v][e]
  <2> DEFINE S == Seq(Line)
  <2>1. new \in S /\ roster \in [Windows -> [Desks -> S]]
    BY <1>1, <1>5
  <2> HIDE DEF S
  <2> DEFINE g == [roster EXCEPT ![w] = [roster[w] EXCEPT ![d] = new]]
  <2>2. g \in [Windows -> [Desks -> S]] /\ \A v \in Windows, e \in Desks :
          g[v][e] = IF v = w /\ e = d THEN new ELSE roster[v][e]
    BY <2>1, DeskChanges
  <2>3. roster' = g
    BY <1>4
  <2> HIDE DEF g
  <2> QED
    BY <2>2, <2>3 DEF S
<1> QED
  BY <1>6, <1>7, SameMarks

\* Shifts end.
LEMMA DroppingMarks ==
  ASSUME TypeOK, NEW W \in SUBSET Windows
  PROVE  /\ Dropping(W) \in [Windows -> [Desks -> Seq(Line)]]
         /\ \A w \in Windows, d \in Desks : Marks(w, roster[w][d], Dropping(W)[w][d])
         /\ \A w \in Windows : w \notin W => Dropping(W)[w] = roster[w]
<1>1. /\ \A w \in Windows, d \in Desks : roster[w][d] \in Seq(Line)
      /\ \A w \in Windows : roster[w] \in [Desks -> Seq(Line)]
  BY RosterTyped
<1>2. \A w \in Windows, d \in Desks : Settled(roster[w][d]) \in Seq(Line)
  BY <1>1, SettledLines
<1>3. \A w \in Windows :
        Dropping(W)[w] = IF w \in W THEN [d \in Desks |-> Settled(roster[w][d])] ELSE roster[w]
  BY DEF Dropping
<1>4. \A w \in Windows : Dropping(W)[w] \in [Desks -> Seq(Line)]
  BY <1>1, <1>2, <1>3
<1>5. Dropping(W) \in [Windows -> [Desks -> Seq(Line)]]
  BY <1>4 DEF Dropping
<1>6. ASSUME NEW w \in Windows, NEW d \in Desks
      PROVE  Marks(w, roster[w][d], Dropping(W)[w][d])
  <2>1. CASE w \in W
    <3>1. Dropping(W)[w][d] = Settled(roster[w][d])
      BY <1>3, <2>1
    <3> QED
      BY <1>1, <3>1, SettledMarks
  <2>2. CASE w \notin W
    BY <1>3, <2>2, SameMarks
  <2> QED
    BY <2>1, <2>2
<1> QED
  BY <1>3, <1>5, <1>6

\* The rows of plans that are closed.
LEMMA ClosingRows ==
  ASSUME TypeOK, NEW W \in SUBSET Windows
  PROVE  \A w \in Windows :
           /\ Closing(W)[w].review = plans[w].review
           /\ Closing(W)[w].t15 = plans[w].t15
           /\ w \notin W => Closing(W)[w] = plans[w]
<1>1. \A w \in Windows : plans[w] \in Plan
  BY RosterTyped
<1> QED
  BY <1>1 DEF Closing, Plan

LEMMA StaffedSlots ==
  ASSUME TypeOK, NEW t, NEW w
  PROVE  /\ Staffed(t, w) \in [Windows -> SUBSET Desks]
         /\ \A v \in Windows : slots[v] \subseteq Staffed(t, w)[v]
         /\ w \in Windows => Staffed(t, w)[w] = Bootstrapped(w)
BY RosterTyped DEF Staffed, TypeOK

LEMMA WorkQuiet ==
  ASSUME TypeOK, Work
  PROVE  QuietMoves
<1>1. PICK w \in Windows, d \in Desks : Dispatch(w, d) \/ Settle(w, d)
  BY DEF Work
<1>2. PICK i \in DOMAIN roster[w][d], status \in {"running", "ended"} :
        /\ status = "running" => Dispatchable(w, roster[w][d][i])
        /\ roster' = [roster EXCEPT ![w][d][i].status = status]
  BY <1>1 DEF Dispatch, Settle
<1>3. /\ roster' \in [Windows -> [Desks -> Seq(Line)]]
      /\ \A v \in Windows, e \in Desks : Marks(v, roster[v][e], roster'[v][e])
  BY <1>2, StatusMoves
<1>4. slots' = slots /\ slots \in [Windows -> SUBSET Desks]
  BY <1>1 DEF Dispatch, Settle, TypeOK
<1>5. plans' = plans \/ plans' = Closing({w})
  BY <1>1 DEF Dispatch, Settle
<1>6. \A v \in Windows : plans'[v].review = plans[v].review /\ plans'[v].t15 = plans[v].t15
  BY <1>5, ClosingRows
<1> QED
  BY <1>3, <1>4, <1>6 DEF QuietMoves

LEMMA T15Quiet ==
  ASSUME TypeOK, Placed, T15
  PROVE  QuietMoves
<1>1. CASE FindDueForT15 \/ SkipT15
  BY <1>1, StillMoves DEF FindDueForT15, SkipT15
<1>2. CASE GenerateRoster
  <2> DEFINE w == tick.plan
             Drafted(n) == [d \in Desks |->
               IF d \in slots[w] THEN Generated(roster[w][d], orders[d][w], n[d]) ELSE roster[w][d]]
  <2>0. roster \in [Windows -> [Desks -> Seq(Line)]] /\ plans \in [Windows -> Plan]
    BY DEF TypeOK
  <2>1. PICK n \in [slots[w] -> 0..MaxTopics] : roster' = [roster EXCEPT ![w] = Drafted(n)]
    BY <1>2, <2>0 DEF GenerateRoster
  <2>2. /\ slots' = slots /\ slots \in [Windows -> SUBSET Desks]
        /\ plans' = [plans EXCEPT ![w] = Reviewed(w, plans[w].status)]
    BY <1>2 DEF GenerateRoster, Rostered, TypeOK
  <2>3. CASE w \notin Windows
    <3>1. roster' = roster /\ plans' = plans
      BY <2>0, <2>1, <2>2, <2>3
    <3> QED
      BY <2>2, <3>1, StillMoves
  <2>4. CASE w \in Windows
    <3>1. \A d \in Desks : roster[w][d] \in Seq(Line) /\ orders[d][w] \in AnyOrder
      BY <2>4, RosterTyped
    <3>2. \A d \in slots[w] : n[d] \in Nat /\ d \in Desks
      BY <2>2, <2>4, TimeAssumption
    <3>3. \A d \in slots[w] : Generated(roster[w][d], orders[d][w], n[d]) \in Seq(Line)
      BY <3>1, <3>2, GeneratedLines
    <3>4. Drafted(n) \in [Desks -> Seq(Line)]
      BY <3>1, <3>3
    <3>5. \A d \in Desks : Drafted(n)[d] =
            IF d \in slots[w] THEN Generated(roster[w][d], orders[d][w], n[d]) ELSE roster[w][d]
      OBVIOUS
    <3>6. \A v \in Windows :
            /\ plans'[v].review = IF v = w THEN "pending" ELSE plans[v].review
            /\ v # w => plans'[v].t15 = plans[v].t15
      <4>1. Reviewed(w, plans[w].status).review = "pending"
        BY <2>0, <2>4 DEF Reviewed, Plan
      <4> QED
        BY <2>0, <2>2, <4>1
    <3> HIDE DEF Drafted, w
    <3>7. /\ roster' \in [Windows -> [Desks -> Seq(Line)]]
          /\ roster'[w] = Drafted(n)
          /\ \A v \in Windows : v # w => roster'[v] = roster[v]
      BY <2>0, <2>1, <2>4, <3>4
    <3>8. \A d \in Desks :
            \/ d \in slots[w] /\ \E m \in Nat :
                 roster'[w][d] = Generated(roster[w][d], orders[d][w], m)
            \/ d \notin slots[w] /\ roster'[w][d] = roster[w][d] /\ roster[w][d] = <<>>
      BY <2>4, <3>2, <3>5, <3>7 DEF Placed
    <3>9. \A v \in Windows, d \in Desks :
            Marks(v, roster[v][d], roster'[v][d]) \/ Refilled(v, d)
      <4> TAKE v \in Windows, d \in Desks
      <4>1. CASE v = w /\ d \in slots[w]
        BY <2>2, <3>6, <3>8, <4>1, <2>4 DEF Refilled
      <4>2. CASE ~(v = w /\ d \in slots[w])
        BY <3>7, <3>8, <4>2, SameMarks
      <4> QED
        BY <4>1, <4>2
    <3> QED
      BY <2>2, <3>6, <3>7, <3>8, <3>9 DEF QuietMoves
  <2> QED
    BY <2>3, <2>4
<1> QED
  BY <1>1, <1>2 DEF T15

LEMMA TakeOverQuiet ==
  ASSUME TypeOK, Placed, NEW t \in Nat, NEW W, TakeOver(t, W)
  PROVE  QuietMoves
<1> DEFINE w == WindowAt(t)
           others == Having("active") \ {w}
<1>0. w \in Windows
  BY WindowTyped DEF TakeOver
<1>1. others \in SUBSET Windows /\ w \notin others
  BY DEF Having
<1>2. PICK filling \in Fillings(w) :
        /\ plans' = [Closing(others) EXCEPT ![w] =
                       IF filling[2] THEN Reviewed(w, "active") ELSE [@ EXCEPT !.status = "active"]]
        /\ roster' = [Dropping(others) EXCEPT ![w] = filling[1]]
  BY DEF TakeOver
<1>3. slots' = Staffed(t, w)
  BY DEF TakeOver
<1> HIDE DEF others, w
<1>4. /\ Dropping(others) \in [Windows -> [Desks -> Seq(Line)]]
      /\ \A v \in Windows, d \in Desks : Marks(v, roster[v][d], Dropping(others)[v][d])
  BY <1>1, DroppingMarks
<1>5. /\ filling[1] \in [Desks -> Seq(Line)]
      /\ filling[2] \in BOOLEAN
      /\ \A d \in Desks :
           \/ filling[1][d] = roster[w][d]
           \/ d \in Bootstrapped(w) /\ filling[1][d] = ApplyStanding(roster[w][d], orders[d][w])
           \/ /\ d \in Bootstrapped(w) /\ filling[2]
              /\ \E n \in Nat : filling[1][d] = Generated(roster[w][d], orders[d][w], n)
      /\ filling[2] => \A d \in Desks :
           \/ filling[1][d] = <<>>
           \/ \E n \in Nat : filling[1][d] = Generated(roster[w][d], orders[d][w], n)
  BY <1>0, FillingIs
<1>6. /\ roster' \in [Windows -> [Desks -> Seq(Line)]]
      /\ roster'[w] = filling[1]
      /\ \A v \in Windows : v # w => roster'[v] = Dropping(others)[v]
  BY <1>0, <1>2, <1>4, <1>5
<1>7. /\ slots' \in [Windows -> SUBSET Desks]
      /\ \A v \in Windows : slots[v] \subseteq slots'[v]
      /\ slots'[w] = Bootstrapped(w)
  BY <1>0, <1>3, StaffedSlots
<1>8. /\ plans'[w].review = IF filling[2] THEN "pending" ELSE plans[w].review
      /\ ~filling[2] => plans'[w].t15 = plans[w].t15
      /\ \A v \in Windows : v # w =>
           plans'[v].review = plans[v].review /\ plans'[v].t15 = plans[v].t15
  <2>1. \A v \in Windows :
          /\ Closing(others)[v].review = plans[v].review
          /\ Closing(others)[v].t15 = plans[v].t15
          /\ v = w => Closing(others)[v] = plans[v]
    BY <1>1, ClosingRows
  <2>2. plans[w] \in Plan
    BY <1>0, RosterTyped
  <2>3. Reviewed(w, "active").review = "pending"
    BY <2>2 DEF Reviewed, Plan
  <2>4. /\ [plans[w] EXCEPT !.status = "active"].review = plans[w].review
        /\ [plans[w] EXCEPT !.status = "active"].t15 = plans[w].t15
    BY <2>2 DEF Plan
  <2>5. DOMAIN Closing(others) = Windows
    BY DEF Closing
  <2>6. /\ plans'[w] = IF filling[2] THEN Reviewed(w, "active")
                       ELSE [plans[w] EXCEPT !.status = "active"]
        /\ \A v \in Windows : v # w => plans'[v] = Closing(others)[v]
    BY <1>0, <1>2, <2>1, <2>5
  <2> QED
    BY <1>0, <1>5, <2>1, <2>3, <2>4, <2>6
<1>9. \A v \in Windows, d \in Desks :
        Marks(v, roster[v][d], roster'[v][d]) \/ Refilled(v, d)
  <2> TAKE v \in Windows, d \in Desks
  <2>1. CASE v # w
    BY <1>4, <1>6, <2>1
  <2>2. CASE v = w /\ filling[1][d] = roster[w][d]
    BY <1>6, <2>2, SameMarks
  <2>3. CASE v = w /\ filling[1][d] # roster[w][d]
    BY <1>5, <1>6, <1>7, <1>8, <2>3 DEF Refilled
  <2> QED
    BY <2>1, <2>2, <2>3
<1>10. ASSUME NEW v \in Windows, NEW d \in Desks, ~plans[v].t15, plans'[v].t15
       PROVE  \/ roster'[v][d] = <<>>
              \/ \E n \in Nat : roster'[v][d] = Generated(roster[v][d], orders[d][v], n)
  <2>1. v = w /\ filling[2]
    BY <1>5, <1>8, <1>10
  <2> QED
    BY <1>5, <1>6, <2>1
<1>11. \A v \in Windows : plans'[v].review \in {plans[v].review, "pending"}
  BY <1>8
<1> QED
  BY <1>6, <1>7, <1>9, <1>10, <1>11 DEF QuietMoves

LEMMA StayEmptyQuiet ==
  ASSUME TypeOK, Placed, NEW t \in Nat, NEW W, StayEmpty(t, W)
  PROVE  QuietMoves
<1> DEFINE w == WindowAt(t)
<1>0. w \in Windows
  BY WindowTyped DEF StayEmpty
<1>1. W \in SUBSET Windows /\ w \notin W
  BY ChecksEnd DEF StayEmpty, Having
<1>2. CASE UNCHANGED <<plans, roster, slots, alerts>>
  BY <1>2, StillMoves
<1>3. CASE ~UNCHANGED <<plans, roster, slots, alerts>>
  <2>1. PICK filling \in Fillings(w) :
          /\ plans' = [Closing(W) EXCEPT ![w] =
                         IF filling[2] THEN Reviewed(w, "draft") ELSE [@ EXCEPT !.status = "draft"]]
          /\ roster' = Dropping(W)
          /\ slots' = Staffed(t, w)
    BY <1>3 DEF StayEmpty
  <2> HIDE DEF w
  <2>2. /\ filling[2] \in BOOLEAN
        /\ filling[2] => \A d \in Desks : roster[w][d] = <<>>
    BY <1>0, FillingIs
  <2>3. /\ roster' \in [Windows -> [Desks -> Seq(Line)]]
        /\ \A v \in Windows, d \in Desks : Marks(v, roster[v][d], roster'[v][d])
        /\ roster'[w] = roster[w]
    BY <1>0, <1>1, <2>1, DroppingMarks
  <2>4. /\ slots' \in [Windows -> SUBSET Desks]
        /\ \A v \in Windows : slots[v] \subseteq slots'[v]
    BY <1>0, <2>1, StaffedSlots
  <2>5. /\ plans'[w].review = IF filling[2] THEN "pending" ELSE plans[w].review
        /\ ~filling[2] => plans'[w].t15 = plans[w].t15
        /\ \A v \in Windows : v # w =>
             plans'[v].review = plans[v].review /\ plans'[v].t15 = plans[v].t15
    <3>1. \A v \in Windows :
            /\ Closing(W)[v].review = plans[v].review
            /\ Closing(W)[v].t15 = plans[v].t15
            /\ v = w => Closing(W)[v] = plans[v]
      BY <1>1, ClosingRows
    <3>2. plans[w] \in Plan
      BY <1>0, RosterTyped
    <3>3. Reviewed(w, "draft").review = "pending"
      BY <3>2 DEF Reviewed, Plan
    <3>4. /\ [plans[w] EXCEPT !.status = "draft"].review = plans[w].review
          /\ [plans[w] EXCEPT !.status = "draft"].t15 = plans[w].t15
      BY <3>2 DEF Plan
    <3>5. DOMAIN Closing(W) = Windows
      BY DEF Closing
    <3>6. /\ plans'[w] = IF filling[2] THEN Reviewed(w, "draft")
                         ELSE [plans[w] EXCEPT !.status = "draft"]
          /\ \A v \in Windows : v # w => plans'[v] = Closing(W)[v]
      BY <1>0, <2>1, <3>1, <3>5
    <3> QED
      BY <1>0, <2>2, <3>1, <3>3, <3>4, <3>6
  <2> QED
    BY <1>0, <2>2, <2>3, <2>4, <2>5 DEF QuietMoves
<1> QED
  BY <1>2, <1>3

LEMMA OnlyEndQuiet ==
  ASSUME TypeOK, NEW t, NEW W, OnlyEnd(t, W)
  PROVE  QuietMoves
<1>1. W \in SUBSET Windows
  BY ChecksEnd DEF OnlyEnd
<1>2. CASE UNCHANGED <<plans, roster, slots, alerts>>
  BY <1>2, StillMoves
<1>3. CASE plans' = Closing(W) /\ roster' = Dropping(W) /\ slots' = Staffed(t, 0)
  <2>1. /\ roster' \in [Windows -> [Desks -> Seq(Line)]]
        /\ \A v \in Windows, d \in Desks : Marks(v, roster[v][d], roster'[v][d])
    BY <1>1, <1>3, DroppingMarks
  <2>2. /\ slots' \in [Windows -> SUBSET Desks]
        /\ \A v \in Windows : slots[v] \subseteq slots'[v]
    BY <1>3, StaffedSlots
  <2>3. \A v \in Windows : plans'[v].review = plans[v].review /\ plans'[v].t15 = plans[v].t15
    BY <1>1, <1>3, ClosingRows
  <2> QED
    BY <2>1, <2>2, <2>3 DEF QuietMoves
<1> QED
  BY <1>2, <1>3 DEF OnlyEnd

\* The tick and the factory loop mark and refill.
LEMMA StepQuiet ==
  ASSUME TypeOK, Placed, [Next]_vars, edits' = edits
  PROVE  QuietMoves
<1>1. CASE UNCHANGED vars \/ Idles
  <2>1. UNCHANGED <<plans, slots, roster>>
    BY <1>1 DEF vars, Idles, SwitchScheduler, SwitchedOff, ListPullers, CheckFails, TimePasses
  <2> QED
    BY <2>1, StillMoves
<1>2. CASE \E w \in Windows : Request(w)
  <2>1. Edit
    BY <1>2 DEF Request, EnsurePlan, SavePlan, Approve, RejectSuggestions, Activate, Complete,
                AddDesk, ReplaceLines, EditLine, PutOrder
  <2>2. edits \in Nat
    BY TimeAssumption DEF TypeOK
  <2> QED
    BY <2>1, <2>2 DEF Edit
<1>3. CASE Work
  BY <1>3, WorkQuiet
<1>4. CASE T15
  BY <1>4, T15Quiet
<1>5. CASE Checked
  <2>1. PICK t \in 0..now, W \in SUBSET Windows :
          TakeOver(t, W) \/ StayEmpty(t, W) \/ OnlyEnd(t, W)
    BY <1>5 DEF Checked
  <2>2. t \in Nat
    BY DEF TypeOK
  <2> QED
    BY <2>1, <2>2, TakeOverQuiet, StayEmptyQuiet, OnlyEndQuiet
<1> QED
  BY <1>1, <1>2, <1>3, <1>4, <1>5 DEF Next, Idles

-----------------------------------------------------------------------------
(* Requests.                                                               *)

Unseen(line) == line.source = "ai_suggested" /\ ~line.seen

\* No suggestion becomes unseen, and none of those that are begins to run.
Shows(lines, new) ==
  \A k \in DOMAIN new : Unseen(new[k]) =>
    \E i \in DOMAIN lines :
      Unseen(lines[i]) /\ (new[k].status = "running" => lines[i].status = "running")

AllSeen(lines) == \A k \in DOMAIN lines : ~Unseen(lines[k])

\* What a request does.
AskedMoves ==
  /\ roster' \in [Windows -> [Desks -> Seq(Line)]]
  /\ slots' \in [Windows -> SUBSET Desks]
  /\ Placed'
  /\ \A w \in Windows : plans'[w].t15 = plans[w].t15
  /\ \A w \in Windows, d \in Desks :
       \/ AllSeen(roster'[w][d])
       \/ plans'[w].review = plans[w].review /\ Shows(roster[w][d], roster'[w][d])

LEMMA SameShows ==
  ASSUME NEW lines
  PROVE  Shows(lines, lines)
BY DEF Shows

\* A row changes.
LEMMA RowChanges ==
  ASSUME TypeOK, NEW w \in Windows, NEW row \in Plan, plans' = [plans EXCEPT ![w] = row]
  PROVE  \A v \in Windows : plans'[v] = IF v = w THEN row ELSE plans[v]
BY DEF TypeOK

\* The roster of a window changes.
LEMMA WindowChanges ==
  ASSUME TypeOK, NEW w \in Windows, NEW new \in [Desks -> Seq(Line)],
         roster' = [roster EXCEPT ![w] = new]
  PROVE  /\ roster' \in [Windows -> [Desks -> Seq(Line)]]
         /\ roster'[w] = new
         /\ \A v \in Windows : v # w => roster'[v] = roster[v]
<1> DEFINE S == [Desks -> Seq(Line)]
<1>1. roster \in [Windows -> S] /\ new \in S
  BY DEF TypeOK
<1> HIDE DEF S
<1>2. /\ roster' \in [Windows -> S]
      /\ roster'[w] = new
      /\ \A v \in Windows : v # w => roster'[v] = roster[v]
  BY <1>1
<1> QED
  BY <1>2 DEF S

\* Only the status of a plan changes.
LEMMA StatusAsked ==
  ASSUME TypeOK, Placed, NEW w \in Windows, NEW status \in Statuses,
         plans' = [plans EXCEPT ![w].status = status] \/ plans' = plans,
         UNCHANGED <<slots, roster>>
  PROVE  AskedMoves
<1>1. \A v \in Windows : plans'[v].t15 = plans[v].t15 /\ plans'[v].review = plans[v].review
  <2>1. CASE plans' = plans
    BY <2>1
  <2>2. CASE plans' # plans
    <3>1. plans \in [Windows -> Plan] /\ plans' = [plans EXCEPT ![w].status = status]
      BY <2>2 DEF TypeOK
    <3>2. \A v \in Windows : plans[v] \in Plan
      BY <3>1
    <3>3. \A v \in Windows :
            plans'[v] = IF v = w THEN [plans[w] EXCEPT !.status = status] ELSE plans[v]
      BY <3>1
    <3> QED
      BY <3>2, <3>3 DEF Plan
  <2> QED
    BY <2>1, <2>2
<1>2. roster \in [Windows -> [Desks -> Seq(Line)]] /\ slots \in [Windows -> SUBSET Desks]
  BY DEF TypeOK
<1> QED
  BY <1>1, <1>2, SameShows DEF AskedMoves, Placed

\* The lines of one desk change, which is on the shift.
LEMMA DeskAsked ==
  ASSUME TypeOK, Placed, NEW w \in Windows, NEW d \in slots[w], NEW new \in Seq(Line),
         Shows(roster[w][d], new),
         roster' = [roster EXCEPT ![w] = [roster[w] EXCEPT ![d] = new]],
         UNCHANGED <<plans, slots>>
  PROVE  AskedMoves
<1> DEFINE S == Seq(Line)
           g == [roster EXCEPT ![w] = [roster[w] EXCEPT ![d] = new]]
<1>1. /\ new \in S /\ roster \in [Windows -> [Desks -> S]] /\ d \in Desks
      /\ slots \in [Windows -> SUBSET Desks]
  BY DEF TypeOK
<1> HIDE DEF S
<1>2. g \in [Windows -> [Desks -> S]] /\ \A v \in Windows, e \in Desks :
        g[v][e] = IF v = w /\ e = d THEN new ELSE roster[v][e]
  BY <1>1, DeskChanges
<1>3. roster' = g
  OBVIOUS
<1> HIDE DEF g
<1>4. roster' \in [Windows -> [Desks -> Seq(Line)]]
  BY <1>2, <1>3 DEF S
<1>5. \A v \in Windows, e \in Desks :
        roster'[v][e] = IF v = w /\ e = d THEN new ELSE roster[v][e]
  BY <1>2, <1>3
<1>6. Placed'
  BY <1>5 DEF Placed
<1>7. \A v \in Windows, e \in Desks : Shows(roster[v][e], roster'[v][e])
  BY <1>5, SameShows
<1> QED
  BY <1>1, <1>4, <1>6, <1>7 DEF AskedMoves

LEMMA ApprovedLines ==
  ASSUME NEW lines \in Seq(Line)
  PROVE  /\ Approved(lines) \in Seq(Line)
         /\ DOMAIN Approved(lines) = DOMAIN lines
         /\ AllSeen(Approved(lines))
<1>1. \A i \in DOMAIN lines : lines[i] \in Line
  OBVIOUS
<1>2. /\ DOMAIN Approved(lines) = DOMAIN lines
      /\ Approved(lines) = [i \in DOMAIN lines |-> Approved(lines)[i]]
      /\ \A i \in DOMAIN lines : Approved(lines)[i] = [lines[i] EXCEPT !.seen = TRUE]
  BY DEF Approved
<1>3. \A i \in DOMAIN lines : Approved(lines)[i] \in Line /\ Approved(lines)[i].seen
  BY <1>1, <1>2 DEF Line
<1>4. Approved(lines) \in Seq(Line)
  BY <1>2, <1>3, EachLine
<1> QED
  BY <1>2, <1>3, <1>4 DEF AllSeen, Unseen

LEMMA NoLinesShow ==
  ASSUME NEW lines
  PROVE  Shows(lines, <<>>)
<1>1. DOMAIN <<>> = {}
  BY EmptyLines
<1> QED
  BY <1>1 DEF Shows

\* Lines that wait and are not suggestions show nothing new.
LEMMA PlainShows ==
  ASSUME NEW lines, NEW new, \A k \in DOMAIN new : ~Unseen(new[k])
  PROVE  Shows(lines, new) /\ AllSeen(new)
BY DEF Shows, AllSeen

LEMMA SaveAsked ==
  ASSUME TypeOK, Placed, NEW w \in Windows, SavePlan(w)
  PROVE  AskedMoves
<1>1. PICK D \in SUBSET Desks \ {{}} :
        /\ slots' = [slots EXCEPT ![w] = D]
        /\ \E lines \in [D -> Planned] :
             roster' = [roster EXCEPT ![w] = [d \in Desks |-> IF d \in D THEN lines[d] ELSE <<>>]]
  BY DEF SavePlan
<1>2. PICK lines \in [D -> Planned] :
        roster' = [roster EXCEPT ![w] = [d \in Desks |-> IF d \in D THEN lines[d] ELSE <<>>]]
  BY <1>1
<1> DEFINE new == [d \in Desks |-> IF d \in D THEN lines[d] ELSE <<>>]
<1>3. \A p \in Planned : p \in Seq(Line) /\ \A k \in DOMAIN p : ~Unseen(p[k])
  <2> DEFINE L == {NewLine("manual", b) : b \in BOOLEAN}
  <2>1. \A l \in L : l \in Line /\ ~Unseen(l)
    <3>1. \A b \in BOOLEAN : NewLine("manual", b) \in Line /\ ~Unseen(NewLine("manual", b))
      BY DEF NewLine, Line, Unseen
    <3> QED
      BY <3>1
  <2>2. \A p \in Planned : \E n \in 0..MaxTopics : p \in [1..n -> L]
    BY DEF Planned
  <2> HIDE DEF L
  <2>3. ASSUME NEW p \in Planned
        PROVE  p \in Seq(Line) /\ \A k \in DOMAIN p : ~Unseen(p[k])
    <3>1. PICK n \in 0..MaxTopics : p \in [1..n -> L]
      BY <2>2
    <3>2. n \in Nat /\ p \in [1..n -> Line] /\ \A k \in 1..n : p[k] \in L
      BY <2>1, <3>1, TimeAssumption
    <3>3. DOMAIN p = 1..n
      BY <3>1
    <3> QED
      BY <2>1, <3>2, <3>3
  <2> QED
    BY <2>3
<1>4. \A d \in Desks :
        /\ new[d] \in Seq(Line)
        /\ AllSeen(new[d])
        /\ d \notin D => new[d] = <<>>
  <2> TAKE d \in Desks
  <2>1. CASE d \in D
    <3>1. lines[d] \in Planned /\ new[d] = lines[d]
      BY <2>1
    <3> QED
      BY <1>3, <2>1, <3>1 DEF AllSeen
  <2>2. CASE d \notin D
    <3>1. new[d] = <<>>
      BY <2>2
    <3> QED
      BY <2>2, <3>1, EmptyLines DEF AllSeen
  <2> QED
    BY <2>1, <2>2
<1>5. new \in [Desks -> Seq(Line)]
  BY <1>4
<1>6. roster' = [roster EXCEPT ![w] = new]
  BY <1>2
<1> HIDE DEF new
<1>7. /\ roster' \in [Windows -> [Desks -> Seq(Line)]]
      /\ roster'[w] = new
      /\ \A v \in Windows : v # w => roster'[v] = roster[v]
  BY <1>5, <1>6, WindowChanges
<1>8. slots \in [Windows -> SUBSET Desks]
  BY DEF TypeOK
<1>9. /\ slots' \in [Windows -> SUBSET Desks]
      /\ \A v \in Windows : slots'[v] = IF v = w THEN D ELSE slots[v]
  BY <1>1, <1>8
<1>10. Placed'
  <2> SUFFICES ASSUME NEW v \in Windows, NEW d \in Desks, d \notin slots'[v]
               PROVE  roster'[v][d] = <<>>
    BY DEF Placed
  <2>1. CASE v = w
    <3>1. d \notin D /\ roster'[v] = new
      BY <1>7, <1>9, <2>1
    <3> QED
      BY <1>4, <3>1
  <2>2. CASE v # w
    <3>1. d \notin slots[v] /\ roster'[v] = roster[v]
      BY <1>7, <1>9, <2>2
    <3> QED
      BY <3>1 DEF Placed
  <2> QED
    BY <2>1, <2>2
<1>11. \A v \in Windows : plans'[v].t15 = plans[v].t15 /\ plans'[v].review = plans[v].review
  <2>1. \A v \in Windows : plans[v] \in Plan
    BY RosterTyped
  <2>2. plans \in [Windows -> Plan] /\ plans' = [plans EXCEPT ![w].status = "draft"]
    BY DEF SavePlan, TypeOK
  <2>3. \A v \in Windows :
          plans'[v] = IF v = w THEN [plans[w] EXCEPT !.status = "draft"] ELSE plans[v]
    BY <2>2
  <2> QED
    BY <2>1, <2>3 DEF Plan
<1> QED
  BY <1>4, <1>7, <1>9, <1>10, <1>11, SameShows DEF AskedMoves

LEMMA AddDeskAsked ==
  ASSUME TypeOK, Placed, NEW w \in Windows, NEW d \in Desks, AddDesk(w, d)
  PROVE  AskedMoves
<1>1. /\ slots' = [slots EXCEPT ![w] = @ \cup {d}]
      /\ UNCHANGED <<plans, roster>>
  BY DEF AddDesk
<1>2. slots \in [Windows -> SUBSET Desks] /\ roster \in [Windows -> [Desks -> Seq(Line)]]
  BY DEF TypeOK
<1>3. /\ slots' \in [Windows -> SUBSET Desks]
      /\ \A v \in Windows : slots[v] \subseteq slots'[v]
  BY <1>1, <1>2
<1>4. Placed'
  BY <1>1, <1>3 DEF Placed
<1> QED
  BY <1>1, <1>2, <1>3, <1>4, SameShows DEF AskedMoves

LEMMA ReplaceAsked ==
  ASSUME TypeOK, Placed, NEW w \in Windows, NEW d \in Desks, ReplaceLines(w, d)
  PROVE  AskedMoves
<1>1. PICK n \in 0..MaxTopics : roster' = [roster EXCEPT ![w][d] = NewLines(n, "manual")]
  BY DEF ReplaceLines
<1> DEFINE new == NewLines(n, "manual")
<1>2. n \in Nat
  BY TimeAssumption
<1>3. /\ new \in Seq(Line)
      /\ DOMAIN new = 1..n
      /\ \A k \in 1..n : new[k] = NewLine("manual", FALSE)
      /\ ~Unseen(NewLine("manual", FALSE))
  BY <1>2, NewLinesAre DEF Unseen
<1>4. Shows(roster[w][d], new)
  BY <1>3, PlainShows
<1>5. roster' = [roster EXCEPT ![w] = [roster[w] EXCEPT ![d] = new]]
  BY <1>1 DEF TypeOK
<1> HIDE DEF new
<1> QED
  BY <1>3, <1>4, <1>5, DeskAsked DEF ReplaceLines

LEMMA EditAsked ==
  ASSUME TypeOK, Placed, NEW w \in Windows, NEW d \in Desks, EditLine(w, d)
  PROVE  AskedMoves
<1>1. PICK i \in DOMAIN roster[w][d], locked \in BOOLEAN, source \in {"same", "manual"} :
        LET line == roster[w][d][i] IN
        /\ line.status = "pending"
        /\ roster' = [roster EXCEPT ![w][d][i] =
             [line EXCEPT !.locked = locked,
                          !.source = IF source = "same" THEN line.source ELSE source]]
  BY DEF EditLine
<1> DEFINE line == roster[w][d][i]
           edited == [line EXCEPT !.locked = locked,
                                  !.source = IF source = "same" THEN line.source ELSE source]
           new == [roster[w][d] EXCEPT ![i] = edited]
<1>2. roster[w][d] \in Seq(Line) /\ line \in Line /\ line.status = "pending"
  BY <1>1, RosterTyped
<1>3. /\ edited \in Line
      /\ edited.status = "pending"
      /\ Unseen(edited) => Unseen(line)
  BY <1>2 DEF Line, Unseen
<1>4. roster' = [roster EXCEPT ![w] = [roster[w] EXCEPT ![d] = new]]
  BY <1>1 DEF TypeOK
<1> HIDE DEF edited
<1>5. /\ new \in Seq(Line)
      /\ DOMAIN new = DOMAIN roster[w][d]
      /\ new[i] = edited
      /\ \A k \in DOMAIN roster[w][d] : k # i => new[k] = roster[w][d][k]
  BY <1>2, <1>3, MarkLine
<1> HIDE DEF new
<1>6. Shows(roster[w][d], new)
  <2> SUFFICES ASSUME NEW k \in DOMAIN new, Unseen(new[k])
               PROVE  \E j \in DOMAIN roster[w][d] :
                        /\ Unseen(roster[w][d][j])
                        /\ new[k].status = "running" => roster[w][d][j].status = "running"
    BY DEF Shows
  <2>1. k \in DOMAIN roster[w][d]
    BY <1>5
  <2>2. Unseen(roster[w][d][k])
    BY <1>3, <1>5, <2>1
  <2>3. new[k].status = "running" => roster[w][d][k].status = "running"
    BY <1>3, <1>5, <2>1
  <2> QED
    BY <2>1, <2>2, <2>3
<1> QED
  BY <1>4, <1>5, <1>6, DeskAsked DEF EditLine

LEMMA ApproveAsked ==
  ASSUME TypeOK, Placed, NEW w \in Windows, Approve(w)
  PROVE  AskedMoves
<1> DEFINE new == [d \in Desks |-> Approved(roster[w][d])]
<1>1. /\ roster' = [roster EXCEPT ![w] = new]
      /\ plans' = [plans EXCEPT ![w].review = "ready"]
      /\ slots' = slots
      /\ roster \in [Windows -> [Desks -> Seq(Line)]]
      /\ slots \in [Windows -> SUBSET Desks]
      /\ plans \in [Windows -> Plan]
  BY DEF Approve, TypeOK
<1>2. \A d \in Desks :
        /\ new[d] \in Seq(Line)
        /\ AllSeen(new[d])
        /\ roster[w][d] = <<>> => new[d] = <<>>
  <2> TAKE d \in Desks
  <2>1. new[d] = Approved(roster[w][d]) /\ roster[w][d] \in Seq(Line)
    BY <1>1
  <2>2. /\ Approved(roster[w][d]) \in Seq(Line)
        /\ DOMAIN Approved(roster[w][d]) = DOMAIN roster[w][d]
        /\ AllSeen(Approved(roster[w][d]))
    BY <2>1, ApprovedLines
  <2> QED
    BY <2>1, <2>2, EmptyLines
<1>3. new \in [Desks -> Seq(Line)]
  BY <1>2
<1> HIDE DEF new
<1>4. /\ roster' \in [Windows -> [Desks -> Seq(Line)]]
      /\ roster'[w] = new
      /\ \A v \in Windows : v # w => roster'[v] = roster[v]
  BY <1>1, <1>3, WindowChanges
<1>5. Placed'
  BY <1>1, <1>2, <1>4 DEF Placed
<1>6. \A v \in Windows :
        plans'[v] = IF v = w THEN [plans[w] EXCEPT !.review = "ready"] ELSE plans[v]
  BY <1>1
<1>7. \A v \in Windows :
        /\ plans'[v].t15 = plans[v].t15
        /\ v # w => plans'[v].review = plans[v].review
  BY <1>1, <1>6 DEF Plan
<1> QED
  BY <1>1, <1>2, <1>4, <1>5, <1>7, SameShows DEF AskedMoves

LEMMA RejectAsked ==
  ASSUME TypeOK, Placed, NEW w \in Windows, RejectSuggestions(w)
  PROVE  AskedMoves
<1> DEFINE new == [d \in Desks |-> Without(roster[w][d], "ai_suggested")]
<1>1. /\ roster' = [roster EXCEPT ![w] = new]
      /\ UNCHANGED <<plans, slots>>
      /\ roster \in [Windows -> [Desks -> Seq(Line)]]
      /\ slots \in [Windows -> SUBSET Desks]
  BY DEF RejectSuggestions, TypeOK
<1>2. \A d \in Desks :
        /\ new[d] \in Seq(Line)
        /\ Shows(roster[w][d], new[d])
        /\ roster[w][d] = <<>> => new[d] = <<>>
  <2> TAKE d \in Desks
  <2>1. new[d] = Without(roster[w][d], "ai_suggested") /\ roster[w][d] \in Seq(Line)
    BY <1>1
  <2>2. /\ new[d] \in Seq(Line)
        /\ \A k \in DOMAIN new[d] : \E i \in DOMAIN roster[w][d] : new[d][k] = roster[w][d][i]
    BY <2>1, WithoutKeeps
  <2> HIDE DEF new
  <2> QED
    BY <2>1, <2>2, EmptyWithout DEF Shows
<1>3. new \in [Desks -> Seq(Line)]
  BY <1>2
<1> HIDE DEF new
<1>4. /\ roster' \in [Windows -> [Desks -> Seq(Line)]]
      /\ roster'[w] = new
      /\ \A v \in Windows : v # w => roster'[v] = roster[v]
  BY <1>1, <1>3, WindowChanges
<1>5. Placed'
  BY <1>1, <1>2, <1>4 DEF Placed
<1> QED
  BY <1>1, <1>2, <1>4, <1>5, SameShows DEF AskedMoves

LEMMA CompleteAsked ==
  ASSUME TypeOK, Placed, NEW w \in Windows, Complete(w)
  PROVE  AskedMoves
<1>1. /\ plans' = Closing({w})
      /\ roster' = Dropping({w})
      /\ slots' = slots
      /\ slots \in [Windows -> SUBSET Desks]
  BY DEF Complete, TypeOK
<1>2. /\ roster' \in [Windows -> [Desks -> Seq(Line)]]
      /\ \A v \in Windows, d \in Desks : Marks(v, roster[v][d], Dropping({w})[v][d])
      /\ \A v \in Windows : v # w => roster'[v] = roster[v]
  BY <1>1, DroppingMarks
<1>3. \A d \in Desks : roster'[w][d] = Settled(roster[w][d])
  BY <1>1 DEF Dropping
<1>4. \A d \in Desks :
        /\ Shows(roster[w][d], roster'[w][d])
        /\ roster[w][d] = <<>> => roster'[w][d] = <<>>
  <2> TAKE d \in Desks
  <2>1. roster[w][d] \in Seq(Line)
    BY RosterTyped
  <2>2. /\ DOMAIN roster'[w][d] = DOMAIN roster[w][d]
        /\ roster'[w][d] \in Seq(Line)
        /\ \A i \in DOMAIN roster[w][d] :
             /\ Unseen(roster'[w][d][i]) => Unseen(roster[w][d][i])
             /\ roster'[w][d][i].status = "ended"
    BY <1>3, <2>1, SettledLines DEF Unseen
  <2> QED
    BY <2>2, EmptyLines DEF Shows
<1>5. Placed'
  BY <1>1, <1>2, <1>4 DEF Placed
<1>6. \A v \in Windows : plans'[v].review = plans[v].review /\ plans'[v].t15 = plans[v].t15
  BY <1>1, ClosingRows
<1> QED
  BY <1>1, <1>2, <1>4, <1>5, <1>6, SameShows DEF AskedMoves

LEMMA RequestAsked ==
  ASSUME TypeOK, Placed, NEW w \in Windows, Request(w)
  PROVE  AskedMoves
<1>1. CASE EnsurePlan(w) \/ Activate(w)
  BY <1>1, StatusAsked DEF EnsurePlan, Activate, Statuses
<1>2. ASSUME NEW d \in Desks, PutOrder(d, w)
      PROVE  AskedMoves
  BY <1>2, StatusAsked DEF PutOrder, Statuses
<1> QED
  BY <1>1, <1>2, SaveAsked, ApproveAsked, RejectAsked, CompleteAsked, AddDeskAsked, ReplaceAsked,
     EditAsked DEF Request

LEMMA SwitchAsked ==
  ASSUME TypeOK, Placed, SwitchScheduler
  PROVE  AskedMoves
<1>1. 1 \in Windows
  BY TimeAssumption DEF Windows
<1> QED
  BY <1>1, StatusAsked DEF SwitchScheduler, Statuses

-----------------------------------------------------------------------------
(* Every line of every roster.                                             *)

\* What a tick remembers.
Ticks == [at : {"idle", "t15", "boundary", "listed"}, plan : 0..Count, now : 0..Horizon]

LEMMA TickRows ==
  ASSUME NEW row \in Ticks, NEW w \in Windows, NEW t \in 0..Horizon
  PROVE  /\ [row EXCEPT !.at = "boundary"] \in Ticks
         /\ [row EXCEPT !.at = "boundary", !.plan = 0] \in Ticks
         /\ [row EXCEPT !.at = "t15", !.plan = w] \in Ticks
         /\ [row EXCEPT !.at = "listed", !.now = t] \in Ticks
         /\ [at |-> "idle", plan |-> 0, now |-> 0] \in Ticks
<1>1. w \in 0..Count /\ 0 \in 0..Count /\ 0 \in 0..Horizon
  BY TimeAssumption DEF Windows, Horizon
<1> QED
  BY <1>1 DEF Ticks

\* The rest of the type.
LEMMA PlaceTyped ==
  ASSUME TypeOK, [Next]_vars
  PROVE  /\ now' \in 0..Horizon
         /\ orders' \in [Desks -> [Windows -> AnyOrder]]
         /\ alerts' \subseteq {"shift_started_empty", "roster_incomplete_t15"} \X Windows
         /\ tick' \in Ticks
         /\ edits' \in 0..MaxEdits
<1> USE TimeAssumption DEF TypeOK
<1>0. Horizon \in Nat /\ orders \in [Desks -> [Windows -> AnyOrder]] /\ tick \in Ticks
  BY DEF Horizon, AnyOrder, Ticks
<1>t. /\ [tick EXCEPT !.at = "boundary"] \in Ticks
      /\ [tick EXCEPT !.at = "boundary", !.plan = 0] \in Ticks
      /\ \A w \in Windows : [tick EXCEPT !.at = "t15", !.plan = w] \in Ticks
      /\ [tick EXCEPT !.at = "listed", !.now = now] \in Ticks
      /\ [at |-> "idle", plan |-> 0, now |-> 0] \in Ticks
  <2>1. 1 \in Windows /\ now \in 0..Horizon
    BY <1>0 DEF Windows
  <2> HIDE DEF TypeOK, Ticks
  <2> QED
    BY <1>0, <2>1, TickRows
<1>1. CASE UNCHANGED vars
  BY <1>0, <1>1 DEF vars
<1>2. ASSUME NEW w \in Windows, Request(w)
      PROVE  /\ UNCHANGED <<now, alerts, tick>>
             /\ edits' \in 0..MaxEdits
             /\ orders' \in [Desks -> [Windows -> AnyOrder]]
  <2>1. UNCHANGED <<now, alerts, tick>> /\ Edit
    BY <1>2 DEF Request, EnsurePlan, SavePlan, Approve, RejectSuggestions, Activate, Complete,
                AddDesk, ReplaceLines, EditLine, PutOrder
  <2>2. orders' = orders \/ \E d \in Desks : PutOrder(d, w)
    BY <1>2 DEF Request, EnsurePlan, SavePlan, Approve, RejectSuggestions, Activate, Complete,
                AddDesk, ReplaceLines, EditLine
  <2>3. ASSUME NEW d \in Desks, PutOrder(d, w)
        PROVE  orders' \in [Desks -> [Windows -> AnyOrder]]
    <3>1. PICK order \in Order : orders' = [orders EXCEPT ![d][w] = order]
      BY <2>3 DEF PutOrder
    <3>2. order \in AnyOrder
      BY DEF AnyOrder
    <3>3. [orders[d] EXCEPT ![w] = order] \in [Windows -> AnyOrder]
      BY <1>0, <3>2
    <3>4. orders' = [orders EXCEPT ![d] = [orders[d] EXCEPT ![w] = order]]
      BY <1>0, <3>1
    <3> QED
      BY <1>0, <3>3, <3>4
  <2> QED
    BY <1>0, <2>1, <2>2, <2>3 DEF Edit
<1>3. CASE Work
  <2>1. UNCHANGED <<now, orders, alerts, tick, edits>>
    BY <1>3 DEF Work, Dispatch, Settle
  <2> QED
    BY <1>0, <2>1
<1>4. CASE T15
  <2>1. UNCHANGED <<now, orders, alerts, edits>>
    BY <1>4 DEF T15, FindDueForT15, GenerateRoster, SkipT15
  <2>2. tick' \in Ticks
    <3>1. \/ tick' = [tick EXCEPT !.at = "boundary"]
          \/ \E w \in Windows : tick' = [tick EXCEPT !.at = "t15", !.plan = w]
          \/ tick' = [tick EXCEPT !.at = "boundary", !.plan = 0]
      BY <1>4 DEF T15, FindDueForT15, GenerateRoster, SkipT15, AfterT15, DueForT15, Having
    <3> QED
      BY <1>t, <3>1
  <2> QED
    BY <1>0, <2>1, <2>2
<1>5. CASE Idles
  <2>1. UNCHANGED <<orders, alerts>> /\ now' \in 0..Horizon /\ edits' \in 0..MaxEdits
    BY <1>0, <1>5 DEF Idles, SwitchScheduler, Edit, SwitchedOff, ListPullers, CheckFails, TimePasses
  <2>2. \/ tick' = [tick EXCEPT !.at = "listed", !.now = now]
        \/ tick' = [at |-> "idle", plan |-> 0, now |-> 0]
        \/ tick' = tick
    BY <1>5 DEF Idles, SwitchScheduler, SwitchedOff, ListPullers, CheckFails, TimePasses, TickEnds
  <2>3. tick' \in Ticks
    BY <1>0, <1>t, <2>2
  <2> QED
    BY <1>0, <2>1, <2>3
<1>6. ASSUME NEW t \in 0..now, NEW W, TakeOver(t, W) \/ StayEmpty(t, W) \/ OnlyEnd(t, W)
      PROVE  /\ UNCHANGED <<now, orders, edits>>
             /\ tick' \in Ticks
             /\ alerts' \subseteq {"shift_started_empty", "roster_incomplete_t15"} \X Windows
  <2>1. UNCHANGED <<now, orders, edits>> /\ TickEnds
    BY <1>6 DEF TakeOver, StayEmpty, OnlyEnd
  <2>0. tick' \in Ticks
    BY <1>t, <2>1 DEF TickEnds
  <2>2. Warned(t) \subseteq {"shift_started_empty", "roster_incomplete_t15"} \X Windows
    BY DEF Warned, Gaps, Unstaffed, Having
  <2>3. CASE TakeOver(t, W) \/ StayEmpty(t, W)
    <3>1. WindowAt(t) \in Windows
      BY <1>6, <2>3, WindowTyped DEF TakeOver, StayEmpty
    <3>2. \/ alerts' = Warned(t) \ {<<"shift_started_empty", WindowAt(t)>>}
          \/ alerts' = Warned(t) \cup {<<"shift_started_empty", WindowAt(t)>>}
          \/ alerts' = alerts
      BY <2>3 DEF TakeOver, StayEmpty
    <3> QED
      BY <1>0, <2>0, <2>1, <2>2, <3>1, <3>2
  <2>4. CASE OnlyEnd(t, W)
    <3>1. alerts' = alerts \/ alerts' = Warned(t)
      BY <2>4 DEF OnlyEnd
    <3> QED
      BY <1>0, <2>0, <2>1, <2>2, <3>1
  <2> QED
    BY <1>6, <2>3, <2>4
<1>7. CASE Checked
  BY <1>0, <1>6, <1>7 DEF Checked
<1> QED
  BY <1>0, <1>1, <1>2, <1>3, <1>4, <1>5, <1>7 DEF Next, Idles

LEMMA AutoTyped == ASSUME TypeOK, [Next]_vars PROVE auto' \in BOOLEAN
<1>1. auto' = auto \/ auto' = ~auto
  BY DEF Next, vars, Request, EnsurePlan, SavePlan, Approve, RejectSuggestions, Activate, Complete,
         AddDesk, ReplaceLines, EditLine, PutOrder, SwitchScheduler, Work, Dispatch, Settle,
         T15, FindDueForT15, GenerateRoster, SkipT15, SwitchedOff, ListPullers,
         Checked, TakeOver, StayEmpty, OnlyEnd, CheckFails, TimePasses
<1> QED
  BY <1>1 DEF TypeOK

\* A desk that is empty stays so unless it is refilled.
LEMMA QuietPlaced ==
  ASSUME TypeOK, Placed, QuietMoves
  PROVE  Placed'
<1> SUFFICES ASSUME NEW w \in Windows, NEW d \in Desks, d \notin slots'[w]
             PROVE  roster'[w][d] = <<>>
  BY DEF Placed
<1>1. roster[w][d] = <<>>
  BY DEF Placed, QuietMoves
<1>2. Marks(w, roster[w][d], roster'[w][d])
  BY DEF QuietMoves, Refilled
<1>3. DOMAIN roster'[w][d] = {} /\ roster'[w][d] \in Seq(Line)
  BY <1>1, <1>2, EmptyLines DEF Marks, QuietMoves
<1> QED
  BY <1>3, EmptyLines

LEMMA EditsCount ==
  ASSUME TypeOK, [Next]_vars, edits' # edits
  PROVE  SwitchScheduler \/ \E w \in Windows : Request(w)
BY DEF Next, vars, Work, Dispatch, Settle, T15, FindDueForT15, GenerateRoster, SkipT15,
       ListPullers, Checked, TakeOver, StayEmpty, OnlyEnd, SwitchedOff, CheckFails,
       TimePasses

LEMMA StepTyped ==
  ASSUME TypeOK, Placed, [Next]_vars
  PROVE  TypeOK' /\ Placed'
<1>1. plans' \in [Windows -> Plan]
  <2>1. PlansTyped
    BY DEF TypeOK, PlansTyped
  <2> QED
    BY <2>1, StepMoves DEF Moves, PlansTyped
<1>2. /\ roster' \in [Windows -> [Desks -> Seq(Line)]]
      /\ slots' \in [Windows -> SUBSET Desks]
      /\ Placed'
  <2>1. CASE edits' = edits
    BY <2>1, StepQuiet, QuietPlaced DEF QuietMoves
  <2>2. CASE edits' # edits
    BY <2>2, EditsCount, RequestAsked, SwitchAsked DEF AskedMoves
  <2> QED
    BY <2>1, <2>2
<1> QED
  BY <1>1, <1>2, PlaceTyped, AutoTyped DEF TypeOK, AnyOrder, Ticks

LEMMA InitTyped == ASSUME Init PROVE TypeOK /\ Placed
<1>1. \A w \in Windows, d \in Desks : roster[w][d] = <<>>
  BY DEF Init
<1>2. roster \in [Windows -> [Desks -> Seq(Line)]]
  <2>1. [d \in Desks |-> <<>>] \in [Desks -> Seq(Line)]
    BY EmptyLines
  <2> QED
    BY <2>1 DEF Init
<1>3. Horizon \in Nat
  BY TimeAssumption DEF Horizon
<1>4. plans \in [Windows -> Plan]
  BY DEF Init, Plan, Statuses
<1> QED
  BY <1>1, <1>2, <1>3, <1>4, TimeAssumption DEF Init, TypeOK, Placed

\* The type of the calendar, for any windows, desks, orders and bounds; and a
\* desk that is not on a shift never has lines there.
THEOREM TypeCorrect == Spec => [](TypeOK /\ Placed)
<1>1. Init => TypeOK /\ Placed
  BY InitTyped
<1>2. TypeOK /\ Placed /\ [Next]_vars => TypeOK' /\ Placed'
  BY StepTyped
<1> QED
  BY <1>1, <1>2, PTL DEF Spec

-----------------------------------------------------------------------------
(* What operators have not seen.                                           *)

\* An unseen suggestion waits for its review, and never begins to run.
UnseenWait ==
  \A w \in Windows, d \in Desks : \A i \in DOMAIN roster[w][d] :
    Unseen(roster[w][d][i]) =>
      plans[w].review = "pending" /\ roster[w][d][i].status # "running"

LEMMA UnseenStay ==
  ASSUME TypeOK, Placed, UnseenWait, [Next]_vars
  PROVE  UnseenWait'
<1> SUFFICES ASSUME NEW w \in Windows, NEW d \in Desks, NEW k \in DOMAIN roster'[w][d],
                    Unseen(roster'[w][d][k])
             PROVE  plans'[w].review = "pending" /\ roster'[w][d][k].status # "running"
  BY DEF UnseenWait, Unseen
<1> DEFINE lines == roster[w][d]
           new == roster'[w][d]
<1>1. \A i \in DOMAIN lines :
        Unseen(lines[i]) => plans[w].review = "pending" /\ lines[i].status # "running"
  BY DEF UnseenWait
<1>2. lines \in Seq(Line) /\ orders[d][w] \in AnyOrder
  BY RosterTyped
<1>3. CASE edits' # edits
  <2>1. plans'[w].review = plans[w].review /\ Shows(lines, new)
    BY <1>3, EditsCount, RequestAsked, SwitchAsked DEF AskedMoves, AllSeen
  <2> QED
    BY <1>1, <2>1 DEF Shows
<1>4. CASE edits' = edits
  <2>1. /\ plans'[w].review \in {plans[w].review, "pending"}
        /\ Marks(w, lines, new) \/ Refilled(w, d)
    BY <1>4, StepQuiet DEF QuietMoves
  <2>2. CASE Marks(w, lines, new)
    BY <1>1, <2>1, <2>2 DEF Marks, Unseen, Dispatchable
  <2>3. CASE new = ApplyStanding(lines, orders[d][w])
    <3>1. (\E i \in DOMAIN lines : new[k] = lines[i]) \/ new[k] = NewLine("standing", FALSE)
      <4>1. k \in DOMAIN new
        OBVIOUS
      <4> HIDE DEF lines, new
      <4> QED
        BY <1>2, <2>3, <4>1, StandingLines
    <3> QED
      BY <1>1, <2>1, <3>1 DEF Unseen, NewLine
  <2>4. ASSUME NEW n \in Nat, new = Generated(lines, orders[d][w], n), plans'[w].review = "pending"
        PROVE  plans'[w].review = "pending" /\ new[k].status # "running"
    <3>1. \/ \E i \in DOMAIN lines : new[k] = lines[i]
          \/ new[k] \in {NewLine("standing", FALSE), NewLine("ai_suggested", FALSE)}
      BY <1>2, <2>4, GeneratedLines
    <3> QED
      BY <1>1, <2>4, <3>1 DEF NewLine
  <2> QED
    BY <2>1, <2>2, <2>3, <2>4 DEF Refilled
<1> QED
  BY <1>3, <1>4

\* No suggestion is worked on that was not in the roster when an operator
\* approved it: by the invariant that the review of its shift is pending.
THEOREM UnseenSuggestionsNeverRun == Spec => []NoUnseenSuggestionRuns
<1>1. Init => TypeOK /\ Placed /\ UnseenWait
  <2>1. ASSUME Init PROVE UnseenWait
    <3>1. \A w \in Windows, d \in Desks : DOMAIN roster[w][d] = {}
      BY <2>1, EmptyLines DEF Init
    <3> QED
      BY <3>1 DEF UnseenWait
  <2> QED
    BY <2>1, InitTyped
<1>2. TypeOK /\ Placed /\ UnseenWait /\ [Next]_vars => TypeOK' /\ Placed' /\ UnseenWait'
  BY StepTyped, UnseenStay
<1>3. UnseenWait => NoUnseenSuggestionRuns
  BY DEF UnseenWait, NoUnseenSuggestionRuns, Unseen
<1> QED
  BY <1>1, <1>2, <1>3, PTL DEF Spec

-----------------------------------------------------------------------------
(* What operators have locked.                                             *)

LockedManualLine == {l \in Line : l.source = "manual" /\ l.locked}

LEMMA LockedManualIs ==
  ASSUME NEW lines \in Seq(Line)
  PROVE  LockedManual(lines) = Of(lines, LockedManualLine)
BY DEF LockedManual, Of, LockedManualLine

LEMMA LockedStay ==
  ASSUME TypeOK, Placed, [Next]_vars, edits' = edits, NEW w \in Windows, NEW d \in Desks
  PROVE  Cardinality(LockedManual(roster'[w][d])) = Cardinality(LockedManual(roster[w][d]))
<1> DEFINE lines == roster[w][d]
           new == roster'[w][d]
           Q == LockedManualLine
<1>1. lines \in Seq(Line) /\ orders[d][w] \in AnyOrder
  BY RosterTyped
<1>2. new \in Seq(Line) /\ (Marks(w, lines, new) \/ Refilled(w, d))
  BY StepQuiet DEF QuietMoves
<1>3. \A l \in Q : ~Dropped(l, "standing") /\ ~Dropped(l, "ai_suggested")
  BY DEF LockedManualLine, Dropped
<1>4. CASE Marks(w, lines, new)
  <2>1. LockedManual(new) = LockedManual(lines)
    BY <1>4 DEF Marks, LockedManual
  <2> QED
    BY <2>1
<1>5. CASE new = ApplyStanding(lines, orders[d][w])
  <2>1. Cardinality(Of(new, Q)) = Cardinality(Of(lines, Q))
    <3> HIDE DEF Q, new, lines
    <3> QED
      BY <1>1, <1>3, <1>5, StandingLines
  <2> QED
    BY <1>1, <1>2, <2>1, LockedManualIs
<1>6. ASSUME NEW n \in Nat, new = Generated(lines, orders[d][w], n)
      PROVE  Cardinality(LockedManual(new)) = Cardinality(LockedManual(lines))
  <2>1. Cardinality(Of(new, Q)) = Cardinality(Of(lines, Q))
    <3> HIDE DEF Q, new, lines
    <3> QED
      BY <1>1, <1>3, <1>6, GeneratedLines
  <2> QED
    BY <1>1, <1>2, <2>1, LockedManualIs
<1> QED
  BY <1>2, <1>4, <1>5, <1>6 DEF Refilled

\* "preserve locked manual lines": no tick, run or refilled roster costs a desk
\* one of them, whatever stands around them.
THEOREM LockedLinesAlwaysSurvive == Spec => LockedLinesSurvive
<1>1. Spec => [](TypeOK /\ Placed)
  BY TypeCorrect
<1>2. TypeOK /\ Placed /\ [Next]_vars =>
        [edits' = edits =>
           \A w \in Windows, d \in Desks :
             Cardinality(LockedManual(roster'[w][d])) = Cardinality(LockedManual(roster[w][d]))]_vars
  BY LockedStay
<1> QED
  BY <1>1, <1>2, PTL DEF Spec, LockedLinesSurvive

-----------------------------------------------------------------------------
(* What T-15 generates.                                                    *)

\* Positions that are added behind others.
LEMMA AddedCount ==
  ASSUME NEW S, IsFiniteSet(S), NEW a \in Nat, NEW n \in Nat
  PROVE  Cardinality(S \cup ((a + 1)..(a + n))) <= Cardinality(S) + n
<1> DEFINE T == (a + 1)..(a + n)
<1>1. IsFiniteSet(T) /\ Cardinality(T) = n
  <2>1. a + 1 \in Int /\ a + n \in Int
    OBVIOUS
  <2>2. IsFiniteSet(T) /\ Cardinality(T) = IF a + 1 > a + n THEN 0 ELSE (a + n) - (a + 1) + 1
    BY <2>1, FS_Interval
  <2> QED
    BY <2>2
<1> HIDE DEF T
<1>2. Cardinality(S \cup T) = Cardinality(S) + Cardinality(T) - Cardinality(S \cap T)
  BY <1>1, FS_Union
<1>3. IsFiniteSet(S \cap T)
  BY <1>1, FS_Intersection
<1>4. Cardinality(S) \in Nat /\ Cardinality(S \cap T) \in Nat
  BY <1>3, FS_CardinalityType
<1> QED
  BY <1>1, <1>2, <1>4 DEF T

\* The standing lines of a desk leave room for what is locked.
LEMMA StandingWithin ==
  ASSUME NEW lines \in Seq(Line), NEW order \in AnyOrder
  PROVE  LET new == ApplyStanding(lines, order) IN
         Pending(new, "standing") # {} =>
           Cardinality(LockedOf(new) \cup Pending(new, "standing")) <= Target(order)
<1> DEFINE kept == Without(lines, "standing")
           n == Ordered(kept, order)
           new == kept \o NewLines(n, "standing")
<1>1. ApplyStanding(lines, order) = new
  BY DEF ApplyStanding, Ordered
<1>2. kept \in Seq(Line) /\ \A k \in DOMAIN kept : ~Dropped(kept[k], "standing")
  BY WithoutKeeps
<1> HIDE DEF kept
<1>3. /\ n \in Nat
      /\ Cardinality(LockedOf(kept)) \in Nat
      /\ n > 0 => Cardinality(LockedOf(kept)) + n <= Target(order)
  BY <1>2, OrderedNat
<1>4. DOMAIN kept = 1..Len(kept) /\ Len(kept) \in Nat
  BY <1>2
<1> HIDE DEF n
<1>5. /\ DOMAIN new = 1..(Len(kept) + n)
      /\ \A k \in 1..Len(kept) : new[k] = kept[k]
      /\ \A k \in (Len(kept) + 1)..(Len(kept) + n) : new[k] = NewLine("standing", FALSE)
  BY <1>2, <1>3, JoinedNew
<1> DEFINE added == (Len(kept) + 1)..(Len(kept) + n)
<1>6. \A k \in DOMAIN new : k \in 1..Len(kept) \/ k \in added
  BY <1>3, <1>4, <1>5
<1> HIDE DEF new
<1>7. Pending(new, "standing") \subseteq added
  BY <1>2, <1>4, <1>5, <1>6 DEF Pending, Dropped
<1>8. LockedOf(new) \subseteq LockedOf(kept)
  <2>1. ~NewLine("standing", FALSE).locked
    BY DEF NewLine
  <2> QED
    BY <1>4, <1>5, <1>6, <2>1 DEF LockedOf, Unfinished
<1>9. IsFiniteSet(LockedOf(kept))
  BY <1>2, LinesFinite DEF LockedOf, Unfinished
<1>10. Cardinality(LockedOf(kept) \cup added) <= Cardinality(LockedOf(kept)) + n
  BY <1>3, <1>4, <1>9, AddedCount
<1>11. IsFiniteSet(LockedOf(kept) \cup added)
  <2>1. IsFiniteSet(added)
    BY <1>3, <1>4, FS_Interval
  <2> QED
    BY <1>9, <2>1, FS_Union
<1>12. LockedOf(new) \cup Pending(new, "standing") \subseteq LockedOf(kept) \cup added
  BY <1>7, <1>8
<1>13. /\ Cardinality(LockedOf(new) \cup Pending(new, "standing"))
            <= Cardinality(LockedOf(kept) \cup added)
       /\ Cardinality(LockedOf(new) \cup Pending(new, "standing")) \in Nat
       /\ Cardinality(LockedOf(kept) \cup added) \in Nat
  BY <1>11, <1>12, FS_Subset, FS_CardinalityType
<1>14. ASSUME Pending(new, "standing") # {}
       PROVE  Cardinality(LockedOf(new) \cup Pending(new, "standing")) <= Target(order)
  <2>1. n > 0
    BY <1>3, <1>4, <1>7, <1>14
  <2>2. Target(order) \in Nat
    BY OrderNumbers
  <2> QED
    BY <1>3, <1>10, <1>13, <2>1, <2>2
<1> QED
  BY <1>1, <1>14

\* A generated roster is within its target.
LEMMA GeneratedWithin ==
  ASSUME NEW lines \in Seq(Line), NEW order \in AnyOrder, NEW n \in Nat
  PROVE  WithinTarget(Generated(lines, order, n), order)
<1> DEFINE bare == Without(lines, "ai_suggested")
           standing == ApplyStanding(bare, order)
           m == Least(n, Gap(standing, order))
           new == standing \o NewLines(m, "ai_suggested")
<1>1. Generated(lines, order, n) = new
  BY DEF Generated
<1>2. bare \in Seq(Line) /\ \A k \in DOMAIN bare : ~Dropped(bare[k], "ai_suggested")
  BY WithoutKeeps
<1> HIDE DEF bare
<1>3. /\ standing \in Seq(Line)
      /\ \A k \in DOMAIN standing :
           (\E i \in DOMAIN bare : standing[k] = bare[i]) \/ standing[k] = NewLine("standing", FALSE)
  BY <1>2, StandingLines
<1>4. Pending(standing, "standing") # {} =>
        Cardinality(LockedOf(standing) \cup Pending(standing, "standing")) <= Target(order)
  BY <1>2, StandingWithin
<1> HIDE DEF standing
<1>5. \A k \in DOMAIN standing : ~Dropped(standing[k], "ai_suggested")
  BY <1>2, <1>3 DEF Dropped, NewLine
<1>6. /\ Gap(standing, order) \in Nat
      /\ Cardinality(Unfinished(standing)) \in Nat
      /\ Gap(standing, order) > 0 =>
           Cardinality(Unfinished(standing)) + Gap(standing, order) = Target(order)
  BY <1>3, GapNat
<1>7. m \in Nat /\ m <= Gap(standing, order)
  BY <1>6, LeastNat
<1>8. DOMAIN standing = 1..Len(standing) /\ Len(standing) \in Nat
  BY <1>3
<1> HIDE DEF m
<1> DEFINE added == (Len(standing) + 1)..(Len(standing) + m)
<1>9. /\ DOMAIN new = 1..(Len(standing) + m)
      /\ \A k \in 1..Len(standing) : new[k] = standing[k]
      /\ \A k \in added : new[k] = NewLine("ai_suggested", FALSE)
  BY <1>3, <1>7, JoinedNew
<1>10. /\ \A k \in DOMAIN new : k \in DOMAIN standing \/ k \in added
       /\ \A k \in DOMAIN standing : k \in DOMAIN new
  BY <1>7, <1>8, <1>9
<1> HIDE DEF new
<1>11. ASSUME Pending(new, "ai_suggested") # {}
       PROVE  Cardinality(Unfinished(new)) <= Target(order)
  <2>1. Pending(new, "ai_suggested") \subseteq added
    BY <1>5, <1>8, <1>9, <1>10 DEF Pending, Dropped
  <2>2. m > 0
    BY <1>7, <1>8, <1>11, <2>1
  <2>3. Unfinished(new) \subseteq Unfinished(standing) \cup added
    BY <1>8, <1>9, <1>10 DEF Unfinished
  <2>4. IsFiniteSet(Unfinished(standing))
    BY <1>3, LinesFinite DEF Unfinished
  <2>5. Cardinality(Unfinished(standing) \cup added) <= Cardinality(Unfinished(standing)) + m
    BY <1>7, <1>8, <2>4, AddedCount
  <2>6. IsFiniteSet(Unfinished(standing) \cup added)
    <3>1. IsFiniteSet(added)
      BY <1>7, <1>8, FS_Interval
    <3> QED
      BY <2>4, <3>1, FS_Union
  <2>7. /\ Cardinality(Unfinished(new)) <= Cardinality(Unfinished(standing) \cup added)
        /\ Cardinality(Unfinished(new)) \in Nat
        /\ Cardinality(Unfinished(standing) \cup added) \in Nat
    BY <2>3, <2>6, FS_Subset, FS_CardinalityType
  <2>8. Target(order) \in Nat
    BY OrderNumbers
  <2> QED
    BY <1>6, <1>7, <2>2, <2>5, <2>7, <2>8
<1>12. ASSUME Pending(new, "standing") # {}
       PROVE  Cardinality(LockedOf(new) \cup Pending(new, "standing")) <= Target(order)
  <2>1. /\ NewLine("ai_suggested", FALSE).source = "ai_suggested"
        /\ ~NewLine("ai_suggested", FALSE).locked
    BY DEF NewLine
  <2>2. Pending(new, "standing") = Pending(standing, "standing")
    BY <1>8, <1>9, <1>10, <2>1 DEF Pending
  <2>3. LockedOf(new) = LockedOf(standing)
    BY <1>8, <1>9, <1>10, <2>1 DEF LockedOf, Unfinished
  <2> QED
    BY <1>4, <1>12, <2>2, <2>3
<1> QED
  BY <1>1, <1>11, <1>12 DEF WithinTarget

LEMMA T15Within ==
  ASSUME TypeOK, Placed, [Next]_vars, NEW w \in Windows, ~plans[w].t15, plans'[w].t15,
         NEW d \in Desks
  PROVE  WithinTarget(roster'[w][d], orders[d][w])
<1>1. edits' = edits
  BY EditsCount, RequestAsked, SwitchAsked DEF AskedMoves
<1>2. \/ roster'[w][d] = <<>>
      \/ \E n \in Nat : roster'[w][d] = Generated(roster[w][d], orders[d][w], n)
  BY <1>1, StepQuiet DEF QuietMoves
<1>3. CASE roster'[w][d] = <<>>
  <2>1. DOMAIN roster'[w][d] = {}
    BY <1>3, EmptyLines
  <2> QED
    BY <2>1 DEF WithinTarget, Pending
<1>4. ASSUME NEW n \in Nat, roster'[w][d] = Generated(roster[w][d], orders[d][w], n)
      PROVE  WithinTarget(roster'[w][d], orders[d][w])
  <2>1. roster[w][d] \in Seq(Line) /\ orders[d][w] \in AnyOrder
    BY RosterTyped
  <2> QED
    BY <1>4, <2>1, GeneratedWithin
<1> QED
  BY <1>2, <1>3, <1>4

\* The step in which a shift's T-15 is done leaves every desk of it within its
\* target, for any order, any lines that stood there and any number of suggestions.
THEOREM GenerationAlwaysWithinTarget == Spec => GenerationRespectsTarget
<1>1. Spec => [](TypeOK /\ Placed)
  BY TypeCorrect
<1>2. TypeOK /\ Placed /\ [Next]_vars =>
        [\A w \in Windows :
           ~plans[w].t15 /\ plans'[w].t15 =>
             \A d \in Desks : WithinTarget(roster'[w][d], orders[d][w])]_vars
  BY T15Within
<1> QED
  BY <1>1, <1>2, PTL DEF Spec, GenerationRespectsTarget

=============================================================================
