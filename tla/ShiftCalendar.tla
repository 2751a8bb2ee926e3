--------------------------- MODULE ShiftCalendar ---------------------------
(***************************************************************************)
(* What the newsroom's calendar promises, without desks, rosters, ticks or *)
(* operators: the shift of every window is drafted, goes on air and is     *)
(* over, in this order and at most once, and one shift is on air at a time.*)
(***************************************************************************)

CONSTANT Windows   \* the windows of the calendar

VARIABLE stage     \* how far the shift of every window has come

Stages == {"none", "draft", "active", "complete"}

Init == stage = [w \in Windows |-> "none"]

OnAir == {w \in Windows : stage[w] = "active"}

\* Some shifts end and some are planned, or either.
CloseAndPlan(W, P) ==
  /\ W \subseteq OnAir
  /\ \A w \in P : stage[w] = "none"
  /\ stage' = [w \in Windows |->
       CASE w \in W -> "complete" [] w \in P -> "draft" [] OTHER -> stage[w]]

\* A shift that has not been on air takes over from the one that is.
GoOnAir(w) ==
  /\ stage[w] \in {"none", "draft"}
  /\ stage' = [v \in Windows |->
       CASE v = w -> "active" [] v \in OnAir \ {w} -> "complete" [] OTHER -> stage[v]]

Next ==
  \/ \E W \in SUBSET Windows, P \in SUBSET Windows : CloseAndPlan(W, P)
  \/ \E w \in Windows : GoOnAir(w)

Spec == Init /\ [][Next]_stage
=============================================================================
