-------------------------- MODULE MCPullerDispatch --------------------------
(***************************************************************************)
(* Desks for TLC: how their reporters are chosen, and which of the initial *)
(* rosters are explored.                                                   *)
(***************************************************************************)
EXTENDS PullerDispatch

TakingTurns == [d \in 1..2 |-> "round_robin"]
OneByUse    == [d \in 1..2 |-> IF d = 1 THEN "lru" ELSE "round_robin"]

\* Rosters of which at most one line is the suggestion of a model.
MCInit ==
  /\ Init
  /\ Cardinality({x \in Desks \X (1..LineCount) : lines[x[1]][x[2]].suggested}) <= 1
MCSpec == MCInit /\ [][Next]_vars
=============================================================================
