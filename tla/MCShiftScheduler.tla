-------------------------- MODULE MCShiftScheduler --------------------------
(***************************************************************************)
(* Calendars for TLC: two windows, and a standing order for the second one *)
(* that asks the model for a line, or none yet.                            *)
(***************************************************************************)
EXTENDS ShiftScheduler

CONSTANT d1

FirstOrders == {NoOrder, [topics |-> 0, target |-> 1]}

MCInit == Init /\ \A d \in Desks : orders[d][1] = NoOrder /\ orders[d][2] \in FirstOrders
MCSpec == MCInit /\ [][Next]_vars /\ Fairness
=============================================================================
