----------------------------- MODULE ShiftRace ------------------------------
(***************************************************************************)
(* Requests to activate a shift that overlap with whatever else commits.   *)
(* POST /plans/{id}/activate is a sync handler and runs in a thread.  Its  *)
(* queries begin no transaction (sqlite3 begins one before the first       *)
(* write), so what it has read may be old when it writes; before that it   *)
(* may wait up to 30 seconds for the lock of a scheduler that awaits a     *)
(* model.                                                                  *)
(***************************************************************************)
EXTENDS ShiftScheduler

VARIABLE deciding   \* shifts whose request has looked around and not yet written

raceVars == <<vars, deciding>>

RaceInit == Init /\ deciding = {}

\* No other shift is on air.
LooksAround(w) ==
  /\ Edit
  /\ plans[w].status = "draft"
  /\ Total(w, roster[w])
  /\ Having("active") = {}
  /\ deciding' = deciding \cup {w}
  /\ UNCHANGED <<now, auto, plans, slots, roster, orders, alerts, tick>>

GoesOnAir(w) ==
  /\ w \in deciding
  /\ plans' = [plans EXCEPT ![w].status = "active"]
  /\ deciding' = deciding \ {w}
  /\ UNCHANGED <<now, auto, slots, roster, orders, alerts, tick, edits>>

\* The database stays locked for longer than the busy_timeout.
GivesUp(w) ==
  /\ w \in deciding
  /\ deciding' = deciding \ {w}
  /\ UNCHANGED vars

RaceNext ==
  \/ Next /\ UNCHANGED deciding
  \/ \E w \in Windows : LooksAround(w) \/ GoesOnAir(w) \/ GivesUp(w)

RaceSpec == RaceInit /\ [][RaceNext]_raceVars

-----------------------------------------------------------------------------
\* activate_shift_plan raises "Another shift is already active - complete it
\* before starting a new one": one shift is on air at a time.
OneShiftOnAir == Cardinality(Having("active")) <= 1
=============================================================================
