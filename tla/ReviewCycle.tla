----------------------------- MODULE ReviewCycle ------------------------------
(***************************************************************************)
(* What a run promises its editors, without steps, checkpoints or crashes: *)
(* a draft is sent back for rewriting a bounded number of times, and the   *)
(* run ends once, with an article or without.  A run that has used up its  *)
(* rounds delivers nothing.                                                *)
(*                                                                         *)
(* A stopped run may still deliver: the worker that awaits the headline    *)
(* does not look at the run again.                                         *)
(***************************************************************************)
EXTENDS Naturals

CONSTANT MaxRounds   \* how often a draft may be sent back

VARIABLES
  phase,    \* "open", or how the run ended
  rounds    \* how often the draft has been sent back

cycleVars == <<phase, rounds>>

Phases == {"open", "stopped", "delivered", "dropped"}

TypeOK == phase \in Phases /\ rounds \in 0 .. MaxRounds + 1

Init == phase = "open" /\ rounds = 0

\* The round that is one too many is counted, too; the run then only ends.
SendBack ==
  /\ phase = "open"
  /\ rounds <= MaxRounds
  /\ rounds' = rounds + 1
  /\ UNCHANGED phase

Deliver ==
  /\ phase \in {"open", "stopped"}
  /\ rounds <= MaxRounds
  /\ phase' = "delivered"
  /\ UNCHANGED rounds

Drop ==
  /\ phase \in {"open", "stopped"}
  /\ phase' = "dropped"
  /\ UNCHANGED rounds

Stop ==
  /\ phase = "open"
  /\ phase' = "stopped"
  /\ UNCHANGED rounds

Next == SendBack \/ Deliver \/ Drop \/ Stop

Spec == Init /\ [][Next]_cycleVars

=============================================================================
