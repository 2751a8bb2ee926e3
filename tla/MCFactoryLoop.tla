--------------------------- MODULE MCFactoryLoop ----------------------------
(***************************************************************************)
(* Instances of FactoryLoop for TLC.  Assignments and runs are sets of     *)
(* model values and interchangeable, so the safety runs use symmetry.      *)
(***************************************************************************)
EXTENDS FactoryLoop, TLC

Symmetry == Permutations(Assignments) \cup Permutations(Runs)

=============================================================================
