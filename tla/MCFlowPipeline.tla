--------------------------- MODULE MCFlowPipeline ---------------------------
(***************************************************************************)
(* Flows of three steps for TLC.                                           *)
(***************************************************************************)
EXTENDS RunTelemetry

\* Write, check facts (back to the writer), review (back to the checker).
TwoGates == [loops |-> <<0, 1, 0>>, gate |-> 2, completes |-> TRUE, article |-> 1]

\* Find sources, write, review; only the article is rewritten.
Sourced == [loops |-> <<0, 0, 0>>, gate |-> 2, completes |-> TRUE, article |-> 2]

\* Find sources, write, edit; nothing is reviewed.
Linear == [loops |-> <<0, 0, 0>>, gate |-> 0, completes |-> TRUE, article |-> 3]

\* The same as Sourced, but the review may only send back.
LoopOnly == [Sourced EXCEPT !.completes = FALSE]

SomeFlows     == {TwoGates, Sourced, Linear, LoopOnly}
LoopOnlyFlows == {LoopOnly}

=============================================================================
