--------------------------- MODULE MCStepExecutor ---------------------------
(***************************************************************************)
(* Setups of a step for TLC.                                               *)
(***************************************************************************)
EXTENDS StepExecutor

\* Tool rounds whose tasks may have to be submitted again.
Resubmitted == [tools |-> TRUE, retries |-> 1, rounds |-> 2, attempts |-> 2]

\* Tool rounds that may have to be begun afresh.
Retried == [tools |-> TRUE, retries |-> 2, rounds |-> 2, attempts |-> 1]

\* A plain prompt.
Plain == [tools |-> FALSE, retries |-> 2, rounds |-> 1, attempts |-> 2]

SomeSetups == {Resubmitted, Retried, Plain}
PlainSetup == {Plain}

=============================================================================
