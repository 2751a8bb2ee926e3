--------------------------- MODULE MCTopicQueues ---------------------------
(***************************************************************************)
(* A queue of two topics an earlier version has left: one that failed once *)
(* and runs again, one that runs for the first time.  All runs are in one  *)
(* batch.                                                                  *)
(***************************************************************************)
EXTENDS TopicQueues

CONSTANTS Main, Second, OldFlow, NewFlow

MCQueues  == {Main, Second}
MCFlows   == {OldFlow, NewFlow}
MCRuns    == {1, 2, 3}
MCTopicOf == <<1, 1, 2>>
MCStarts  == {<<"failed", "running", "running">>}
=============================================================================
