--------------------------- MODULE MCFlowLibrary ---------------------------
(***************************************************************************)
(* A desk, a free path and a template; one run and one job.                *)
(***************************************************************************)
EXTENDS FlowLibrary, TLC

CONSTANTS Desk, Other, Template, Short, Long

MCPaths == {Desk, Other, Template}
MCTemplates == {Template}
MCRuns == {1}
MCJobs == {1}
MCTexts == {Short, Long}
MCSymmetry == Permutations({Desk, Other}) \cup Permutations(MCTexts)
=============================================================================
