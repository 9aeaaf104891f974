-------------------------- MODULE MCPullRequestJobs --------------------------
(* Two comments or one, two executions and two jobs at a time, for TLC.    *)
EXTENDS PullRequestJobs, TLC

CONSTANTS c1, c2, e1, e2, j1, j2

MCComments   == {c1, c2}
MCExecutions == {e1, e2}
MCJobs       == {j1, j2}

MCSymmetry == Permutations(MCComments) \cup Permutations(MCExecutions) \cup Permutations(MCJobs)

\* One comment, for jobs that are not kept apart.
MCOneComment   == {c1}
MCRaceSymmetry == Permutations(MCExecutions) \cup Permutations(MCJobs)
===============================================================================
