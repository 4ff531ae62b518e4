--------------------------- MODULE MCRankingJobs ---------------------------
(* Small instances of RankingJobs for TLC.                                 *)
EXTENDS RankingJobs, TLC

CONSTANT NFiles \* number of documents of a job

MCFiles == 1 .. NFiles
\* The last two files have equal scores, so that the file name decides.
MCScore == [f \in 1 .. NFiles |-> IF f = 1 THEN 0 ELSE 1]

\* Nothing depends on which worker or which job is which.
Symmetric == Permutations(Workers) \cup Permutations(Jobs)

\* Bound: a live worker outlives its heartbeat only where one job is left. Where two jobs
\* share the caches every worker keeps its heartbeat.
Stalled == \E w \in Workers : job[w] # NoJob /\ heartbeat[job[w]] = "stale"
OneJobWhenStalled == Stalled => \E j \in Jobs : status[j] = "deleted"
=============================================================================
