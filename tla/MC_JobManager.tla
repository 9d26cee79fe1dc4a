---------------------------- MODULE MC_JobManager ----------------------------
(* Two jobs, a Batch and a Crun one, so that both branches of the time-   *)
(* limit timer (terminate request, ExceedTimeLimit status) occur and the *)
(* two jobs' launchers and callbacks interleave.                         *)
EXTENDS JobManager

CONSTANTS j1, j2

MC_JobIds == {j1, j2}
MC_JobType == [j \in MC_JobIds |-> IF j = j1 THEN "Batch" ELSE "Crun"]
====
