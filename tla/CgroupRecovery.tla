---------------------------- MODULE CgroupRecovery ----------------------------
(***************************************************************************)
(* The clean-up at the end of CgroupManager::Init(running_job_ids)        *)
(* (CgroupManager.cpp): every Crane_Task_<id> cgroup left on the node by  *)
(* a job that is not in running_job_ids is to be removed, and the cgroups *)
(* of the jobs in it kept.  Under cgroup v1 RmJobCgroupsExcept_ walks the *)
(* controller hierarchies with cgroup_walk_tree_*; under v2               *)
(* RmCgroupsV2Except_ iterates the root cgroup directory.                 *)
(*                                                                         *)
(* The module is stated against Init's own contract, for any argument.    *)
(* The start-up code of the repository (GlobalVariableInit) calls          *)
(* g_cg_mgr->Init() with no argument and passes running_jobs to a         *)
(* CgroupManager::Recover the repository does not define, so which set    *)
(* reaches Init there cannot be read from the source.                      *)
(*                                                                         *)
(* A job cgroup is one directory.  Under v1 the model follows the walk of *)
(* the first hierarchy RmJobCgroupsExcept_ walks (cpu; the memory and     *)
(* devices walks repeat it).  rmdir of a cgroup that still holds         *)
(* processes fails with EBUSY.                                             *)
(***************************************************************************)
EXTENDS FiniteSets

CONSTANTS
  Jobs,       \* job ids that may appear on this node
  CgVersion,  \* "V1" or "V2": what cgroup_setup_mode() reports
  NoJob       \* the walk is at no entry

ASSUME CgVersion \in {"V1", "V2"}
ASSUME NoJob \notin Jobs

VARIABLES
  phase,    \* "cleanup" while Init removes cgroups, "returned" after
  running,  \* the running_job_ids argument of Init
  dirs,     \* the jobs whose Crane_Task_<id> directory exists
  procs,    \* the job's cgroup still holds processes
  cur,      \* the entry the v1 cgroup walk is at
  seen      \* entries the walk or the directory iterator has passed

vars == <<phase, running, dirs, procs, cur, seen>>

-----------------------------------------------------------------------------
(* The return {} that ends Init once the clean-up is over. *)
EndCleanup == phase' = "returned" /\ cur' = NoJob

(* RmJobCgroupsUnderControllerExcept_: a Crane_Task_<id> directory of a   *)
(* job in task_ids is skipped with "continue", which jumps over           *)
(* cgroup_walk_tree_next, so the walk stays at the same entry.  Any other *)
(* is rmdir'ed (a failure is only logged) and the walk moves on; when    *)
(* cgroup_walk_tree_next finds no entry the walk ends.                    *)
WalkStep ==
  /\ phase = "cleanup" /\ CgVersion = "V1" /\ cur # NoJob
  /\ IF cur \in running
     THEN UNCHANGED <<dirs, seen, cur, phase>>
     ELSE /\ dirs' = IF procs[cur] THEN dirs ELSE dirs \ {cur}
          /\ seen' = seen \cup {cur}
          /\ LET rest == dirs \ (seen \cup {cur}) IN
               IF rest = {} THEN EndCleanup
               ELSE cur' \in rest /\ UNCHANGED phase
  /\ UNCHANGED <<running, procs>>

(* cgroup_walk_tree_begin found no entry. *)
WalkEmpty ==
  /\ phase = "cleanup" /\ CgVersion = "V1" /\ cur = NoJob
  /\ EndCleanup
  /\ UNCHANGED <<running, dirs, procs, seen>>

(* RmCgroupsV2Except_: the directory_iterator yields the entries in some  *)
(* order; "if (!job_ids.contains(job_id)) continue" skips every job NOT  *)
(* in job_ids and removes the others.  std::filesystem::remove throws     *)
(* when the rmdir fails, and the catch outside the loop ends the whole    *)
(* iteration.                                                              *)
IterStep ==
  /\ phase = "cleanup" /\ CgVersion = "V2"
  /\ \E d \in dirs \ seen :
       /\ seen' = seen \cup {d}
       /\ IF d \notin running THEN UNCHANGED <<dirs, phase, cur>>
          ELSE IF procs[d] THEN EndCleanup /\ UNCHANGED dirs
          ELSE dirs' = dirs \ {d} /\ UNCHANGED <<phase, cur>>
  /\ UNCHANGED <<running, procs>>

(* The iterator is exhausted. *)
IterEnd ==
  /\ phase = "cleanup" /\ CgVersion = "V2"
  /\ dirs \subseteq seen
  /\ EndCleanup
  /\ UNCHANGED <<running, dirs, procs, seen>>

-----------------------------------------------------------------------------
(* Init is called with any set of job ids; any job may have left its      *)
(* cgroup behind, and any cgroup may still hold processes.  Under v1      *)
(* cgroup_walk_tree_begin yields the first entry (any of them, directory  *)
(* order being unspecified).                                              *)
Init ==
  /\ phase = "cleanup"
  /\ running \in SUBSET Jobs
  /\ dirs \in SUBSET Jobs
  /\ procs \in {p \in [Jobs -> BOOLEAN] : \A j \in Jobs : p[j] => j \in dirs}
  /\ cur \in IF CgVersion = "V1" /\ dirs # {} THEN dirs ELSE {NoJob}
  /\ seen = {}

Next == WalkStep \/ WalkEmpty \/ IterStep \/ IterEnd

(* Init runs on the start-up thread to completion. *)
Spec == Init /\ [][Next]_vars /\ WF_vars(Next)

-----------------------------------------------------------------------------
(* Properties. *)

TypeOK ==
  /\ phase \in {"cleanup", "returned"}
  /\ running \subseteq Jobs /\ dirs \subseteq Jobs
  /\ procs \in [Jobs -> BOOLEAN]
  /\ cur \in Jobs \cup {NoJob} /\ seen \subseteq Jobs

(* CgroupManager::Init returns: the clean-up walk of the v1 hierarchies   *)
(* ends, whatever job cgroups the node holds and whichever of them        *)
(* running_job_ids names.                                                 *)
InitReturns ==
  <>(phase = "returned")

(* When Init returns, the only job cgroups left are those of the jobs in *)
(* running_job_ids and those rmdir could not remove because processes     *)
(* are still inside (spec: after the recovery scan every surviving        *)
(* Crane_Task_<id> belongs to a running job or has been removed).          *)
StaleCgroupsRemoved ==
  phase = "returned" => \A j \in dirs : j \in running \/ procs[j]

====
