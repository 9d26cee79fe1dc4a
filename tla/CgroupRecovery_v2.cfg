\* The clean-up of CgroupManager::Init on a cgroup v2 node with three jobs.
CONSTANTS
  Jobs = {j1, j2, j3}
  CgVersion = "V2"
  NoJob = NoJob
SPECIFICATION Spec
INVARIANT
  StaleCgroupsRemoved
\* Once Init has returned nothing is left to do.
CHECK_DEADLOCK FALSE
