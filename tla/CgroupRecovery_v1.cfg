\* The clean-up of CgroupManager::Init on a cgroup v1 node with three jobs.
CONSTANTS
  Jobs = {j1, j2, j3}
  CgVersion = "V1"
  NoJob = NoJob
SPECIFICATION Spec
PROPERTY
  InitReturns
\* Once Init has returned nothing is left to do.
CHECK_DEADLOCK FALSE
