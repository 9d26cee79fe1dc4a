CONSTANTS
  j1 = j1
  j2 = j2
  JobIds <- MC_JobIds
  JobType <- MC_JobType
  MaxChecks = 0
  Rpcs = {}
  QueriedJobs = {}
  ExitingJobs = {}
SPECIFICATION Spec
INVARIANT
  NoUseAfterFree
\* A quiescent job manager idles in its loop, waiting for the next RPC.
CHECK_DEADLOCK FALSE
