\* Status delivery of the job manager with a Batch and a Crun job, under
\* CheckTaskStatus and ChangeTaskTimeLimit requests.
CONSTANTS
  j1 = j1
  j2 = j2
  JobIds <- MC_JobIds
  JobType <- MC_JobType
  MaxChecks = 1
  Rpcs = {"Check", "Limit"}
  QueriedJobs = {}
  ExitingJobs = {j1, j2}
SPECIFICATION Spec
INVARIANTS
  TypeOK
  TerminalStatusAtMostOnce
PROPERTIES
  NoRunningAfterReported
\* A quiescent job manager idles in its loop, waiting for the next RPC.
CHECK_DEADLOCK FALSE
