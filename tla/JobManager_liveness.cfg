\* A failed launch reaches CTLD, with a Batch and a Crun job, under
\* TerminateTask requests and env and pid queries.
CONSTANTS
  j1 = j1
  j2 = j2
  JobIds <- MC_JobIds
  JobType <- MC_JobType
  MaxChecks = 1
  Rpcs = {"Terminate", "Query"}
  QueriedJobs = {j2}
  ExitingJobs = {}
SPECIFICATION Spec
PROPERTIES
  FailedLaunchReported
  EnvQueryAnswered
\* A quiescent job manager idles in its loop, waiting for the next RPC.
CHECK_DEADLOCK FALSE
