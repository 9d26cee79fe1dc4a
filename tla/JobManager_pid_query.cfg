\* One job queried for its task id by pid (QueryTaskIdFromPidAsync), with
\* the env queries of the same RPC path; no other requests.
CONSTANTS
  j1 = j1
  j2 = j2
  JobIds <- MC_JobIds
  JobType <- MC_JobType
  MaxChecks = 1
  Rpcs = {"Query"}
  QueriedJobs = {j1}
  ExitingJobs = {}
SPECIFICATION Spec
PROPERTY
  PidQueryAnswered
\* A quiescent job manager idles in its loop, waiting for the next RPC.
CHECK_DEADLOCK FALSE
