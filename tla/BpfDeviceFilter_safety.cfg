\* Four job cgroups, two of them recovered after a restart; cgroup writes,
\* map updates, attach, open and rmdir may fail; the BPF object always loads.
CONSTANTS
  Cgroups = {c1, c2, c3, c4}
  Recovered = {c1, c2}
  NumDenied = 3
  InitMayFail = FALSE
  SyscallMayFail = TRUE
  RmdirMayFail = TRUE
SPECIFICATION Spec
INVARIANTS
  TypeOK
  RefCountExact
  NewJobEntriesErased
\* Every job cgroup ends destroyed or kept by a job that runs on.
CHECK_DEADLOCK FALSE
