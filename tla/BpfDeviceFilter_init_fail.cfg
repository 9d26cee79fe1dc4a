\* Two new jobs; the load of the BPF object may fail.
CONSTANTS
  Cgroups = {c1, c2}
  Recovered = {}
  NumDenied = 2
  InitMayFail = TRUE
  SyscallMayFail = FALSE
  RmdirMayFail = FALSE
SPECIFICATION Spec
INVARIANT
  NoStaleEntries
CHECK_DEADLOCK FALSE
