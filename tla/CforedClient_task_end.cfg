\* The task's end is reported.
CONSTANTS
  MaxChunks = 0
  MaxInput = 0
  StreamMayFail = FALSE
  FanoutMaySendOther = FALSE
SPECIFICATION Spec
PROPERTIES
  TaskEventuallyEnds
\* Quiescent states are legitimate: the client exits, or idles waiting for cfored.
CHECK_DEADLOCK FALSE
