\* Shutdown with two output chunks still queued.
CONSTANTS
  MaxChunks = 2
  MaxInput = 0
  StreamMayFail = FALSE
  FanoutMaySendOther = FALSE
SPECIFICATION Spec
PROPERTIES
  Termination
\* Quiescent states are legitimate: the client exits, or idles waiting for cfored.
CHECK_DEADLOCK FALSE
