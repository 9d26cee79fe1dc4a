\* Stop requested before the stream is ready.
CONSTANTS
  MaxChunks = 0
  MaxInput = 0
  StreamMayFail = FALSE
  FanoutMaySendOther = FALSE
SPECIFICATION Spec
INVARIANTS
  NoAssertionFailure
\* Quiescent states are legitimate: the client exits, or idles waiting for cfored.
CHECK_DEADLOCK FALSE
