\* Safety of the forwarding client with every fault enabled.
CONSTANTS
  MaxChunks = 3
  MaxInput = 2
  StreamMayFail = TRUE
  FanoutMaySendOther = TRUE
SPECIFICATION Spec
INVARIANTS
  TypeOK
  
  SingleOutstandingWrite
  NoWriteAfterWriteLast
  TaskEndAtMostOnce
\* Quiescent states are legitimate: the client exits, or idles waiting for cfored.
CHECK_DEADLOCK FALSE
