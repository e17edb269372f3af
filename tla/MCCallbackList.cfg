\* The client keeps to remote.c's use: five ids, the counter wraps.
CONSTANTS
  IntMin <- MCIntMin
  IntMax = 2
  NULL = NULL
  DeleteLast = FALSE
SPECIFICATION CallbackSpec
INVARIANTS CallbackStateOK NothingLost
PROPERTIES ImplementsFifo
