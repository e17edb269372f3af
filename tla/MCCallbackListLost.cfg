\* Deleting the last callback leaves last = NULL: the next append is lost.
CONSTANTS
  IntMin <- MCIntMin
  IntMax = 2
  NULL = NULL
  DeleteLast = TRUE
SPECIFICATION CallbackSpec
INVARIANT NothingLost
