\* A caller that reads on after readchar returned -1.
CONSTANTS
  IntMin = 0
  IntMax = 1
  NULL = NULL
  DeleteLast = FALSE
  Fd = {3, 4}
  Proc = {"accept", "serial"}
  Names = {"port"}
  ListenFd = 3
  ConnFd = 4
  BufSize = 2
  CloseOnError = FALSE
  MaxConn = 1
  MaxBytes = 3
SPECIFICATION RemoteSpec
INVARIANTS NextCharFromRemote
