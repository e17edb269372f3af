\* Two connections one after the other, three characters on each, a buffer of three.
CONSTANTS
  IntMin = 0
  IntMax = 1
  NULL = NULL
  DeleteLast = FALSE
  Fd = {3, 4}
  Proc = {"accept", "serial"}
  Names = {"stdio", "device", "port"}
  ListenFd = 3
  ConnFd = 4
  BufSize = 3
  CloseOnError = TRUE
  MaxConn = 2
  MaxBytes = 3
SPECIFICATION RemoteFairSpec
INVARIANTS RemoteStateOK StreamIntact
PROPERTIES IsLoopClient ServesEverySession
