\* Three descriptors with a gap between them, up to two callbacks outstanding.
CONSTANTS
  IntMin = 0
  IntMax = 1
  NULL = NULL
  DeleteLast = FALSE
  Fd = {0, 2, 3}
  Proc = {serve}
SPECIFICATION LoopFairSpec
INVARIANTS LoopStateOK SleepsOnlyWhenIdle
PROPERTIES NoReportDropped OnlyFreshEvents EverythingIsServed
