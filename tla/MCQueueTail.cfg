\* OPERATE may remove any element, as the comment of QUEUE_iterate allows.
CONSTANTS
  Elem = {e1, e2}
  Value = {a}
  NULL = NULL
  Garbage = Garbage
  RemoveTail = TRUE
SPECIFICATION QueueSpec
INVARIANTS OperateOnLive
CHECK_DEADLOCK FALSE
