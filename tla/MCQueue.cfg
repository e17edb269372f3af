\* Four elements, so that one in the middle has neighbours that are neither
\* head nor tail; OPERATE never removes the tail behind other elements.
CONSTANTS
  Elem = {e1, e2, e3, e4}
  Value = {a, b}
  NULL = NULL
  Garbage = Garbage
  RemoveTail = FALSE
SPECIFICATION QueueSpec
INVARIANTS QueueStateOK
PROPERTIES IterateVisitsAll ImplementsFifo
CHECK_DEADLOCK FALSE
