\* Blocks of two pages; images of one page up to two and a half blocks, the
\* third page with tags, in a partition of four.  The driver: pages of each
\* size, a block whose row needs all of its three bytes, three calls.
CONSTANTS
  StartBlock = 1
  LastBlock = 4
  Ppb = 2
  Images = {1, 2, 3, 4, 5}
  Tagged = {2}
  EccBytes = 36
  PageSizes = {512, 2048, 4096}
  Blocks = {33000}
  ppb = 2
  Contents = {"A"}
  row = 3
  Timeout = 1
  Twb = 1
  HearsDisabled = TRUE
  MaxCalls = 3
SPECIFICATION MCNandSpec
INVARIANTS
  NandStateOK
  ImageInOrder
  CheckAgrees
  DriverStateOK
PROPERTIES
  BadStaysBad
  BothRunsEnd
  ImplementsFlash
