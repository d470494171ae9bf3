SPECIFICATION Spec
CONSTANTS
  PageSize = 4
  MaxPages = 3
  U32 = 32
  WordBytes = 4
  Byte = {0, 1}
  LoadBytes <- MCLoads
  StoreBytes <- MCStores
  StoreWrites <- MCStores
  IndexedStores <- MCIndexed
  FirstRegister = {0}
  Initials = {0, 1, 2}
  Maxima <- MCMaxima
  Segments <- MCSegments
  SegmentsInBounds = TRUE
  Addresses = {0, 2, 7, 31}
  Deltas = {0, 1, 2}
  Words <- MCWords
  TrapsAfterGrowth = FALSE
INVARIANTS TypeOK SizeWithinLimits BeyondSizeZero
PROPERTIES SizeNeverShrinks ImplementsWasmMemory
\* A module that is refused has nothing left to do.
CHECK_DEADLOCK FALSE
