CONSTANTS
  Adapters = {17}
  Unset = Unset
  Threads = {t1, t2}
  Dispatchers = {t1}
  WaitsForIdle = TRUE
  RingSizes = {128, 228}
  Args = {TRUE}
  RingStarts = {30}
  MaxHandles = 8
  MaxMaps = 6
  MaxQueued = 2
  TickRange = 8
  Timeouts = {0, 4}
  Starts = {6}
  VramRange = 16
  VramWindow = 8
  Offsets = {0, 4, 15}
  Sizes = {8}

SPECIFICATION FairSpec

INVARIANTS TypeOK InitializedHandleMapped RingNotOverrun OptimalIsUnlimited
PROPERTIES FailedMappingIsUndone WaitEnds
