CONSTANTS
  Adapters = {17}
  Unset = Unset
  Threads = {t1, t2}
  Dispatchers = {t1}
  WaitsForIdle = FALSE
  RingSizes = {256}
  Args = {TRUE, FALSE}
  RingStarts = {0}
  MaxHandles = 4
  MaxMaps = 3
  MaxQueued = 2
  TickRange = 8
  Timeouts = {0, 4}
  Starts = {6}
  VramRange = 16
  VramWindow = 8
  Offsets = {0}
  Sizes = {8}

SPECIFICATION Spec

INVARIANTS ReserveKept
