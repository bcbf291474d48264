CONSTANTS
  Packets = {a, b}
  MAX_MSG_QUEUE = 3
  MaxSent = 6
  NumSlots = 3
  LaneRequests <- MCLaneRequests
  MaxFree = 20
  Priorities = {5, 7}
  MaxWatts = 120
  Readers = {r1}
  Workloads = {w1, w2, w3}
  Configs = {c1, c2}
  MAX_WORKLOADS = 2
  NumFields = 2
  Nobody = Nobody
  Untouched = Untouched
  KernelNames = {"vector_add", "vector_mul", "other"}
  SmallWork = 8
  WorkSizes = {4, 9, 12}
  MaxRuns = 2
  MaxMissing = 1
  NumPlatforms = 2
  MaxPresent = 2
  MAX_DEVICES = 3
  Retries = 1
  HipDevices = {0, 2}
  MaxGpus = 3
  max_devices = 2
  AdapterKinds <- MCAdapterKinds
  Room = 1
  MaxAdapters = 2
  AudioDevices = 1
  NumaNodes = {0, 1, 2}
  Libraries <- MCLibraries
  MaxDrivers = 2
  MaxPlatforms = 1
  Renderers = {"Adreno", "Mali", "Intel", "other"}
  Blocks = {b1, b2}
  ClLevels = {"none", "fine"}
  MaxAllocs = 2
  AtomicThreads = {t1, t2}
  WordBits = 2

SPECIFICATION Spec

INVARIANTS TypeOK ReceivedInOrder LanesWithinTotal AnswersWereGiven ResultsAreComplete
INVARIANTS FindingsHold HeapConsistent
PROPERTY LoopsAreAtomic

CHECK_DEADLOCK FALSE
