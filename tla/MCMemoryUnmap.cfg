CONSTANTS
  Addrs = {p1, p2}
  Buffers = {b1, b2}
  Sizes = {1}
  SIZE_WIDTH = 16
  BASE_ALIGNMENT = 2
  PREFERRED_ALIGNMENT = 4
  INITIAL_CAPACITY = 2
  NoContext = NoContext
  Lost = Lost
  MaxAllocs = 2
  MaxTransfers = 1

SPECIFICATION Spec

INVARIANT UnmappedBeforeRelease
CHECK_DEADLOCK FALSE
