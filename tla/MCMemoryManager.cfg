CONSTANTS
  Addrs = {p1, p2, p3}
  Buffers = {b1, b2, b3}
  Sizes = {1, 5, 15}
  SIZE_WIDTH = 16
  BASE_ALIGNMENT = 2
  PREFERRED_ALIGNMENT = 4
  INITIAL_CAPACITY = 1
  NoContext = NoContext
  Lost = Lost
  MaxAllocs = 3
  MaxTransfers = 1

SPECIFICATION FairSpec

INVARIANTS TypeOK Accounting Ownership BlocksLargeEnough MappingTracked
PROPERTY CleanupEnds
CHECK_DEADLOCK FALSE
