CONSTANTS
  Threads = {t1, t2, t3}
  Ptrs <- OrderedPtrs
  Values <- Bits
  Requests <- OrderedCalls
  NoCall = NoCall
  SPINLOCK_TABLE_SIZE = 4
  CACHE_LINE = 64

SPECIFICATION FairSpec

INVARIANTS TypeOK LockOwnership NoCircularWait
PROPERTIES PairIsAtomic Progress


