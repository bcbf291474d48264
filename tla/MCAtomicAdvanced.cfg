CONSTANTS
  Threads = {t1, t2, t3}
  Cells <- MCCells
  W = 2
  Programs <- SoundPrograms
  NoOp = NoOp
  NoAnswer = NoAnswer
  SPINLOCK_TABLE_SIZE = 4
  CACHE_LINE = 64

SPECIFICATION FairSpec

INVARIANT TypeOK
PROPERTIES CallsAreAtomic Progress
