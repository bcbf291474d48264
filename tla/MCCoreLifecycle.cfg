CONSTANTS
  Threads = {main, t1, t2}
  Main = main
  Nobody = Nobody
  Blocks = {b1, b2}
  Managed = TRUE

SPECIFICATION FairSpec

INVARIANTS TypeOK MutexCanBeTrusted CountIsExact
PROPERTY FinalizeEnds
