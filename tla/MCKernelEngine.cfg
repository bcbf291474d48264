CONSTANTS
  MaxSets = 2
  MaxAttempts = 2
  MaxCommands = 2
  Handles = {k1}
  Blocks = {b1, b2, b3}
  Programs <- MCPrograms
  Sizes = {1, 2}
  None = None

SPECIFICATION FairSpec

INVARIANTS TypeOK ArgumentsAreOwned CallsUnwind HandlesAreLive ExecutionsCompute
PROPERTY ExecutionsEnd
