SPECIFICATION FairSpec
CONSTANTS
  Client = {c1}
  Limit = 1
  Chunk = 1
  MaxRows = 2
  MaxLines = 2
  MaxFaults = 2
INVARIANTS OnceInOrder NoGap OnItsWay SameTranscript NoLineMissed
PROPERTY RowsArrive
CHECK_DEADLOCK FALSE
