SPECIFICATION FairSpec
CONSTANTS
  r1 = r1
  r2 = r2
  r3 = r3
  Requests = {r1, r2}
  RecordLimit = 3
  MaxPending = 4
  BatchSize = 1
  MaxFaults = 1
  Replay = Replay
  NoOne = NoOne
INVARIANTS
  TypeOK
  NothingLost
  CapacityKept
PROPERTY Delivered
CHECK_DEADLOCK FALSE
