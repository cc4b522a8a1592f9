SPECIFICATION FairSpec
CONSTANTS
  e1 = e1
  e2 = e2
  c1 = c1
  c2 = c2
  Ids = {e1, e2}
  Contents = {c1, c2}
  MaxQueued = 2
  MaxTorn = 2
INVARIANTS
  TypeOK
  OneRecordPerEvent
  WriterKnowsFile
PROPERTIES
  ImplementsLog
  ShutdownEnds
