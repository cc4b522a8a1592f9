SPECIFICATION Spec
CONSTANTS
  t1 = t1
  t2 = t2
  t3 = t3
  h1 = h1
  h2 = h2
  p1 = p1
  p2 = p2
  TxHashes = {t1, t2}
  Recognised = {t1, t2}
  Handlers = {h1, h2}
  Processes = {p1, p2}
  Home <- HomeOf
  HourlyLimit = 1
  AuditRequired = TRUE
  MaxHour = 1
  NoTx = NoTx
SYMMETRY Symmetry
INVARIANT SubmissionsWithinHour
