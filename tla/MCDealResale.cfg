SPECIFICATION Spec
CONSTANTS
  c1 = c1
  c2 = c2
  c3 = c3
  c4 = c4
  a1 = a1
  a2 = a2
  Calls = {c1, c2}
  Assets = {a1}
  MaxFaults = 0
  None = None
SYMMETRY Symmetry
INVARIANT OneCompletedRow
CHECK_DEADLOCK FALSE
