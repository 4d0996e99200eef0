CONSTANTS
  OtherLocks = {"shared"}
  MaxFaults = 0
  Writes = {w1, w2}
  MaxGuards = 2
SPECIFICATION Spec
SYMMETRY Symmetry
INVARIANTS CommittedIsDurable
