CONSTANTS
  OtherLocks = {"reserved", "exclusive"}
  MaxFaults = 0
  Writes = {w1, w2, w3}
  MaxGuards = 3
SPECIFICATION Spec
INVARIANTS CommittedIsDurable
PROPERTIES ImplementsAtomicScopes
