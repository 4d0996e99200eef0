CONSTANTS
  OtherLocks = {"shared", "reserved", "exclusive"}
  MaxFaults = 2
  Rows = {r1, r2}
SPECIFICATION Spec
INVARIANTS TypeOK SchemaWhole OpenedIsCurrent FailedOpenHoldsNothing
PROPERTIES KeptWithoutCreate OpenEnds
