CONSTANTS
  OtherLocks = {"exclusive"}
  MaxFaults = 0
  Rows = {r1}
SPECIFICATION Spec
PROPERTIES ExistingTablesKept
