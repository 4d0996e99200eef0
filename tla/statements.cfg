CONSTANTS
  Null = Null
  Unbound = Unbound
  Callers = {c1, c2}
  Requests <- MCRequests
  Databases <- MCDatabases
  BlobSize = 2
  MaxRows = 3
SPECIFICATION Spec
SYMMETRY Symmetry
INVARIANTS TypeOK ParametersAreBound
PROPERTIES ImplementsEntityTable
CHECK_DEADLOCK FALSE
