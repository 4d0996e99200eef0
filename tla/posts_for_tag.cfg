CONSTANTS
  Null = Null
  Unbound = Unbound
  Callers = {c1, c2}
  Requests <- PostsForTag
  Databases <- MCDatabases
  BlobSize = 2
  MaxRows = 3
SPECIFICATION Spec
PROPERTIES PostsForTagHaveTheTag
CHECK_DEADLOCK FALSE
