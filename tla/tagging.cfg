CONSTANTS
  a = a
  b = b
  c = c
  NoTag = none
  Tags = {a, b, c}
  Catalogs <- MCCatalogs
  MaxRedirects = 1
  MaxCalls = 5
  OtherDeletes = {c, "post"}
  OtherRedirects <- MCRedirects
  OtherImplies <- MCImplies
  OtherLocks = {"shared", "reserved", "exclusive"}
  MaxFaults = 1
SPECIFICATION Spec
INVARIANTS TypeOK NoTransactionLeftOpen NestedErrorsDoNotDoom CallDepthBounded
PROPERTIES ImpliedTagsComeAlong ImpliedTagsAreResolved OneCommitPerCall CallsEnd
