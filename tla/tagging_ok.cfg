CONSTANTS
  a = a
  b = b
  c = c
  NoTag = none
  Tags = {a, b, c}
  Catalogs <- MCCatalogs
  MaxRedirects = 1
  MaxCalls = 5
  OtherDeletes = {"post"}
  OtherRedirects = {}
  OtherImplies = {}
  OtherLocks = {"exclusive"}
  MaxFaults = 0
SPECIFICATION Spec
PROPERTIES OKMeansTagged
