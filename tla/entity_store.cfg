CONSTANTS
  k1 = k1
  k2 = k2
  Tables = {"TagTypes", "Tags", "TagImplications", "PostTypes", "Posts", "PostTags"}
  Keys = {k1, k2}
  Handles = {h1}
  Catalogs <- MCCatalogs
  MaxBirths = 6
  MaxId = 3
SPECIFICATION Spec
INVARIANTS TypeOK ReferencesStayTrue EntitiesFindTheirRows RedirectionsStayTrue NoTagImpliesItself
CHECK_DEADLOCK FALSE
