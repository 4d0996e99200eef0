CONSTANTS
  Posts = {1, 2}
  TagIds = {1, 2}
  Names <- MCNames
  Queries <- MCQueries
  Catalogs <- MCCatalogs
  MaxChanges = 3
SPECIFICATION Spec
INVARIANT TypeOK
PROPERTIES NothingElseIsFound NothingIsMissed FailedLookupsAreReported
