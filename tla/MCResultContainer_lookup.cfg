CONSTANTS
  SchemaVersions <- MCSchemaVersions
  AsciiLowercase <- MCAsciiLowercase
  CellSlices <- MCCellSlices
  MaxRows = 2
  Null = Null
  NoResult = NoResult
  ErrResult = ErrResult
  NoIter = NoIter
SPECIFICATION Spec
INVARIANT
  ByNameLookupFollowsQuoting
