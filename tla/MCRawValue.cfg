CONSTANTS
  Null = Null
  MaxColumns = 2
  Types <- MCTypes
  Arity <- MCArity
  Slices <- MCSlices

SPECIFICATION Spec
INVARIANT TypeOK
INVARIANT DecodedColumnsAgree
INVARIANT RowOutcome
\* Decoding a row ends, with the row or with an error.
CHECK_DEADLOCK FALSE
