CONSTANTS
  Handles = {h1, h2}
  Null = Null
  NoIter = NoIter
  NoPos = NoPos
  MaxOverrun = 1
  NullArgs = TRUE
  Results <- MCResults
  Rows <- MCRows
  Values <- MCValues
  SchemaColls <- MCSchemaColls
  ResultData <- MCResultData
  RowData <- MCRowData
  ValueData <- MCValueData
  SchemaData <- MCSchemaData

SPECIFICATION Spec
INVARIANT CurrentAgrees
PROPERTY CursorRefinement
\* A null argument aborts the process: the states after it are terminal.
CHECK_DEADLOCK FALSE
