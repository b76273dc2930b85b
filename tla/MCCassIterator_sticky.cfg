CONSTANTS
  Handles = {h1, h2}
  Null = Null
  NoIter = NoIter
  NoPos = NoPos
  MaxOverrun = 1
  NullArgs = FALSE
  Results <- MCResults
  Rows <- MCRows
  Values <- MCValues
  SchemaColls <- MCSchemaColls
  ResultData <- MCResultData
  RowData <- MCRowData
  ValueData <- MCValueData
  SchemaData <- MCSchemaData

SPECIFICATION Spec
PROPERTY EndIsSticky
