CONSTANTS
  Names = {1, 2, 3, 4}
  NoMeta = NoMeta
  Null = Null

SPECIFICATION Spec
INVARIANTS
  ColumnOrderContract
