CONSTANTS
  Null = Null
SPECIFICATION Spec
INVARIANT GettersFollowTaxonomy
CHECK_DEADLOCK FALSE
