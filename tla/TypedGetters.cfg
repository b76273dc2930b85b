CONSTANTS
  Null = Null
SPECIFICATION Spec
INVARIANT NonNullGettersFollowTaxonomy
\* One call returns one status; nothing follows it.
CHECK_DEADLOCK FALSE
