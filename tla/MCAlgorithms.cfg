CONSTANTS
  Namespaces <- MCNamespaces
  StaticIds <- MCStaticIds
  MaxRules = 5
  MaxText = 8
  MaxOptions = 2
SPECIFICATION MCSpec
INVARIANTS
  AllocatesFirstFreeLeaf
  AllocationKeepsTree
  DecodesExactly
  ReportsAddUp
CHECK_DEADLOCK FALSE
