CONSTANTS
  MaxParams <- MCMaxParams
  MaxArgc <- MCMaxArgc

SPECIFICATION Spec

INVARIANT TypeOK
PROPERTY BindingRefinement

CHECK_DEADLOCK FALSE
