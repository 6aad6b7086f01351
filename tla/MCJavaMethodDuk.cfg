CONSTANTS
  MaxParams <- MCMaxParams
  MaxArgc <- MCMaxArgc
  SizeTBits <- MCSizeTBits

SPECIFICATION Spec

INVARIANT TypeOK
PROPERTY BindingRefinement

CHECK_DEADLOCK FALSE
