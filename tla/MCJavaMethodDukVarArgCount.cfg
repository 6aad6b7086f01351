CONSTANTS
  MaxParams <- MCMaxParams
  MaxArgc <- MCMaxArgc
  SizeTBits <- MCSizeTBits

SPECIFICATION Spec

INVARIANT VarArgCountMatches

CHECK_DEADLOCK FALSE
