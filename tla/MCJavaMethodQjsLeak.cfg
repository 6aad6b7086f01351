CONSTANTS
  MaxParams <- MCMaxParams
  MaxArgc <- MCMaxArgc

SPECIFICATION Spec

INVARIANT NoLeakOnExit

CHECK_DEADLOCK FALSE
