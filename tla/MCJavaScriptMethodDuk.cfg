CONSTANTS
  MaxJavaArgs <- MCMaxJavaArgs
  MaxVarArgs <- MCMaxVarArgs

SPECIFICATION Spec

INVARIANT TypeOK
INVARIANT StackBalancedOnExit
INVARIANT CallFrameAtCall

CHECK_DEADLOCK FALSE
