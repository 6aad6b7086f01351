CONSTANTS
  NumMethods <- MCNumMethods
  CtorExceptions <- MCAnyException

SPECIFICATION Spec

INVARIANT StackAtExit

CHECK_DEADLOCK FALSE
