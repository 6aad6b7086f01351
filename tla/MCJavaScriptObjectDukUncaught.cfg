CONSTANTS
  NumMethods <- MCNumMethods
  CtorExceptions <- MCAnyException

SPECIFICATION Spec

INVARIANT StackBalancedOnExit

CHECK_DEADLOCK FALSE
