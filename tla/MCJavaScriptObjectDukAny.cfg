CONSTANTS
  NumMethods <- MCNumMethods
  CtorExceptions <- MCAnyException

SPECIFICATION Spec

INVARIANT TypeOK
PROPERTY RegistrationRefinement

CHECK_DEADLOCK FALSE
