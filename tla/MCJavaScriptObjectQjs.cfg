CONSTANTS
  NumMethods <- MCNumMethods

SPECIFICATION Spec

INVARIANT TypeOK
PROPERTY RegistrationRefinement

CHECK_DEADLOCK FALSE
