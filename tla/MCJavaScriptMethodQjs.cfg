CONSTANTS
  MaxJavaArgs <- MCMaxJavaArgs
  MaxVarArgs <- MCMaxVarArgs

SPECIFICATION Spec

INVARIANT TypeOK
INVARIANT NoLeakOnExit
INVARIANT NoFreeOfUnsetSlot
INVARIANT ArgsLiveAtCall

CHECK_DEADLOCK FALSE
