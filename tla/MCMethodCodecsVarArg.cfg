CONSTANTS
  MaxParams <- MCMaxParams
  NoType = NoType
  NoClass = NoClass
  NullParameter = NullParameter
  NoCodec = NoCodec

SPECIFICATION Spec

INVARIANTS
  VarArgElementAsSpecified

CHECK_DEADLOCK FALSE
