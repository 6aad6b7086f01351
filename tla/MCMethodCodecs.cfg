CONSTANTS
  MaxParams <- MCMaxParams
  NoType = NoType
  NoClass = NoClass
  NullParameter = NullParameter
  NoCodec = NoCodec

SPECIFICATION Spec

INVARIANTS
  TypeOK
  CodecTableComplete

CHECK_DEADLOCK FALSE
