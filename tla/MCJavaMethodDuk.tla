--------------------------- MODULE MCJavaMethodDuk ---------------------------
(* Model-checking instance of JavaMethodDuk: methods of up to three        *)
(* parameters called with up to four arguments.  TLC's integers are 32-bit *)
(* so size_t is given 16 bits: a wrapped count then still exceeds every    *)
(* stack height the instance reaches, which is all the model tells apart.  *)
EXTENDS JavaMethodDuk

MCMaxParams == 3
MCMaxArgc == 4
MCSizeTBits == 16
=============================================================================
