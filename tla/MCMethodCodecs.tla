--------------------------- MODULE MCMethodCodecs ---------------------------
(* The constructors of both invokers with up to two declared parameters    *)
(* drawn from the whole type universe of TypeDescriptor.                   *)
EXTENDS MethodCodecs

MCMaxParams == 2

=============================================================================
