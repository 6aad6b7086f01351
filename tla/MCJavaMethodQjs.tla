--------------------------- MODULE MCJavaMethodQjs ---------------------------
(* Model-checking instance of JavaMethodQjs: methods of up to three        *)
(* parameters called with up to four arguments, so that missing, exact,   *)
(* surplus and spread arguments all occur.                                 *)
EXTENDS JavaMethodQjs

MCMaxParams == 3
MCMaxArgc == 4
=============================================================================
