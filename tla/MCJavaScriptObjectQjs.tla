------------------------ MODULE MCJavaScriptObjectQjs ------------------------
(* Model-checking instance of JavaScriptObjectQjs: an interface of three   *)
(* methods, so that the eager check can fail on the first, a middle or the *)
(* last method after others were wrapped.                                  *)
EXTENDS JavaScriptObjectQjs

MCNumMethods == 3
=============================================================================
