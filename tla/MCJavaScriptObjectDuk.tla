------------------------ MODULE MCJavaScriptObjectDuk ------------------------
(* Model-checking instance of JavaScriptObjectDuk: an interface of three   *)
(* methods, so that the eager check can fail on the first, a middle or the *)
(* last method after others were wrapped.  A wrapper may fail with         *)
(* std::invalid_argument, which line 92 catches, or any other exception.   *)
EXTENDS JavaScriptObjectDuk

MCNumMethods == 3
MCAnyException == {"invalid_argument", "other"}
=============================================================================
