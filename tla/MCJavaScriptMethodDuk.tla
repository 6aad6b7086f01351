------------------------ MODULE MCJavaScriptMethodDuk ------------------------
(* Model-checking instance of JavaScriptMethodDuk: lambdas and methods     *)
(* with up to three Java arguments and a vararg array of up to three       *)
(* elements, with a push failure possible at every position.               *)
EXTENDS JavaScriptMethodDuk

MCMaxJavaArgs == 3
MCMaxVarArgs == 3
=============================================================================
