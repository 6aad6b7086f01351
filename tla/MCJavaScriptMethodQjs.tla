------------------------ MODULE MCJavaScriptMethodQjs ------------------------
(* Model-checking instance of JavaScriptMethodQjs: up to three Java        *)
(* arguments and a vararg array of up to three elements, so that a spread  *)
(* of 0, 1 and several elements and a failure at every position occur.    *)
EXTENDS JavaScriptMethodQjs

MCMaxJavaArgs == 3
MCMaxVarArgs == 3
=============================================================================
