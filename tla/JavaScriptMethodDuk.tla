------------------------- MODULE JavaScriptMethodDuk -------------------------
(***************************************************************************)
(* One host -> script call through JavaScriptMethod::invoke, Duktape       *)
(* flavour (JavaScriptMethod.cpp, lines 101-158).                          *)
(*                                                                         *)
(* The call pushes its target (the registered JS function of a lambda, or *)
(* the registered JS object and the method name), then one value per Java  *)
(* argument (the vararg array spread into its elements), calls it with     *)
(* duk_pcall / duk_pcall_prop and takes the result or the error off the    *)
(* stack.  stack holds the entries the call pushed above the caller's top, *)
(* as <<kind, position>> pairs.  CHECK_STACK(ctx) asserts on every exit    *)
(* that the call left nothing behind.                                      *)
(*                                                                         *)
(* pop() of the result and getCurrentJsException() are collaborators       *)
(* outside this file; as the spec's ownership rule requires (section 3),  *)
(* each is taken to remove the value it reads, also when it throws.        *)
(***************************************************************************)
EXTENDS Integers, Sequences

CONSTANTS
  MaxJavaArgs,  \* most Java arguments a proxied method is called with
  MaxVarArgs    \* most elements of the Java vararg array

ASSUME MaxJavaArgsAssumption == MaxJavaArgs \in Nat \ {0}
ASSUME MaxVarArgsAssumption  == MaxVarArgs \in Nat

Done == {"returned", "argError", "jsError", "resultError"}

Target == << "target", 0 >>   \* the JS function or object (heap pointer)
Key    == << "key", 0 >>      \* the method name
Arg(p) == << "arg", p >>      \* the JS value of argument position p

VARIABLES
  isLambda,          \* m_isLambda
  isVarArgs,         \* m_isVarArgs
  numJavaArguments,  \* args.getLength()
  varArgCount,       \* length of the trailing Java vararg array
  awaitJsPromise,    \* the caller asks to await a returned promise
  returnIsDeferred,  \* m_returnValueType->isDeferred()
  pc,                \* where invoke() is
  i,                 \* index of the argument loop
  numArguments,      \* numArguments, updated when the varargs are spread
  stack,             \* what the call has pushed, bottom first
  via                \* which type converted the result

vars == << isLambda, isVarArgs, numJavaArguments, varArgCount, awaitJsPromise,
           returnIsDeferred, pc, i, numArguments, stack, via >>

Inputs == << isLambda, isVarArgs, numJavaArguments, varArgCount,
             awaitJsPromise, returnIsDeferred >>

(* The entries below the arguments: the function, or the object and key.   *)
Base == IF isLambda THEN 1 ELSE 2

Init ==
  /\ isLambda \in BOOLEAN
  /\ isVarArgs \in BOOLEAN
  /\ numJavaArguments \in (IF isVarArgs THEN 1 ELSE 0) .. MaxJavaArgs
  /\ varArgCount \in (IF isVarArgs THEN 0 .. MaxVarArgs ELSE {0})
  /\ awaitJsPromise \in BOOLEAN
  /\ returnIsDeferred \in BOOLEAN
  /\ pc = "push"
  /\ i = 0
  /\ numArguments = numJavaArguments
  \* Lines 108-116: the target, and for a method its name, are pushed
  /\ stack = IF isLambda THEN << Target >> ELSE << Target, Key >>
  /\ via = "none"

(* Mutant: the argument loop runs while i <= numArguments.               *)
PushArgOffByOne ==
  /\ pc = "push"
  /\ i <= numArguments
  /\ ~(isVarArgs /\ i = numArguments - 1)
  /\ \/ /\ stack' = Append(stack, Arg(i))
        /\ i' = i + 1
        /\ UNCHANGED pc
     \/ /\ stack' = SubSeq(stack, 1, Len(stack) - (Base + i))
        /\ pc' = "argError"
        /\ UNCHANGED i
  /\ UNCHANGED << Inputs, numArguments, via >>

(* Lines 120-133: argument i is pushed, or push() throws and the catch     *)
(* pops the target, the key and the i arguments pushed so far.             *)
PushArg ==
  /\ pc = "push"
  /\ i < numArguments
  /\ ~(isVarArgs /\ i = numArguments - 1)
  /\ \/ /\ stack' = Append(stack, Arg(i))
        /\ i' = i + 1
        /\ UNCHANGED pc
     \/ /\ stack' = SubSeq(stack, 1, Len(stack) - (Base + i))
        /\ pc' = "argError"
        /\ UNCHANGED i
  /\ UNCHANGED << Inputs, numArguments, via >>

(* Mutant: the vararg elements are pushed last to first.                 *)
PushVarArgsReversed ==
  /\ pc = "push"
  /\ i < numArguments
  /\ isVarArgs /\ i = numArguments - 1
  /\ \/ /\ stack' = stack \o [j \in 1 .. varArgCount |-> Arg(i + varArgCount - j)]
        /\ numArguments' = i + varArgCount
        /\ pc' = "call"
     \/ /\ stack' = SubSeq(stack, 1, Len(stack) - (Base + i))
        /\ pc' = "argError"
        /\ UNCHANGED numArguments
  /\ UNCHANGED << Inputs, i, via >>

(* Lines 124-127: the Java vararg array is pushed as varArgCount separate  *)
(* values and numArguments becomes i + varArgCount, or pushArray() throws. *)
PushVarArgs ==
  /\ pc = "push"
  /\ i < numArguments
  /\ isVarArgs /\ i = numArguments - 1
  /\ \/ /\ stack' = stack \o [j \in 1 .. varArgCount |-> Arg(i + j - 1)]
        /\ numArguments' = i + varArgCount
        /\ pc' = "call"
     \/ /\ stack' = SubSeq(stack, 1, Len(stack) - (Base + i))
        /\ pc' = "argError"
        /\ UNCHANGED numArguments
  /\ UNCHANGED << Inputs, i, via >>

(* Line 120: the loop ends without a vararg spread.                        *)
ArgsPushed ==
  /\ pc = "push"
  /\ i >= numArguments
  /\ pc' = "call"
  /\ UNCHANGED << Inputs, i, numArguments, stack, via >>

(* Mutant: the object is left under the result (no duk_remove).          *)
CallNoRemove ==
  LET below == SubSeq(stack, 1, Len(stack) - numArguments - 1)
  IN  /\ pc = "call"
      /\ \E r \in {"ret", "err"} :
           /\ stack' = Append(below, << r, 0 >>)
           /\ pc' = IF r = "ret" THEN "result" ELSE "error"
      /\ UNCHANGED << Inputs, i, numArguments, via >>

(* Lines 135-141: duk_pcall replaces the function and its numArguments     *)
(* arguments by the return value or the error; duk_pcall_prop replaces the *)
(* key and the arguments, and duk_remove then drops the object.            *)
Call ==
  LET below == SubSeq(stack, 1, Len(stack) - numArguments - 1)
  IN  /\ pc = "call"
      /\ \E r \in {"ret", "err"} :
           /\ stack' = IF isLambda THEN Append(below, << r, 0 >>)
                       ELSE Append(SubSeq(below, 2, Len(below)), << r, 0 >>)
           /\ pc' = IF r = "ret" THEN "result" ELSE "error"
      /\ UNCHANGED << Inputs, i, numArguments, via >>

(* Lines 142-152: the result is popped through the Deferred type when it   *)
(* is an awaited thenable and the declared type is not already Deferred,   *)
(* else through the declared type; the conversion may throw.               *)
Result ==
  /\ pc = "result"
  /\ \E thenable \in BOOLEAN :
       via' = IF awaitJsPromise /\ thenable /\ ~returnIsDeferred
                THEN "deferred" ELSE "plain"
  /\ stack' = SubSeq(stack, 1, Len(stack) - 1)
  /\ pc' \in {"returned", "resultError"}
  /\ UNCHANGED << Inputs, i, numArguments >>

(* Lines 153-155: the error on the stack is turned into a JsException.     *)
RaiseJsError ==
  /\ pc = "error"
  /\ stack' = SubSeq(stack, 1, Len(stack) - 1)
  /\ pc' = "jsError"
  /\ UNCHANGED << Inputs, i, numArguments, via >>

Next ==
  \/ PushArg
  \/ PushVarArgs
  \/ ArgsPushed
  \/ Call
  \/ Result
  \/ RaiseJsError

Spec == Init /\ [][Next]_vars

-----------------------------------------------------------------------------
(* Properties                                                              *)

StackEntry == ({"target", "key", "ret", "err"} \X {0}) \cup
              ({"arg"} \X (0 .. (MaxJavaArgs + MaxVarArgs)))

TypeOK ==
  /\ isLambda \in BOOLEAN
  /\ isVarArgs \in BOOLEAN
  /\ numJavaArguments \in 0 .. MaxJavaArgs
  /\ varArgCount \in 0 .. MaxVarArgs
  /\ awaitJsPromise \in BOOLEAN
  /\ returnIsDeferred \in BOOLEAN
  /\ pc \in {"push", "call", "result", "error"} \cup Done
  /\ i \in 0 .. MaxJavaArgs
  /\ numArguments \in 0 .. (MaxJavaArgs + MaxVarArgs)
  /\ stack \in Seq(StackEntry)
  /\ via \in {"none", "plain", "deferred"}

(* The JS arguments of the call: the fixed Java arguments, then the vararg *)
(* elements in order.                                                      *)
ExpectedJsArgs ==
  LET n == IF isVarArgs THEN numJavaArguments - 1 + varArgCount ELSE numJavaArguments
  IN  [j \in 1 .. n |-> Arg(j - 1)]

(* Duktape stack discipline of JavaScriptMethod::invoke (CHECK_STACK):     *)
(* whichever way the call ends - a result, a failed argument push, a JS    *)
(* error or a failed result conversion - the value stack is back at the   *)
(* height it had on entry.                                                 *)
StackBalancedOnExit == pc \in Done => stack = << >>

(* At the duk_pcall the stack holds exactly the callee (function, or       *)
(* object and key) followed by the JS arguments in order, numArguments of  *)
(* them.                                                                   *)
CallFrameAtCall ==
  pc = "call" =>
    /\ stack = (IF isLambda THEN << Target >> ELSE << Target, Key >>) \o ExpectedJsArgs
    /\ numArguments = Len(ExpectedJsArgs)

=============================================================================
