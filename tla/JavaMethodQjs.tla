----------------------------- MODULE JavaMethodQjs -----------------------------
(***************************************************************************)
(* One script -> host call through JavaMethod::invoke, QuickJS flavour     *)
(* (part_001 lines 146-194), followed by the method body built in the      *)
(* JavaMethod constructor (lines 76-95) and JavaMethod::callLambda (lines  *)
(* 199-220).                                                               *)
(*                                                                         *)
(* The engine passes argc arguments argv[], on each of which it holds one  *)
(* reference (argvRc).  The fixed parameters are converted one by one into *)
(* the Java argument vector args; for a variadic method the trailing JS    *)
(* arguments are first copied (with JS_DupValue) into a fresh JS array     *)
(* (arrRc) that toJavaArray() converts to one Java array.                  *)
(***************************************************************************)
EXTENDS Integers, Sequences

CONSTANTS
  MaxParams,  \* most parameters a registered Java method declares
  MaxArgc     \* most arguments a script passes

ASSUME MaxParamsAssumption == MaxParams \in Nat \ {0}
ASSUME MaxArgcAssumption   == MaxArgc \in Nat

ArgvPos == 0 .. (MaxArgc - 1)

(* Where one call can end.                                                 *)
Done == {"tooMany", "argError", "returned", "javaError", "resultError"}

VARIABLES
  isVarArgs,   \* m_isVarArgs
  numParams,   \* m_argumentTypes.size()
  argc,        \* number of JS arguments
  pc,          \* where the call is
  i,           \* index of the fixed-argument conversion loop
  args,        \* std::vector<JValue> args
  argvRc,      \* argvRc[k]: references held on argv[k]
  arrRc        \* references held on varArgArray

vars == << isVarArgs, numParams, argc, pc, i, args, argvRc, arrRc >>

Inputs == << isVarArgs, numParams, argc >>

(* The refinement mapping: the call is "calling" until it is rejected, a   *)
(* conversion fails or the body runs; the abstract argument vector is the  *)
(* one the body receives.                                                  *)
status ==
  CASE pc \in {"start", "args", "toJavaArray"} -> "calling"
    [] pc = "tooMany"                          -> "rejected"
    [] pc = "argError"                         -> "failed"
    [] pc = "body"                             -> "invoked"
    [] pc = "returned"                         -> "returned"
    [] pc \in {"javaError", "resultError"}     -> "threw"

bound == IF pc \in {"body", "returned", "javaError", "resultError"}
           THEN args ELSE << >>

Binding == INSTANCE JavaMethodBinding WITH status <- status, bound <- bound

minArgs == IF isVarArgs THEN numParams - 1 ELSE numParams

(* varArgCount = argc - minArgs; the copy loop runs for 0 .. varArgCount-1 *)
VarArgSrc == { minArgs + j : j \in 0 .. (argc - minArgs - 1) }

Init ==
  /\ isVarArgs \in BOOLEAN
  /\ numParams \in (IF isVarArgs THEN 1 ELSE 0) .. MaxParams
  /\ argc \in 0 .. MaxArgc
  /\ pc = "start"
  /\ i = 0
  \* the vector is value-initialised: every JValue is null
  /\ args = [k \in 0 .. (numParams - 1) |-> Binding!NullArg]
  /\ argvRc = [k \in ArgvPos |-> IF k < argc THEN 1 ELSE 0]
  /\ arrRc = 0

(* Mutant: a call with exactly minArgs arguments is rejected too.         *)
CheckArgCountOffByOne ==
  /\ pc = "start"
  /\ pc' = IF ~isVarArgs /\ argc >= minArgs THEN "tooMany" ELSE "args"
  /\ UNCHANGED << Inputs, i, args, argvRc, arrRc >>

(* Lines 151-163: too few arguments only logs a warning; too many for a    *)
(* fixed-arity method throws invalid_argument before any conversion.      *)
CheckArgCount ==
  /\ pc = "start"
  /\ pc' = IF ~isVarArgs /\ argc > minArgs THEN "tooMany" ELSE "args"
  /\ UNCHANGED << Inputs, i, args, argvRc, arrRc >>

(* Lines 168-178: fixed parameter i is null when the script left it out,   *)
(* else toJava(argv[i]), which may throw.                                  *)
ConvertArg ==
  /\ pc = "args"
  /\ i < minArgs
  /\ \/ /\ i >= argc
        /\ args' = [args EXCEPT ![i] = Binding!NullArg]
        /\ i' = i + 1
        /\ UNCHANGED pc
     \/ /\ i < argc
        /\ args' = [args EXCEPT ![i] = Binding!ValueArg(i)]
        /\ i' = i + 1
        /\ UNCHANGED pc
     \/ /\ i < argc
        /\ pc' = "argError"
        /\ UNCHANGED << i, args >>
  /\ UNCHANGED << Inputs, argvRc, arrRc >>

(* Line 168: the loop ends; a fixed-arity method goes straight to its body *)
ArgsConverted ==
  /\ pc = "args"
  /\ i >= minArgs
  /\ ~isVarArgs
  /\ pc' = "body"
  /\ UNCHANGED << Inputs, i, args, argvRc, arrRc >>

(* Lines 180-187: JS_NewArray, then one JS_DupValue'd argv element stored  *)
(* per vararg; the array owns those references.                            *)
NewVarArgArray ==
  /\ pc = "args"
  /\ i >= minArgs
  /\ isVarArgs
  /\ arrRc' = 1
  /\ argvRc' = [k \in ArgvPos |-> IF k \in VarArgSrc THEN argvRc[k] + 1 ELSE argvRc[k]]
  /\ pc' = "toJavaArray"
  /\ UNCHANGED << Inputs, i, args >>

(* Mutant: the array is released twice.                                  *)
ToJavaArrayDoubleFree ==
  /\ pc = "toJavaArray"
  /\ \/ /\ args' = [args EXCEPT ![numParams - 1] =
                       Binding!ArrayArg(Binding!Positions(minArgs, argc - 1))]
        /\ arrRc' = arrRc - 2
        /\ argvRc' = [k \in ArgvPos |-> IF k \in VarArgSrc THEN argvRc[k] - 1 ELSE argvRc[k]]
        /\ pc' = "body"
     \/ /\ pc' = "argError"
        /\ UNCHANGED << args, arrRc, argvRc >>
  /\ UNCHANGED << Inputs, i >>

(* Lines 188-189: toJavaArray() converts the array into the collector      *)
(* argument and JS_FreeValue releases the array and, with it, the          *)
(* references it holds on its elements; if toJavaArray() throws, the       *)
(* exception leaves invoke() before JS_FreeValue.                          *)
ToJavaArray ==
  /\ pc = "toJavaArray"
  /\ \/ /\ args' = [args EXCEPT ![numParams - 1] =
                       Binding!ArrayArg(Binding!Positions(minArgs, argc - 1))]
        /\ arrRc' = arrRc - 1
        /\ argvRc' = [k \in ArgvPos |-> IF k \in VarArgSrc THEN argvRc[k] - 1 ELSE argvRc[k]]
        /\ pc' = "body"
     \/ /\ pc' = "argError"
        /\ UNCHANGED << args, arrRc, argvRc >>
  /\ UNCHANGED << Inputs, i >>

(* Lines 76-95 and 199-220: m_methodBody calls the Java method (through    *)
(* callMethod, or callNativeLambda for a lambda, whose pending Java        *)
(* exception is rethrown as JniException) and converts its result to a     *)
(* JSValue owned by the engine, which may throw as well.                   *)
MethodBody ==
  /\ pc = "body"
  /\ pc' \in {"returned", "javaError", "resultError"}
  /\ UNCHANGED << Inputs, i, args, argvRc, arrRc >>

Next ==
  \/ CheckArgCount
  \/ ConvertArg
  \/ ArgsConverted
  \/ NewVarArgArray
  \/ ToJavaArray
  \/ MethodBody

Spec == Init /\ [][Next]_vars

-----------------------------------------------------------------------------
(* Properties                                                              *)

TypeOK ==
  /\ isVarArgs \in BOOLEAN
  /\ numParams \in 0 .. MaxParams
  /\ argc \in 0 .. MaxArgc
  /\ pc \in {"start", "args", "toJavaArray", "body"} \cup Done
  /\ i \in 0 .. MaxParams
  /\ DOMAIN args = 0 .. (numParams - 1)
  /\ argvRc \in [ArgvPos -> Nat]
  /\ arrRc \in Nat

(* Argument binding of JavaMethod::invoke: the QuickJS flavour rejects     *)
(* exactly the over-long calls of fixed-arity methods, and otherwise       *)
(* invokes the Java method with JS argument k in fixed parameter k, null   *)
(* for the parameters the script left out and the remaining arguments in  *)
(* the collector array (empty, not null, when there are none).            *)
BindingRefinement == Binding!Spec

(* Handle hygiene of JavaMethod::invoke: whichever way a call ends, the    *)
(* engine's arguments carry exactly the reference the engine gave them and *)
(* the temporary vararg array has been released.                           *)
NoLeakOnExit ==
  pc \in Done => /\ arrRc = 0
                 /\ \A k \in ArgvPos : argvRc[k] = IF k < argc THEN 1 ELSE 0

=============================================================================
