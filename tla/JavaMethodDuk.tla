----------------------------- MODULE JavaMethodDuk -----------------------------
(***************************************************************************)
(* One script -> host call through JavaMethod::invoke, Duktape flavour     *)
(* (part_001 lines 103-142), followed by the method body (lines 76-95,     *)
(* 199-220).                                                               *)
(*                                                                         *)
(* The call's arguments are the argc entries of the Duktape value stack,   *)
(* argument k at index k; the model's stack holds the JS argument          *)
(* positions.  Values are taken off the top: first the vararg tail with    *)
(* popArray(argCount - minArgs, expanded), then the fixed arguments from   *)
(* the last one down.  argCount is a duk_idx_t and minArgs a size_t, so    *)
(* the vararg count is computed modulo 2^SizeTBits.                        *)
(***************************************************************************)
EXTENDS Integers, Sequences

CONSTANTS
  MaxParams,  \* most parameters a registered Java method declares
  MaxArgc,    \* most arguments a script passes
  SizeTBits   \* width of size_t (64 on arm64-v8a and x86_64, 32 on armeabi-v7a)

ASSUME MaxParamsAssumption == MaxParams \in Nat \ {0}
ASSUME MaxArgcAssumption   == MaxArgc \in Nat
(* Any width in which a count of MaxArgc + MaxParams does not wrap.       *)
ASSUME SizeTBitsAssumption ==
  SizeTBits \in Nat /\ 2 ^ SizeTBits > MaxArgc + MaxParams

(* Unsigned size_t arithmetic.                                             *)
SizeT(x) == x % (2 ^ SizeTBits)

Done == {"tooMany", "argError", "returned", "javaError", "resultError"}

VARIABLES
  isVarArgs,        \* m_isVarArgs
  numParams,        \* m_argumentTypes.size()
  argc,             \* duk_get_top(ctx) on entry
  pc,               \* where the call is
  i,                \* index of the fixed-argument loop (counts down)
  stack,            \* the value stack of the call, bottom first
  args,             \* std::vector<JValue> args
  varArgCountPassed \* the count handed to popArray, once it is called

vars == << isVarArgs, numParams, argc, pc, i, stack, args, varArgCountPassed >>

Inputs == << isVarArgs, numParams, argc >>

status ==
  CASE pc \in {"start", "popVarArgs", "args"} -> "calling"
    [] pc = "tooMany"                         -> "rejected"
    [] pc = "argError"                        -> "failed"
    [] pc = "body"                            -> "invoked"
    [] pc = "returned"                        -> "returned"
    [] pc \in {"javaError", "resultError"}    -> "threw"

bound == IF pc \in {"body", "returned", "javaError", "resultError"}
           THEN args ELSE << >>

Binding == INSTANCE JavaMethodBinding WITH status <- status, bound <- bound

minArgs == IF isVarArgs THEN numParams - 1 ELSE numParams

(* Mutant: the argument vector is allocated one entry too long.          *)
InitArgsOffByOne ==
  /\ isVarArgs \in BOOLEAN
  /\ numParams \in (IF isVarArgs THEN 1 ELSE 0) .. MaxParams
  /\ argc \in 0 .. MaxArgc
  /\ pc = "start"
  /\ i = minArgs - 1
  /\ stack = [j \in 1 .. argc |-> j - 1]
  /\ args = [k \in 0 .. numParams |-> Binding!NullArg]
  /\ varArgCountPassed = -1

Init ==
  /\ isVarArgs \in BOOLEAN
  /\ numParams \in (IF isVarArgs THEN 1 ELSE 0) .. MaxParams
  /\ argc \in 0 .. MaxArgc
  /\ pc = "start"
  /\ i = minArgs - 1
  /\ stack = [j \in 1 .. argc |-> j - 1]
  /\ args = [k \in 0 .. (numParams - 1) |-> Binding!NullArg]
  /\ varArgCountPassed = -1

(* Lines 106-119: too few arguments only logs a warning; too many for a    *)
(* fixed-arity method throws invalid_argument.                             *)
CheckArgCount ==
  /\ pc = "start"
  /\ pc' = CASE ~isVarArgs /\ argc > minArgs -> "tooMany"
             [] isVarArgs                    -> "popVarArgs"
             [] OTHER                        -> "args"
  /\ UNCHANGED << Inputs, i, stack, args, varArgCountPassed >>

(* Lines 125-128: popArray(argCount - minArgs, true) pops that many values *)
(* off the top into the collector array; a count larger than the stack    *)
(* cannot be popped and the conversion fails, as does a failing element.   *)
PopVarArgs ==
  LET n == SizeT(argc - minArgs)
  IN  /\ pc = "popVarArgs"
      /\ varArgCountPassed' = n
      /\ \/ /\ n <= Len(stack)
            /\ args' = [args EXCEPT ![numParams - 1] =
                          Binding!ArrayArg(SubSeq(stack, Len(stack) - n + 1, Len(stack)))]
            /\ stack' = SubSeq(stack, 1, Len(stack) - n)
            /\ pc' = "args"
         \/ /\ pc' = "argError"
            /\ UNCHANGED << stack, args >>
      /\ UNCHANGED << Inputs, i >>

(* Mutant: the value is read from the bottom of the stack.               *)
PopArgFromBottom ==
  /\ pc = "args"
  /\ i >= 0
  /\ \/ /\ i >= argc
        /\ args' = [args EXCEPT ![i] = Binding!NullArg]
        /\ UNCHANGED << stack, pc >>
        /\ i' = i - 1
     \/ /\ i < argc
        /\ args' = [args EXCEPT ![i] = Binding!ValueArg(stack[1])]
        /\ stack' = SubSeq(stack, 1, Len(stack) - 1)
        /\ i' = i - 1
        /\ UNCHANGED pc
     \/ /\ i < argc
        /\ pc' = "argError"
        /\ UNCHANGED << i, stack, args >>
  /\ UNCHANGED << Inputs, varArgCountPassed >>

(* Lines 129-139: parameter i is null when i >= argCount (nothing popped), *)
(* else the value on top of the stack converted by pop(), which may throw. *)
PopArg ==
  /\ pc = "args"
  /\ i >= 0
  /\ \/ /\ i >= argc
        /\ args' = [args EXCEPT ![i] = Binding!NullArg]
        /\ UNCHANGED << stack, pc >>
        /\ i' = i - 1
     \/ /\ i < argc
        /\ args' = [args EXCEPT ![i] = Binding!ValueArg(stack[Len(stack)])]
        /\ stack' = SubSeq(stack, 1, Len(stack) - 1)
        /\ i' = i - 1
        /\ UNCHANGED pc
     \/ /\ i < argc
        /\ pc' = "argError"
        /\ UNCHANGED << i, stack, args >>
  /\ UNCHANGED << Inputs, varArgCountPassed >>

(* Line 141: the loop is over; the body is called with args.               *)
ArgsPopped ==
  /\ pc = "args"
  /\ i < 0
  /\ pc' = "body"
  /\ UNCHANGED << Inputs, i, stack, args, varArgCountPassed >>

(* Lines 76-95, 199-220: the Java method (or lambda) runs and its result   *)
(* is pushed, or a Java exception or a failed conversion is thrown.        *)
MethodBody ==
  /\ pc = "body"
  /\ pc' \in {"returned", "javaError", "resultError"}
  /\ UNCHANGED << Inputs, i, stack, args, varArgCountPassed >>

Next ==
  \/ CheckArgCount
  \/ PopVarArgs
  \/ PopArg
  \/ ArgsPopped
  \/ MethodBody

Spec == Init /\ [][Next]_vars

-----------------------------------------------------------------------------
(* Properties                                                              *)

TypeOK ==
  /\ isVarArgs \in BOOLEAN
  /\ numParams \in 0 .. MaxParams
  /\ argc \in 0 .. MaxArgc
  /\ pc \in {"start", "popVarArgs", "args", "body"} \cup Done
  /\ i \in -1 .. MaxParams
  /\ stack \in Seq(0 .. MaxArgc)
  /\ DOMAIN args = 0 .. (numParams - 1)
  /\ varArgCountPassed \in -1 .. (2 ^ SizeTBits - 1)

(* Argument binding of JavaMethod::invoke, Duktape flavour: popping the    *)
(* vararg tail first and then the fixed arguments from the last down puts  *)
(* JS argument k in parameter k, null in those the script left out and the *)
(* trailing arguments, in order, in the collector array.                   *)
BindingRefinement == Binding!Spec

(* The vararg collector is asked for exactly the number of trailing JS     *)
(* arguments, zero when the script passed no more than the fixed ones      *)
(* (spec section 8, property 2: zero trailing arguments give an empty      *)
(* array).                                                                 *)
VarArgCountMatches ==
  varArgCountPassed # -1 =>
    varArgCountPassed = IF argc > minArgs THEN argc - minArgs ELSE 0

=============================================================================
