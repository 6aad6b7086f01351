------------------------- MODULE JavaScriptMethodQjs -------------------------
(***************************************************************************)
(* One host -> script call through JavaScriptMethod::invoke, QuickJS       *)
(* flavour (JavaScriptMethod.cpp, lines 164-222).                          *)
(*                                                                         *)
(* The Java caller hands over numJavaArguments boxed arguments; for a      *)
(* variadic method the last one is a Java array of varArgCount elements    *)
(* that is converted to one JS array and spread into that many JS          *)
(* arguments.  Every JSValue the call creates is reference counted: the    *)
(* model tracks the count of each JS argument value (rc), of the spread    *)
(* array (arrRc) and of the value JS_Call returns (retRc), and the slots   *)
(* of the jsArgs[] array that hold a value.  Each conversion may throw     *)
(* (a marshalling error) and JS_Call may raise a JS exception.             *)
(***************************************************************************)
EXTENDS Naturals

CONSTANTS
  MaxJavaArgs,  \* most Java arguments a proxied method is called with
  MaxVarArgs    \* most elements of the Java vararg array

ASSUME MaxJavaArgsAssumption == MaxJavaArgs \in Nat \ {0}
ASSUME MaxVarArgsAssumption  == MaxVarArgs \in Nat

(* The positions a JS argument can take in jsArgs[].                       *)
Pos == 0 .. (MaxJavaArgs + MaxVarArgs - 1)

(* Where one call can end: a returned value or one of three exceptions.   *)
Done == {"returned", "argError", "jsError", "resultError"}

VARIABLES
  isVarArgs,          \* m_isVarArgs
  numJavaArguments,   \* javaArgs.getLength()
  varArgCount,        \* length of the trailing Java vararg array
  awaitJsPromise,     \* the caller asks to await a returned promise
  returnIsDeferred,   \* m_returnValueType->isDeferred()
  pc,                 \* where invoke() is
  i,                  \* the loop index of the argument conversion loop
  jsArgs,             \* the slots of jsArgs[] that hold a JSValue
  rc,                 \* rc[p]: references held on the JS value of slot p
  arrRc,              \* references held on varArgJsArray
  retRc,              \* references held on ret
  retIsThenable,      \* ret has a "then" property
  via,                \* which type converted ret to Java
  ub                  \* a JS_FreeValue was applied to an unset slot

vars == << isVarArgs, numJavaArguments, varArgCount, awaitJsPromise,
           returnIsDeferred, pc, i, jsArgs, rc, arrRc, retRc, retIsThenable,
           via, ub >>

(* numJsArguments: the vararg array is replaced by its elements.           *)
numJsArguments ==
  IF isVarArgs THEN numJavaArguments + varArgCount - 1 ELSE numJavaArguments

(* The JS argument positions filled from the Java vararg array.            *)
VarArgPos == (numJavaArguments - 1) .. (numJavaArguments + varArgCount - 2)

(* JS_FreeValue on the slots in S of jsArgs[]; each releases one reference *)
FreeSlots(S) == [p \in Pos |-> IF p \in S THEN rc[p] - 1 ELSE rc[p]]

(* Freeing a slot that was never assigned reads an uninitialised JSValue.  *)
FreesUnset(S) == ub \/ (S \ jsArgs # {})

Init ==
  /\ isVarArgs \in BOOLEAN
  \* a variadic method has at least the vararg parameter, and Java passes it
  /\ numJavaArguments \in (IF isVarArgs THEN 1 ELSE 0) .. MaxJavaArgs
  /\ varArgCount \in (IF isVarArgs THEN 0 .. MaxVarArgs ELSE {0})
  /\ awaitJsPromise \in BOOLEAN
  /\ returnIsDeferred \in BOOLEAN
  /\ pc = "args"
  /\ i = 0
  /\ jsArgs = {}
  /\ rc = [p \in Pos |-> 0]
  /\ arrRc = 0
  /\ retRc = 0
  /\ retIsThenable = FALSE
  /\ via = "none"
  /\ ub = FALSE

Inputs == << isVarArgs, numJavaArguments, varArgCount, awaitJsPromise,
             returnIsDeferred >>

(* Lines 181-195: a fixed argument is converted by fromJava(), which       *)
(* either yields a fresh JSValue or throws into the catch block.           *)
ConvertArg ==
  /\ pc = "args"
  /\ i < numJsArguments
  /\ ~(isVarArgs /\ i >= numJavaArguments - 1)
  /\ \/ /\ jsArgs' = jsArgs \cup {i}
        /\ rc' = [rc EXCEPT ![i] = 1]
        /\ i' = i + 1
        /\ UNCHANGED pc
     \/ /\ pc' = "catch"
        /\ UNCHANGED << i, jsArgs, rc >>
  /\ UNCHANGED << Inputs, arrRc, retRc, retIsThenable, via, ub >>

(* Lines 185-187: the Java vararg array becomes one JS array holding a     *)
(* reference on each of its elements, or fromJavaArray() throws.           *)
FromJavaArray ==
  /\ pc = "args"
  /\ i < numJsArguments
  /\ isVarArgs /\ i >= numJavaArguments - 1
  /\ \/ /\ arrRc' = 1
        /\ rc' = [p \in Pos |-> IF p \in VarArgPos THEN 1 ELSE rc[p]]
        /\ pc' = "expand"
     \/ /\ pc' = "catch"
        /\ UNCHANGED << arrRc, rc >>
  /\ UNCHANGED << Inputs, i, jsArgs, retRc, retIsThenable, via, ub >>

(* Mutant: the vararg elements are stored without JS_DupValue.           *)
ExpandVarArgsNoDup ==
  /\ pc = "expand"
  /\ jsArgs' = jsArgs \cup VarArgPos
  /\ rc' = [p \in Pos |-> IF p \in VarArgPos THEN rc[p] - 1 ELSE rc[p]]
  /\ arrRc' = arrRc - 1
  /\ i' = numJsArguments
  /\ pc' = "call"
  /\ UNCHANGED << Inputs, retRc, retIsThenable, via, ub >>

(* Lines 188-193: JS_GetPropertyUint32 stores a new reference on element j *)
(* in jsArgs[i] for each j, the array is freed (releasing the references   *)
(* it held on its elements), and the loop is left with i = numJsArguments. *)
ExpandVarArgs ==
  LET afterGet == [p \in Pos |-> IF p \in VarArgPos THEN rc[p] + 1 ELSE rc[p]]
  IN  /\ pc = "expand"
      /\ jsArgs' = jsArgs \cup VarArgPos
      /\ rc' = [p \in Pos |-> IF p \in VarArgPos THEN afterGet[p] - 1
                                                 ELSE afterGet[p]]
      /\ arrRc' = arrRc - 1
      /\ i' = numJsArguments
      /\ pc' = "call"
      /\ UNCHANGED << Inputs, retRc, retIsThenable, via, ub >>

(* Line 181: the conversion loop ends.                                     *)
ArgsConverted ==
  /\ pc = "args"
  /\ i >= numJsArguments
  /\ pc' = "call"
  /\ UNCHANGED << Inputs, i, jsArgs, rc, arrRc, retRc, retIsThenable, via, ub >>

(* Mutant: the catch block stops one slot short.                         *)
CatchOffByOne ==
  LET S == 0 .. (i - 2)
  IN  /\ pc = "catch"
      /\ rc' = FreeSlots(S \cap jsArgs)
      /\ ub' = FreesUnset(S)
      /\ pc' = "argError"
      /\ UNCHANGED << Inputs, i, jsArgs, arrRc, retRc, retIsThenable, via >>

(* Lines 196-201: the catch block frees jsArgs[0 .. i-1] and rethrows.     *)
Catch ==
  LET S == 0 .. (i - 1)
  IN  /\ pc = "catch"
      /\ rc' = FreeSlots(S \cap jsArgs)
      /\ ub' = FreesUnset(S)
      /\ pc' = "argError"
      /\ UNCHANGED << Inputs, i, jsArgs, arrRc, retRc, retIsThenable, via >>

(* Mutant: the slots are freed up to the Java argument count.            *)
CallFreesJavaCount ==
  LET S == 0 .. (numJavaArguments - 1)
  IN  /\ pc = "call"
      /\ rc' = FreeSlots(S \cap jsArgs)
      /\ ub' = FreesUnset(S)
      /\ \/ /\ retRc' = 1
            /\ retIsThenable' \in BOOLEAN
            /\ pc' = "result"
         \/ /\ pc' = "jsError"
            /\ UNCHANGED << retRc, retIsThenable >>
      /\ UNCHANGED << Inputs, i, jsArgs, arrRc, via >>

(* Lines 205-214: JS_Call either returns a fresh value or JS_EXCEPTION,    *)
(* every jsArgs[] slot is freed, and a JS exception is rethrown as a Java  *)
(* exception (ret, auto-released, holds no reference then).               *)
Call ==
  LET S == 0 .. (numJsArguments - 1)
  IN  /\ pc = "call"
      /\ rc' = FreeSlots(S \cap jsArgs)
      /\ ub' = FreesUnset(S)
      /\ \/ /\ retRc' = 1
            /\ retIsThenable' \in BOOLEAN
            /\ pc' = "result"
         \/ /\ pc' = "jsError"
            /\ UNCHANGED << retRc, retIsThenable >>
      /\ UNCHANGED << Inputs, i, jsArgs, arrRc, via >>

(* Mutant: ret is released twice.                                        *)
ResultDoubleFree ==
  /\ pc = "result"
  /\ via' = IF awaitJsPromise /\ retIsThenable /\ ~returnIsDeferred
              THEN "deferred" ELSE "plain"
  /\ retRc' = retRc - 2
  /\ pc' \in {"returned", "resultError"}
  /\ UNCHANGED << Inputs, i, jsArgs, rc, arrRc, retIsThenable, ub >>

(* Lines 216-221: a thenable awaited by a caller whose return type is not *)
(* already a Deferred goes through the Deferred type; either conversion    *)
(* may throw; ret is released by JS_AUTORELEASE_VALUE on both paths.       *)
Result ==
  /\ pc = "result"
  /\ via' = IF awaitJsPromise /\ retIsThenable /\ ~returnIsDeferred
              THEN "deferred" ELSE "plain"
  /\ retRc' = retRc - 1
  /\ pc' \in {"returned", "resultError"}
  /\ UNCHANGED << Inputs, i, jsArgs, rc, arrRc, retIsThenable, ub >>

Next ==
  \/ ConvertArg
  \/ FromJavaArray
  \/ ExpandVarArgs
  \/ ArgsConverted
  \/ Catch
  \/ Call
  \/ Result

Spec == Init /\ [][Next]_vars

-----------------------------------------------------------------------------
(* Properties                                                              *)

TypeOK ==
  /\ isVarArgs \in BOOLEAN
  /\ numJavaArguments \in 0 .. MaxJavaArgs
  /\ varArgCount \in 0 .. MaxVarArgs
  /\ awaitJsPromise \in BOOLEAN
  /\ returnIsDeferred \in BOOLEAN
  /\ pc \in {"args", "expand", "catch", "call", "result"} \cup Done
  /\ i \in 0 .. (MaxJavaArgs + MaxVarArgs)
  /\ jsArgs \subseteq Pos
  /\ rc \in [Pos -> Nat]
  /\ arrRc \in Nat
  /\ retRc \in Nat
  /\ retIsThenable \in BOOLEAN
  /\ via \in {"none", "plain", "deferred"}
  /\ ub \in BOOLEAN

(* Handle hygiene of JavaScriptMethod::invoke: whichever way the call ends *)
(* (a value, a marshalling error, a JS exception or a failed conversion of *)
(* the result), every JSValue it created - each JS argument, the spread    *)
(* vararg array and the returned value - holds no reference any more.      *)
NoLeakOnExit ==
  pc \in Done => /\ \A p \in Pos : rc[p] = 0
                 /\ arrRc = 0
                 /\ retRc = 0

(* The call never frees a jsArgs[] slot it did not fill (an uninitialised  *)
(* JSValue), on the catch path or after JS_Call.                          *)
NoFreeOfUnsetSlot == ~ub

(* When JS_Call is made, it receives numJsArguments values, every one set  *)
(* and alive: the fixed Java arguments followed by the vararg elements.    *)
ArgsLiveAtCall ==
  pc = "call" => \A p \in 0 .. (numJsArguments - 1) : p \in jsArgs /\ rc[p] >= 1

=============================================================================
