-------------------------- MODULE JavaMethodQjsProofs --------------------------
(***************************************************************************)
(* Proofs about JavaMethodQjs, the QuickJS flavour of JavaMethod::invoke   *)
(* (part_001 146-194) and the method body, for every MaxParams and MaxArgc *)
(* that satisfy the assumptions of JavaMethodQjs:                          *)
(*   - the model is well typed;                                            *)
(*   - it implements JavaMethodBinding under the mapping status / bound    *)
(*     of JavaMethodQjs: every step is a step of the binding or leaves     *)
(*     status and bound alone.                                             *)
(***************************************************************************)
EXTENDS JavaMethodQjs, TLAPS

Expected == Binding!ExpectedArgs
NullArg  == Binding!NullArg

(* The argument vector after the first n fixed parameters were converted:  *)
(* what the binding expects below n, the value-initialised null above.     *)
Partial(n) == [k \in 0 .. (numParams - 1) |-> IF k < n THEN Expected[k] ELSE NullArg]

(* The inductive invariant: the argument count passed the check once the   *)
(* loop runs, the loop index stays within the fixed parameters, the        *)
(* vararg array holds its one reference and one on each element while     *)
(* toJavaArray runs, and the argument vector is the converted prefix       *)
(* until the body runs, the whole expected vector after.                   *)
IInv ==
  /\ TypeOK
  /\ isVarArgs => numParams >= 1
  /\ pc \notin {"start", "tooMany"} => (isVarArgs \/ argc <= minArgs)
  /\ pc = "start" => i = 0
  /\ pc = "args" => i <= minArgs
  /\ pc = "toJavaArray" =>
       /\ isVarArgs /\ i = minArgs /\ arrRc = 1
       /\ \A k \in VarArgSrc : argvRc[k] >= 1
  /\ pc \in {"start", "args", "toJavaArray"} => args = Partial(i)
  /\ pc \in {"body", "returned", "javaError", "resultError"} => args = Expected

-----------------------------------------------------------------------------
(* The inductive invariant                                                 *)

USE MaxParamsAssumption, MaxArgcAssumption

LEMMA InitIInv == Init => IInv
BY DEF Init, IInv, TypeOK, Partial, minArgs, ArgvPos, NullArg, Binding!NullArg

(* The binding's entry for a fixed parameter below minArgs.                *)
LEMMA ExpectedFixed ==
  ASSUME isVarArgs \in BOOLEAN, numParams \in Nat, argc \in Nat,
         isVarArgs => numParams >= 1,
         NEW k \in 0 .. (minArgs - 1)
  PROVE  Expected[k] = IF k < argc THEN Binding!ValueArg(k) ELSE NullArg
BY DEF Expected, Binding!ExpectedArgs, Binding!minArgs, minArgs, NullArg

(* A step that keeps the inputs keeps everything derived from them.        *)
LEMMA InputsStable ==
  ASSUME UNCHANGED Inputs
  PROVE  /\ isVarArgs' = isVarArgs /\ numParams' = numParams /\ argc' = argc
         /\ minArgs' = minArgs /\ Expected' = Expected /\ VarArgSrc' = VarArgSrc
         /\ Partial(i)' = Partial(i')
BY DEF Inputs, minArgs, Expected, Binding!ExpectedArgs, Binding!minArgs, Binding!Positions,
   VarArgSrc, Partial, NullArg, Binding!NullArg

LEMMA NextIInv == IInv /\ [Next]_vars => IInv'
<1> SUFFICES ASSUME IInv, [Next]_vars PROVE IInv'
  OBVIOUS
<1>0. /\ isVarArgs \in BOOLEAN /\ numParams \in 0 .. MaxParams /\ argc \in 0 .. MaxArgc
      /\ i \in 0 .. MaxParams /\ argvRc \in [ArgvPos -> Nat] /\ arrRc \in Nat
      /\ isVarArgs => numParams >= 1
  BY DEF IInv, TypeOK
<1>1. CASE CheckArgCount
  <2>1. /\ UNCHANGED Inputs /\ pc = "start"
        /\ i' = i /\ args' = args /\ argvRc' = argvRc /\ arrRc' = arrRc
    BY <1>1 DEF CheckArgCount
  <2>2. isVarArgs' = isVarArgs /\ numParams' = numParams /\ argc' = argc /\ minArgs' = minArgs /\ VarArgSrc' = VarArgSrc /\ Expected' = Expected
        /\ Partial(i)' = Partial(i') /\ minArgs \in Nat
    BY <2>1, InputsStable, <1>0 DEF minArgs
  <2>3. i = 0 /\ args = Partial(i)
    BY <2>1 DEF IInv
  <2>4. QED
    BY <1>1, <2>1, <2>2, <2>3, <1>0 DEF CheckArgCount, IInv, TypeOK, Done, Inputs
<1>2. CASE ConvertArg
  <2>1. /\ UNCHANGED Inputs /\ argvRc' = argvRc /\ arrRc' = arrRc
        /\ pc = "args" /\ i < minArgs /\ args = Partial(i)
    BY <1>2 DEF ConvertArg, IInv
  <2>2. isVarArgs' = isVarArgs /\ numParams' = numParams /\ argc' = argc /\ minArgs' = minArgs /\ VarArgSrc' = VarArgSrc /\ Expected' = Expected
        /\ Partial(i)' = Partial(i') /\ minArgs \in Nat /\ minArgs <= numParams
    BY <2>1, InputsStable, <1>0 DEF minArgs
  <2>3. Expected[i] = IF i < argc THEN Binding!ValueArg(i) ELSE NullArg
    BY <2>1, <2>2, <1>0, ExpectedFixed
  <2>4. (isVarArgs \/ argc <= minArgs) /\ DOMAIN args = 0 .. numParams - 1
    BY <2>1 DEF IInv, TypeOK
  <2>5. ASSUME args' = [args EXCEPT ![i] = Expected[i]], i' = i + 1, pc' = pc
        PROVE  IInv'
    <3>1. i \in 0 .. numParams - 1
      BY <2>1, <2>2, <1>0
    <3>2. [Partial(i) EXCEPT ![i] = Expected[i]] = Partial(i + 1)
      <4> DEFINE P == Partial(i)  Q == Partial(i + 1)
      <4>1. P = [k \in 0 .. numParams - 1 |-> IF k < i THEN Expected[k] ELSE NullArg]
            /\ Q = [k \in 0 .. numParams - 1 |-> IF k < i + 1 THEN Expected[k] ELSE NullArg]
        BY DEF Partial
      <4>2. \A k \in 0 .. numParams - 1 : [P EXCEPT ![i] = Expected[i]][k] = Q[k]
        BY <4>1, <3>1, <1>0
      <4>3. [P EXCEPT ![i] = Expected[i]] \in [0 .. numParams - 1 -> UNION {{Expected[k] : k \in 0 .. numParams - 1}, {NullArg}}]
        BY <4>1, <3>1
      <4>4. Q \in [0 .. numParams - 1 -> UNION {{Expected[k] : k \in 0 .. numParams - 1}, {NullArg}}]
        BY <4>1
      <4>5. QED
        BY <4>2, <4>3, <4>4, Zenon
    <3>3. args' = Partial(i')
      BY <2>1, <2>5, <3>2
    <3>4. TypeOK'
      <4>1. DOMAIN args' = 0 .. numParams - 1
        BY <2>4, <2>5
      <4>2. i' \in 0 .. MaxParams
        BY <2>1, <2>2, <2>5, <1>0
      <4>3. QED
        BY <2>1, <2>5, <4>1, <4>2, <1>0 DEF TypeOK, Inputs
    <3>a. pc' = "args"
      BY <2>1, <2>5
    <3>b. i' <= minArgs'
      BY <2>1, <2>2, <2>5, <1>0
    <3>c. isVarArgs' \/ argc' <= minArgs'
      BY <2>2, <2>4
    <3>d. isVarArgs' => numParams' >= 1
      BY <2>2, <1>0
    <3>e. args' = Partial(i)'
      BY <2>2, <3>3
    <3>5. /\ pc' = "args" /\ i' <= minArgs'
          /\ isVarArgs' \/ argc' <= minArgs'
          /\ isVarArgs' => numParams' >= 1
          /\ args' = Partial(i)'
      BY <3>a, <3>b, <3>c, <3>d, <3>e
    <3>6. QED
      BY <3>4, <3>5 DEF IInv
  <2>6. CASE pc' = "argError" /\ i' = i /\ args' = args
    BY <2>1, <2>2, <2>4, <2>6, <1>0 DEF IInv, TypeOK, Inputs, Done
  <2>7. CASE i >= argc /\ args' = [args EXCEPT ![i] = Binding!NullArg] /\ i' = i + 1 /\ pc' = pc
    <3>0. ~(i < argc)
      BY <2>7, <1>0
    <3>a. Expected[i] = Binding!NullArg
      BY <2>3, <3>0, Zenon DEF NullArg
    <3>1. args' = [args EXCEPT ![i] = Expected[i]]
      BY <2>7, <3>a, Zenon
    <3>2. QED
      BY <2>5, <2>7, <3>1, Zenon
  <2>8. CASE i < argc /\ args' = [args EXCEPT ![i] = Binding!ValueArg(i)] /\ i' = i + 1 /\ pc' = pc
    <3>1. args' = [args EXCEPT ![i] = Expected[i]]
      BY <2>1, <2>2, <2>3, <2>8, <1>0
    <3>2. QED
      BY <2>5, <2>8, <3>1, Zenon
  <2>9. QED
    BY <1>2, <2>6, <2>7, <2>8 DEF ConvertArg
<1>3. CASE ArgsConverted
  <2>1. /\ UNCHANGED Inputs /\ i' = i /\ argvRc' = argvRc /\ arrRc' = arrRc /\ args' = args
        /\ pc' = "body" /\ pc = "args" /\ ~isVarArgs
    BY <1>3 DEF ArgsConverted
  <2>2. i = numParams /\ args = Partial(i) /\ argc <= minArgs
    BY <1>3, <2>1, <1>0 DEF ArgsConverted, IInv, minArgs
  <2>3. Partial(numParams) = Expected
    BY <2>1, <1>0 DEF Partial, Expected, Binding!ExpectedArgs
  <2>4. isVarArgs' = isVarArgs /\ numParams' = numParams /\ argc' = argc /\ minArgs' = minArgs /\ Expected' = Expected
    BY <2>1, InputsStable
  <2>5. QED
    BY <2>1, <2>2, <2>3, <2>4, <1>0 DEF IInv, TypeOK, Inputs, Done
<1>4. CASE NewVarArgArray
  <2>1. /\ UNCHANGED Inputs /\ i' = i /\ args' = args /\ arrRc' = 1 /\ pc' = "toJavaArray"
        /\ pc = "args" /\ i >= minArgs /\ isVarArgs
        /\ argvRc' = [k \in ArgvPos |-> IF k \in VarArgSrc THEN argvRc[k] + 1 ELSE argvRc[k]]
    BY <1>4 DEF NewVarArgArray
  <2>2. i = minArgs /\ args = Partial(i)
    BY <2>1, <1>0 DEF IInv, minArgs
  <2>3. VarArgSrc \subseteq ArgvPos
    BY <1>0 DEF VarArgSrc, ArgvPos, minArgs
  <2>4. argvRc' \in [ArgvPos -> Nat] /\ \A k \in VarArgSrc : argvRc'[k] >= 1
    BY <2>1, <2>3, <1>0
  <2>5. isVarArgs' = isVarArgs /\ numParams' = numParams /\ argc' = argc /\ minArgs' = minArgs /\ VarArgSrc' = VarArgSrc /\ Partial(i)' = Partial(i')
    BY <2>1, InputsStable
  <2>6. QED
    BY <2>1, <2>2, <2>4, <2>5, <1>0 DEF IInv, TypeOK, Inputs, Done
<1>5. CASE ToJavaArray
  <2>1. /\ UNCHANGED Inputs /\ i' = i
        /\ pc = "toJavaArray" /\ isVarArgs /\ i = minArgs /\ arrRc = 1
        /\ \A k \in VarArgSrc : argvRc[k] >= 1
        /\ args = Partial(i)
    BY <1>5 DEF ToJavaArray, IInv
  <2>2. isVarArgs' = isVarArgs /\ numParams' = numParams /\ argc' = argc /\ minArgs' = minArgs /\ VarArgSrc' = VarArgSrc /\ Expected' = Expected
    BY <2>1, InputsStable
  <2>3. (isVarArgs \/ argc <= minArgs) /\ DOMAIN args = 0 .. numParams - 1
    BY <2>1 DEF IInv, TypeOK
  <2>4. CASE /\ args' = [args EXCEPT ![numParams - 1] =
                           Binding!ArrayArg(Binding!Positions(minArgs, argc - 1))]
             /\ arrRc' = arrRc - 1
             /\ argvRc' = [k \in ArgvPos |-> IF k \in VarArgSrc THEN argvRc[k] - 1 ELSE argvRc[k]]
             /\ pc' = "body"
    <3>0. numParams >= 1 /\ i = numParams - 1
      BY <2>1, <1>0 DEF minArgs
    <3>a. Expected[numParams - 1] = Binding!ArrayArg(Binding!Positions(minArgs, argc - 1))
      BY <2>1, <3>0, <1>0 DEF Expected, Binding!ExpectedArgs, Binding!minArgs, minArgs
    <3>b. [Partial(i) EXCEPT ![numParams - 1] = Expected[numParams - 1]] = Expected
      <4> DEFINE P == [Partial(i) EXCEPT ![numParams - 1] = Expected[numParams - 1]]
                 S == {Expected[k] : k \in 0 .. numParams - 1} \cup {NullArg}
      <4>1. \A k \in 0 .. numParams - 1 : P[k] = Expected[k]
        BY <3>0, <1>0 DEF Partial
      <4>2. P \in [0 .. numParams - 1 -> S]
        BY <3>0, <1>0 DEF Partial
      <4>3. Expected \in [0 .. numParams - 1 -> S]
        BY DEF Expected, Binding!ExpectedArgs
      <4>4. QED
        BY <4>1, <4>2, <4>3, Zenon
    <3>1. args' = Expected
      BY <2>1, <2>4, <3>a, <3>b
    <3>2. argvRc' \in [ArgvPos -> Nat] /\ arrRc' \in Nat
      BY <2>1, <2>4, <1>0
    <3>3. QED
      BY <2>1, <2>2, <2>3, <2>4, <3>1, <3>2, <1>0 DEF IInv, TypeOK, Inputs, Done
  <2>5. CASE pc' = "argError" /\ UNCHANGED << args, arrRc, argvRc >>
    BY <2>1, <2>2, <2>3, <2>5, <1>0 DEF IInv, TypeOK, Inputs, Done
  <2>6. QED
    BY <1>5, <2>4, <2>5 DEF ToJavaArray
<1>6. CASE MethodBody
  <2>1. /\ UNCHANGED << Inputs, i, args, argvRc, arrRc >> /\ pc = "body"
        /\ pc' \in {"returned", "javaError", "resultError"}
    BY <1>6 DEF MethodBody
  <2>2. isVarArgs' = isVarArgs /\ numParams' = numParams /\ argc' = argc /\ minArgs' = minArgs /\ Expected' = Expected
    BY <2>1, InputsStable
  <2>3. QED
    BY <2>1, <2>2, <1>0 DEF IInv, TypeOK, Inputs, Done
<1>7. CASE UNCHANGED vars
  <2>1. UNCHANGED Inputs /\ UNCHANGED << pc, i, args, argvRc, arrRc >>
    BY <1>7 DEF vars, Inputs
  <2>2. isVarArgs' = isVarArgs /\ numParams' = numParams /\ argc' = argc /\ minArgs' = minArgs /\ VarArgSrc' = VarArgSrc /\ Expected' = Expected
        /\ Partial(i)' = Partial(i')
    BY <2>1, InputsStable
  <2>3. QED
    BY <2>1, <2>2 DEF IInv, TypeOK, Inputs
<1>8. QED
  BY <1>1, <1>2, <1>3, <1>4, <1>5, <1>6, <1>7 DEF Next

-----------------------------------------------------------------------------
(* The refinement                                                          *)

AbsVars == << isVarArgs, numParams, argc, status, bound >>

(* Where the mapping puts a program counter.                               *)
LEMMA StatusOf ==
  /\ pc \in {"start", "args", "toJavaArray"} => status = "calling" /\ bound = << >>
  /\ pc = "tooMany" => status = "rejected" /\ bound = << >>
  /\ pc = "argError" => status = "failed" /\ bound = << >>
  /\ pc = "body" => status = "invoked" /\ bound = args
  /\ pc = "returned" => status = "returned" /\ bound = args
  /\ pc \in {"javaError", "resultError"} => status = "threw" /\ bound = args
BY DEF status, bound

(* Every step of JavaMethodQjs is a step of JavaMethodBinding under the    *)
(* mapping, or leaves the mapped state alone.                              *)
LEMMA NextRefines == IInv /\ [Next]_vars => [Binding!Next]_AbsVars
<1> SUFFICES ASSUME IInv, [Next]_vars PROVE [Binding!Next]_AbsVars
  OBVIOUS
<1>0. /\ isVarArgs \in BOOLEAN /\ numParams \in 0 .. MaxParams /\ argc \in 0 .. MaxArgc
      /\ isVarArgs => numParams >= 1
      /\ Binding!minArgs = minArgs
  BY DEF IInv, TypeOK, Binding!minArgs, minArgs
<1>a. StatusOf /\ StatusOf'
  BY StatusOf, PTL
<1>1. CASE CheckArgCount
  <2>1. UNCHANGED << isVarArgs, numParams, argc, args >> /\ pc = "start"
    BY <1>1 DEF CheckArgCount, Inputs
  <2>2. CASE ~isVarArgs /\ argc > minArgs
    <3>1. pc' = "tooMany"
      BY <1>1, <2>2 DEF CheckArgCount
    <3>2. Binding!Reject
      BY <1>0, <1>a, <2>1, <2>2, <3>1 DEF Binding!Reject
    <3>3. QED
      BY <3>2 DEF Binding!Next
  <2>3. CASE ~(~isVarArgs /\ argc > minArgs)
    <3>1. pc' = "args"
      BY <1>1, <2>3 DEF CheckArgCount
    <3>2. QED
      BY <1>a, <2>1, <3>1 DEF AbsVars
  <2>4. QED
    BY <2>2, <2>3
<1>2. CASE ConvertArg
  <2>1. UNCHANGED << isVarArgs, numParams, argc >> /\ pc = "args"
        /\ pc' \in {"args", "argError"}
    BY <1>2 DEF ConvertArg, Inputs
  <2>2. CASE pc' = "args"
    BY <1>a, <2>1, <2>2 DEF AbsVars
  <2>3. CASE pc' = "argError"
    <3>1. isVarArgs \/ argc <= minArgs
      BY <2>1 DEF IInv
    <3>2. Binding!Fail
      BY <1>0, <1>a, <2>1, <2>3, <3>1 DEF Binding!Fail
    <3>3. QED
      BY <3>2 DEF Binding!Next
  <2>4. QED
    BY <2>1, <2>2, <2>3
<1>3. CASE ArgsConverted
  <2>1. UNCHANGED << isVarArgs, numParams, argc, args >> /\ pc = "args" /\ pc' = "body"
    BY <1>3 DEF ArgsConverted, Inputs
  <2>2. args' = Expected /\ (isVarArgs \/ argc <= minArgs)
    <3>1. IInv'
      BY <1>3, NextIInv
    <3>2. Expected' = Expected
      BY <2>1 DEF Expected, Binding!ExpectedArgs, Binding!minArgs, Binding!Positions
    <3>3. QED
      BY <2>1, <3>1, <3>2 DEF IInv
  <2>3. Binding!Invoke
    BY <1>0, <1>a, <2>1, <2>2 DEF Binding!Invoke, Expected
  <2>4. QED
    BY <2>3 DEF Binding!Next
<1>4. CASE NewVarArgArray
  <2>1. UNCHANGED << isVarArgs, numParams, argc >> /\ pc = "args" /\ pc' = "toJavaArray"
    BY <1>4 DEF NewVarArgArray, Inputs
  <2>2. QED
    BY <1>a, <2>1 DEF AbsVars
<1>5. CASE ToJavaArray
  <2>1. UNCHANGED << isVarArgs, numParams, argc >> /\ pc = "toJavaArray"
        /\ pc' \in {"body", "argError"} /\ isVarArgs
    BY <1>5 DEF ToJavaArray, Inputs, IInv
  <2>2. CASE pc' = "body"
    <3>1. IInv'
      BY <1>5, NextIInv
    <3>2. Expected' = Expected
      BY <2>1 DEF Expected, Binding!ExpectedArgs, Binding!minArgs, Binding!Positions
    <3>3. args' = Expected
      BY <2>2, <3>1, <3>2 DEF IInv
    <3>4. Binding!Invoke
      BY <1>0, <1>a, <2>1, <2>2, <3>3 DEF Binding!Invoke, Expected
    <3>5. QED
      BY <3>4 DEF Binding!Next
  <2>3. CASE pc' = "argError"
    <3>1. Binding!Fail
      BY <1>0, <1>a, <2>1, <2>3 DEF Binding!Fail
    <3>2. QED
      BY <3>1 DEF Binding!Next
  <2>4. QED
    BY <2>1, <2>2, <2>3
<1>6. CASE MethodBody
  <2>1. UNCHANGED << isVarArgs, numParams, argc, args >> /\ pc = "body"
        /\ pc' \in {"returned", "javaError", "resultError"}
    BY <1>6 DEF MethodBody, Inputs
  <2>2. Binding!Complete
    BY <1>a, <2>1 DEF Binding!Complete
  <2>3. QED
    BY <2>2 DEF Binding!Next
<1>7. CASE UNCHANGED vars
  BY <1>7 DEF vars, AbsVars, status, bound
<1>8. QED
  BY <1>1, <1>2, <1>3, <1>4, <1>5, <1>6, <1>7 DEF Next

(* The initial states of the call map to initial states of the binding.   *)
LEMMA InitRefines == Init => Binding!Init
BY DEF Init, Binding!Init, status, bound

(* Type correctness of the QuickJS JavaMethod::invoke, for every bound.    *)
THEOREM TypeCorrect == Spec => []TypeOK
<1>1. IInv => TypeOK
  BY DEF IInv
<1>2. QED
  BY InitIInv, NextIInv, <1>1, PTL DEF Spec

(* JavaMethod::invoke on QuickJS binds the script's arguments as the       *)
(* binding promises, for every number of parameters and arguments: it      *)
(* rejects exactly the over-long calls of fixed-arity methods, and the     *)
(* Java method receives JS argument k in fixed parameter k, null for each  *)
(* parameter left out, and the remaining arguments in the collector array. *)
THEOREM Implementation == Spec => BindingRefinement
<1>1. Spec => []IInv
  BY InitIInv, NextIInv, PTL DEF Spec
<1>2. QED
  BY <1>1, InitRefines, NextRefines, PTL DEF Spec, BindingRefinement, Binding!Spec, AbsVars

=============================================================================
