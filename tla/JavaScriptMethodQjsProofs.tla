---------------------- MODULE JavaScriptMethodQjsProofs ----------------------
(***************************************************************************)
(* Proofs about JavaScriptMethodQjs for every value of MaxJavaArgs and     *)
(* MaxVarArgs: the type invariant, and the handle hygiene of               *)
(* JavaScriptMethod::invoke (no leak on any exit, no free of an unset      *)
(* slot, every argument alive at JS_Call).                                 *)
(*                                                                         *)
(* NoLeakOnExit is not inductive: it says nothing about the states before *)
(* the exit.  IInv strengthens it by saying, in every state, exactly which *)
(* values hold a reference: the filled prefix jsArgs = 0 .. i-1 while the  *)
(* arguments are converted, plus the vararg elements while the spread      *)
(* array holds them, the array only in the "expand" step and ret only      *)
(* between JS_Call and the conversion of the result.                       *)
(***************************************************************************)
EXTENDS JavaScriptMethodQjs, TLAPS

(* The slots whose JS value holds exactly one reference.                   *)
Live ==
  CASE pc = "expand"                     -> jsArgs \cup VarArgPos
    [] pc \in {"args", "catch", "call"} -> jsArgs
    [] OTHER                             -> {}

IInv ==
  /\ TypeOK
  /\ isVarArgs => numJavaArguments >= 1
  /\ ~isVarArgs => varArgCount = 0
  /\ jsArgs = 0 .. (i - 1)
  /\ i <= numJsArguments
  /\ pc \in {"args", "catch", "expand"} /\ isVarArgs => i <= numJavaArguments - 1
  /\ pc = "expand" => isVarArgs /\ i = numJavaArguments - 1 /\ varArgCount >= 1
  /\ pc = "call" => i = numJsArguments
  /\ \A p \in Pos : rc[p] = IF p \in Live THEN 1 ELSE 0
  /\ arrRc = IF pc = "expand" THEN 1 ELSE 0
  /\ retRc = IF pc = "result" THEN 1 ELSE 0
  /\ ~ub

-----------------------------------------------------------------------------

LEMMA InitIInv == Init => IInv
<1> SUFFICES ASSUME Init PROVE IInv
  OBVIOUS
<1> USE MaxJavaArgsAssumption, MaxVarArgsAssumption
<1>1. Live = {}
  BY DEF Init, Live
<1>2. TypeOK
  <2>1. numJavaArguments \in 0 .. MaxJavaArgs /\ varArgCount \in 0 .. MaxVarArgs
    <3>1. CASE isVarArgs
      BY <3>1 DEF Init
    <3>2. CASE ~isVarArgs
      BY <3>2 DEF Init
    <3>3. QED
      BY <3>1, <3>2
  <2>2. rc \in [Pos -> Nat]
    BY DEF Init
  <2>3. pc \in {"args", "expand", "catch", "call", "result"} \cup Done
    BY DEF Init
  <2>4. i \in 0 .. (MaxJavaArgs + MaxVarArgs)
    BY DEF Init
  <2>5. jsArgs \subseteq Pos
    BY DEF Init
  <2>6. QED
    BY <2>1, <2>2, <2>3, <2>4, <2>5 DEF Init, TypeOK
<1>3. numJsArguments >= 0
  BY DEF Init, numJsArguments
<1>4. QED
  BY <1>1, <1>2, <1>3 DEF Init, IInv


(* numJsArguments is a position count: at most one past the last position *)
LEMMA NumJsBound ==
  ASSUME TypeOK, isVarArgs => numJavaArguments >= 1
  PROVE  numJsArguments \in 0 .. (MaxJavaArgs + MaxVarArgs)
<1>1. CASE isVarArgs
  BY <1>1, MaxJavaArgsAssumption, MaxVarArgsAssumption DEF TypeOK, numJsArguments
<1>2. CASE ~isVarArgs
  BY <1>2, MaxJavaArgsAssumption, MaxVarArgsAssumption DEF TypeOK, numJsArguments
<1>3. QED
  BY <1>1, <1>2

(* Two adjacent integer intervals make one.                               *)
LEMMA IntervalUnion ==
  ASSUME NEW a \in Nat, NEW b \in Nat, b >= a
  PROVE  (0 .. (a - 1)) \cup (a .. b) = 0 .. b
<1>1. \A x : x \in (0 .. (a - 1)) \cup (a .. b) <=> x \in 0 .. b
  BY SMT
<1>2. QED
  BY <1>1, Zenon

LEMMA NextIInv == IInv /\ [Next]_vars => IInv'
<1> SUFFICES ASSUME IInv, [Next]_vars PROVE IInv'
  OBVIOUS
<1> USE MaxJavaArgsAssumption, MaxVarArgsAssumption
<1>0. numJsArguments \in 0 .. (MaxJavaArgs + MaxVarArgs)
  BY NumJsBound DEF IInv
<1> USE <1>0
<1>1. CASE ConvertArg
  <2>0. /\ pc = "args" /\ i < numJsArguments
        /\ ~(isVarArgs /\ i >= numJavaArguments - 1)
        /\ UNCHANGED << Inputs, arrRc, retRc, retIsThenable, via, ub >>
    BY <1>1 DEF ConvertArg
  <2>1. CASE /\ jsArgs' = jsArgs \cup {i} /\ rc' = [rc EXCEPT ![i] = 1]
             /\ i' = i + 1 /\ pc' = pc
    <3>1. Live = jsArgs /\ Live' = jsArgs'
      BY <2>0, <2>1 DEF Live
    <3>2. i \in Pos
      <4>1. CASE isVarArgs
        BY <2>0, <4>1 DEF IInv, TypeOK, Pos
      <4>2. CASE ~isVarArgs
        BY <2>0, <4>2 DEF IInv, TypeOK, Pos, numJsArguments
      <4>3. QED
        BY <4>1, <4>2
    <3>3. TypeOK'
      BY <1>0, <2>0, <2>1, <3>2 DEF IInv, TypeOK, Inputs, Pos
    <3>4. \A p \in Pos : rc'[p] = IF p \in Live' THEN 1 ELSE 0
      BY <2>1, <3>1, <3>2 DEF IInv, TypeOK
    <3>5. jsArgs' = 0 .. (i' - 1)
      BY <2>1 DEF IInv, TypeOK
    <3>6. numJsArguments' = numJsArguments
      BY <2>0 DEF Inputs, numJsArguments
    <3>7. i' <= numJsArguments'
      BY <2>0, <2>1, <3>6 DEF IInv, TypeOK
    <3>9. isVarArgs' => i' <= numJavaArguments' - 1
      <4>1. CASE isVarArgs
        BY <2>0, <2>1, <4>1 DEF IInv, TypeOK, Inputs
      <4>2. CASE ~isVarArgs
        BY <2>0, <4>2 DEF Inputs
      <4>3. QED
        BY <4>1, <4>2
    <3>8. QED
      BY <2>0, <2>1, <3>3, <3>4, <3>5, <3>6, <3>7, <3>9 DEF IInv, Inputs
  <2>2. CASE pc' = "catch" /\ UNCHANGED << i, jsArgs, rc >>
    <3>1. Live = jsArgs /\ Live' = jsArgs'
      BY <2>0, <2>2 DEF Live
    <3>2. TypeOK'
      BY <2>0, <2>2 DEF IInv, TypeOK, Inputs, Done
    <3>3. QED
      BY <2>0, <2>2, <3>1, <3>2 DEF IInv, Inputs, numJsArguments
  <2>3. QED
    BY <1>1, <2>1, <2>2 DEF ConvertArg
<1>2. CASE FromJavaArray
  <2>0. /\ pc = "args" /\ i < numJsArguments
        /\ isVarArgs /\ i >= numJavaArguments - 1
        /\ UNCHANGED << Inputs, i, jsArgs, retRc, retIsThenable, via, ub >>
    BY <1>2 DEF FromJavaArray
  <2>1. i = numJavaArguments - 1 /\ varArgCount >= 1
    BY <2>0 DEF IInv, TypeOK, numJsArguments
  <2>2. VarArgPos' = VarArgPos /\ numJsArguments' = numJsArguments
    BY <2>0 DEF Inputs, VarArgPos, numJsArguments
  <2>3. CASE arrRc' = 1 /\ pc' = "expand"
             /\ rc' = [p \in Pos |-> IF p \in VarArgPos THEN 1 ELSE rc[p]]
    <3>1. Live = jsArgs /\ Live' = jsArgs \cup VarArgPos
      BY <2>0, <2>2, <2>3 DEF Live
    <3>2. jsArgs \cap VarArgPos = {}
      BY <2>1 DEF IInv, VarArgPos
    <3>3. \A p \in Pos : rc'[p] = IF p \in Live' THEN 1 ELSE 0
      BY <2>3, <3>1, <3>2 DEF IInv
    <3>4. TypeOK'
      BY <2>0, <2>3 DEF IInv, TypeOK, Inputs, Done
    <3>5. QED
      BY <2>0, <2>1, <2>2, <2>3, <3>3, <3>4 DEF IInv, Inputs
  <2>4. CASE pc' = "catch" /\ UNCHANGED << arrRc, rc >>
    <3>1. Live = jsArgs /\ Live' = jsArgs'
      BY <2>0, <2>4 DEF Live
    <3>2. TypeOK'
      BY <2>0, <2>4 DEF IInv, TypeOK, Inputs, Done
    <3>3. QED
      BY <2>0, <2>1, <2>2, <2>4, <3>1, <3>2 DEF IInv, Inputs
  <2>5. QED
    BY <1>2, <2>3, <2>4 DEF FromJavaArray
<1>3. CASE ExpandVarArgs
  <2>0. /\ pc = "expand" /\ pc' = "call"
        /\ jsArgs' = jsArgs \cup VarArgPos
        /\ i' = numJsArguments
        /\ arrRc' = arrRc - 1
        /\ UNCHANGED << Inputs, retRc, retIsThenable, via, ub >>
    BY <1>3 DEF ExpandVarArgs
  <2>9. rc' \in [Pos -> Nat] /\ \A p \in Pos : rc'[p] = rc[p]
    BY <1>3 DEF ExpandVarArgs, IInv, TypeOK
  <2>1. isVarArgs /\ i = numJavaArguments - 1 /\ varArgCount >= 1
    BY <2>0 DEF IInv
  <2>2. VarArgPos' = VarArgPos /\ numJsArguments' = numJsArguments
    BY <2>0 DEF Inputs, VarArgPos, numJsArguments
  <2>3. Live = jsArgs \cup VarArgPos /\ Live' = jsArgs'
    BY <2>0 DEF Live
  <2>4. jsArgs' = 0 .. (numJsArguments - 1)
    <3>1. jsArgs = 0 .. (numJavaArguments - 2)
      BY <2>0, <2>1 DEF IInv, TypeOK
    <3>2. VarArgPos = (numJavaArguments - 1) .. (numJavaArguments + varArgCount - 2)
      BY DEF VarArgPos
    <3>3. numJsArguments - 1 = numJavaArguments + varArgCount - 2
      BY <2>0, <2>1 DEF numJsArguments, IInv, TypeOK
    <3>4. numJavaArguments \in Nat /\ varArgCount \in Nat
      BY DEF IInv, TypeOK
    <3>5. QED
      <4>0. /\ numJavaArguments - 1 \in Nat
            /\ numJavaArguments + varArgCount - 2 \in Nat
            /\ numJavaArguments + varArgCount - 2 >= numJavaArguments - 1
            /\ numJavaArguments - 1 - 1 = numJavaArguments - 2
        BY <2>1, <3>4 DEF IInv
      <4>1. (0 .. (numJavaArguments - 2))
              \cup ((numJavaArguments - 1) .. (numJavaArguments + varArgCount - 2))
            = 0 .. (numJavaArguments + varArgCount - 2)
        <5>1. (0 .. (numJavaArguments - 1 - 1))
                \cup ((numJavaArguments - 1) .. (numJavaArguments + varArgCount - 2))
              = 0 .. (numJavaArguments + varArgCount - 2)
          BY <4>0, IntervalUnion
        <5>2. QED
          BY <4>0, <5>1
      <4>2. QED
        BY <2>0, <3>1, <3>2, <3>3, <4>1
  <2>5. \A p \in Pos : rc'[p] = IF p \in Live' THEN 1 ELSE 0
    BY <2>0, <2>3, <2>9 DEF IInv
  <2>7. TypeOK'
    BY <1>0, <2>0, <2>4, <2>9 DEF IInv, TypeOK, Inputs, Pos, Done
  <2>8. QED
    BY <2>0, <2>1, <2>2, <2>4, <2>5, <2>7 DEF IInv, TypeOK, Inputs
<1>4. CASE ArgsConverted
  <2>0. /\ pc = "args" /\ i >= numJsArguments /\ pc' = "call"
        /\ UNCHANGED << Inputs, i, jsArgs, rc, arrRc, retRc, retIsThenable, via, ub >>
    BY <1>4 DEF ArgsConverted
  <2>1. Live = jsArgs /\ Live' = jsArgs'
    BY <2>0 DEF Live
  <2>2. numJsArguments' = numJsArguments
    BY <2>0 DEF Inputs, numJsArguments
  <2>3. TypeOK'
    BY <2>0 DEF IInv, TypeOK, Inputs, Done
  <2>4. QED
    BY <2>0, <2>1, <2>2, <2>3 DEF IInv, TypeOK, Inputs
<1>5. CASE Catch
  <2>0. /\ pc = "catch" /\ pc' = "argError"
        /\ rc' = FreeSlots(0 .. (i - 1) \cap jsArgs)
        /\ ub' = FreesUnset(0 .. (i - 1))
        /\ UNCHANGED << Inputs, i, jsArgs, arrRc, retRc, retIsThenable, via >>
    BY <1>5 DEF Catch
  <2>1. Live = jsArgs /\ Live' = {}
    BY <2>0 DEF Live
  <2>2. ub' = FALSE
    BY <2>0 DEF IInv, FreesUnset
  <2>3. \A p \in Pos : rc'[p] = 0
    BY <2>0, <2>1 DEF IInv, FreeSlots
  <2>4. rc' \in [Pos -> Nat]
    BY <2>0, <2>3 DEF FreeSlots
  <2>5. TypeOK'
    BY <2>0, <2>2, <2>4 DEF IInv, TypeOK, Inputs, Done
  <2>6. QED
    BY <2>0, <2>1, <2>2, <2>3, <2>5 DEF IInv, Inputs, numJsArguments
<1>6. CASE Call
  <2>0. /\ pc = "call"
        /\ rc' = FreeSlots(0 .. (numJsArguments - 1) \cap jsArgs)
        /\ ub' = FreesUnset(0 .. (numJsArguments - 1))
        /\ \/ retRc' = 1 /\ retIsThenable' \in BOOLEAN /\ pc' = "result"
           \/ pc' = "jsError" /\ UNCHANGED << retRc, retIsThenable >>
        /\ UNCHANGED << Inputs, i, jsArgs, arrRc, via >>
    BY <1>6 DEF Call
  <2>1. Live = jsArgs /\ Live' = {}
    BY <2>0 DEF Live, Done
  <2>2. jsArgs = 0 .. (numJsArguments - 1)
    BY <2>0 DEF IInv
  <2>3. ub' = FALSE
    BY <2>0, <2>2 DEF IInv, FreesUnset
  <2>4. \A p \in Pos : rc'[p] = 0
    BY <2>0, <2>1, <2>2 DEF IInv, FreeSlots
  <2>5. rc' \in [Pos -> Nat]
    BY <2>0, <2>4 DEF FreeSlots
  <2>6. numJsArguments' = numJsArguments
    BY <2>0 DEF Inputs, numJsArguments
  <2>7. TypeOK'
    <3>1. CASE retRc' = 1 /\ retIsThenable' \in BOOLEAN /\ pc' = "result"
      BY <2>0, <2>3, <2>5, <3>1 DEF IInv, TypeOK, Inputs
    <3>2. CASE pc' = "jsError" /\ UNCHANGED << retRc, retIsThenable >>
      BY <2>0, <2>3, <2>5, <3>2 DEF IInv, TypeOK, Inputs, Done
    <3>3. QED
      BY <2>0, <3>1, <3>2
  <2>8. QED
    BY <2>0, <2>1, <2>3, <2>4, <2>6, <2>7 DEF IInv, Inputs
<1>7. CASE Result
  <2>0. /\ pc = "result" /\ retRc' = retRc - 1
        /\ pc' \in {"returned", "resultError"}
        /\ via' \in {"plain", "deferred"}
        /\ UNCHANGED << Inputs, i, jsArgs, rc, arrRc, retIsThenable, ub >>
    BY <1>7 DEF Result
  <2>1. Live = {} /\ Live' = {}
    BY <2>0 DEF Live
  <2>2. numJsArguments' = numJsArguments
    BY <2>0 DEF Inputs, numJsArguments
  <2>3. TypeOK'
    BY <2>0 DEF IInv, TypeOK, Inputs, Done
  <2>4. QED
    BY <2>0, <2>1, <2>2, <2>3 DEF IInv, Inputs
<1>8. CASE UNCHANGED vars
  <2>1. Live' = Live /\ numJsArguments' = numJsArguments
    BY <1>8 DEF vars, Live, VarArgPos, numJsArguments
  <2>2. QED
    BY <1>8, <2>1 DEF IInv, TypeOK, vars
<1>9. QED
  BY <1>1, <1>2, <1>3, <1>4, <1>5, <1>6, <1>7, <1>8 DEF Next

LEMMA IInvSafe == IInv => TypeOK /\ NoLeakOnExit /\ NoFreeOfUnsetSlot /\ ArgsLiveAtCall
  BY DEF IInv, NoLeakOnExit, NoFreeOfUnsetSlot, ArgsLiveAtCall, Live, Done, Pos,
         numJsArguments, TypeOK

(* Type correctness of the QuickJS host -> script call.                    *)
THEOREM TypeCorrect == Spec => []TypeOK
  BY InitIInv, NextIInv, IInvSafe, PTL DEF Spec

(* No leak on any exit of JavaScriptMethod::invoke (QuickJS): whichever     *)
(* way the call ends, every JSValue it created (jsArgs[] slots, the vararg  *)
(* spread, ret) has been released exactly once.                             *)
THEOREM NoLeak == Spec => []NoLeakOnExit
BY InitIInv, NextIInv, IInvSafe, PTL DEF Spec

(* The catch block of JavaScriptMethod::invoke (QuickJS) never frees a      *)
(* jsArgs[] slot the loop had not yet filled.                               *)
THEOREM NoStrayFree == Spec => []NoFreeOfUnsetSlot
BY InitIInv, NextIInv, IInvSafe, PTL DEF Spec

(* JS_Call receives only live arguments: each of the JS argument slots      *)
(* holds its reference when the function is called.                         *)
THEOREM ArgsLive == Spec => []ArgsLiveAtCall
BY InitIInv, NextIInv, IInvSafe, PTL DEF Spec

=============================================================================
