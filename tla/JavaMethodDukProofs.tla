-------------------------- MODULE JavaMethodDukProofs --------------------------
(***************************************************************************)
(* Proofs about JavaMethodDuk, the Duktape flavour of JavaMethod::invoke   *)
(* (part_001 103-142) and the method body, for every MaxParams, MaxArgc    *)
(* and size_t width allowed by the assumptions of JavaMethodDuk:           *)
(*   - the model is well typed;                                            *)
(*   - it implements JavaMethodBinding under the mapping status / bound.   *)
(* The width assumption is what makes the second one true: in it the       *)
(* vararg count argCount - minArgs wraps, for a call with too few          *)
(* arguments, to a number larger than any stack, so popArray fails and the *)
(* call ends as a failed conversion, which the binding allows.             *)
(***************************************************************************)
EXTENDS JavaMethodDuk, SequenceTheorems, TLAPS

Expected == Binding!ExpectedArgs
NullArg  == Binding!NullArg

(* The first m argument positions of the stack, bottom first.              *)
Prefix(m) == [j \in 1 .. m |-> j - 1]

(* The argument vector when the parameters above n hold what the binding   *)
(* expects and those at or below n are still null.                         *)
Above(n) == [k \in 0 .. (numParams - 1) |-> IF k > n THEN Expected[k] ELSE NullArg]

SmallerOf(a, b) == IF a < b THEN a ELSE b

(* The inductive invariant: before the vararg tail is popped the stack is  *)
(* the whole argument list; in the loop it holds the arguments at or below *)
(* i that the script passed; the vector holds the expected values above i; *)
(* once the body runs it is the expected vector.                           *)
IInv ==
  /\ TypeOK
  /\ isVarArgs => numParams >= 1
  /\ pc \in {"start", "popVarArgs"} => /\ i = minArgs - 1 /\ stack = Prefix(argc)
                                     /\ args = Above(numParams - 1)
  /\ pc = "popVarArgs" => isVarArgs
  /\ pc \notin {"start", "tooMany"} => (isVarArgs \/ argc <= minArgs)
  /\ pc = "args" => /\ i \in -1 .. minArgs - 1
                    /\ stack = Prefix(SmallerOf(argc, i + 1))
                    /\ args = Above(i)
  /\ pc \in {"body", "returned", "javaError", "resultError"} => args = Expected

-----------------------------------------------------------------------------
(* Lemmas on size_t and on the stack                                       *)

USE MaxParamsAssumption, MaxArgcAssumption, SizeTBitsAssumption

(* The vararg count argCount - minArgs in size_t: the difference when it   *)
(* is not negative, and otherwise a number above every argument count.     *)
LEMMA VarArgCount ==
  ASSUME NEW a \in 0 .. MaxArgc, NEW m \in 0 .. MaxParams
  PROVE  /\ SizeT(a - m) \in 0 .. (2 ^ SizeTBits - 1)
         /\ a >= m => SizeT(a - m) = a - m
         /\ a < m => SizeT(a - m) > a
<1> DEFINE M == 2 ^ SizeTBits
<1>1. M \in Nat /\ M > MaxArgc + MaxParams
  BY SizeTBitsAssumption
<1>2. a - m \in -M .. M - 1
  BY <1>1
<1>3. a >= m => (a - m) % M = a - m
  BY <1>1, <1>2
<1>4. a < m => (a - m) % M = a - m + M
  BY <1>1, <1>2
<1>5. QED
  BY <1>1, <1>3, <1>4 DEF SizeT

LEMMA PrefixSeq ==
  ASSUME NEW m \in 0 .. MaxArgc
  PROVE  Prefix(m) \in Seq(0 .. MaxArgc) /\ Len(Prefix(m)) = m
BY DEF Prefix

(* Taking the bottom k entries of a prefix.                                *)
LEMMA PrefixBottom ==
  ASSUME NEW m \in 0 .. MaxArgc, NEW k \in 0 .. m
  PROVE  SubSeq(Prefix(m), 1, k) = Prefix(k)
<1>1. Prefix(m) \in Seq(0 .. MaxArgc) /\ Len(Prefix(m)) = m
  BY PrefixSeq
<1>2. SubSeq(Prefix(m), 1, k) \in Seq(0 .. MaxArgc) /\ Len(SubSeq(Prefix(m), 1, k)) = k
      /\ \A p \in 1 .. k : SubSeq(Prefix(m), 1, k)[p] = Prefix(m)[p]
  BY <1>1, SubSeqProperties
<1>3. Prefix(k) \in Seq(0 .. MaxArgc) /\ Len(Prefix(k)) = k
  BY PrefixSeq
<1>4. \A p \in 1 .. k : SubSeq(Prefix(m), 1, k)[p] = Prefix(k)[p]
  BY <1>2 DEF Prefix
<1>5. QED
  BY <1>2, <1>3, <1>4, SeqEqual, Zenon

(* Taking the top k entries of a prefix: the positions m-k .. m-1.          *)
LEMMA PrefixTop ==
  ASSUME NEW m \in 0 .. MaxArgc, NEW k \in 0 .. m
  PROVE  SubSeq(Prefix(m), m - k + 1, m) = Binding!Positions(m - k, m - 1)
<1>1. Prefix(m) \in Seq(0 .. MaxArgc) /\ Len(Prefix(m)) = m
  BY PrefixSeq
<1>2. /\ SubSeq(Prefix(m), m - k + 1, m) \in Seq(0 .. MaxArgc)
      /\ Len(SubSeq(Prefix(m), m - k + 1, m)) = k
      /\ \A p \in 1 .. k : SubSeq(Prefix(m), m - k + 1, m)[p] = Prefix(m)[m - k + p]
  <2> DEFINE a == m - k + 1  s == Prefix(m)
  <2>1. a \in Int /\ m \in Int /\ \A p \in a .. m : s[p] \in 0 .. MaxArgc
    BY DEF Prefix
  <2>2. /\ SubSeq(s, a, m) \in Seq(0 .. MaxArgc)
        /\ Len(SubSeq(s, a, m)) = IF a <= m THEN m - a + 1 ELSE 0
        /\ \A p \in 1 .. m - a + 1 : SubSeq(s, a, m)[p] = s[a + p - 1]
    BY <2>1, SubSeqProperties
  <2>3. (IF a <= m THEN m - a + 1 ELSE 0) = k /\ m - a + 1 = k
        /\ \A p \in 1 .. k : a + p - 1 = m - k + p
    OBVIOUS
  <2>4. QED
    BY <2>2, <2>3, Zenon
<1>3. Binding!Positions(m - k, m - 1) = [j \in 1 .. k |-> m - k + j - 1]
  BY DEF Binding!Positions
<1>4. \A p \in 1 .. k : SubSeq(Prefix(m), m - k + 1, m)[p] = m - k + p - 1
  BY <1>2 DEF Prefix
<1>5. [j \in 1 .. k |-> m - k + j - 1] \in Seq(0 .. MaxArgc)
      /\ Len([j \in 1 .. k |-> m - k + j - 1]) = k
  OBVIOUS
<1>6. \A p \in 1 .. Len(SubSeq(Prefix(m), m - k + 1, m)) :
        SubSeq(Prefix(m), m - k + 1, m)[p] = [j \in 1 .. k |-> m - k + j - 1][p]
  BY <1>2, <1>4
<1>7. SubSeq(Prefix(m), m - k + 1, m) = [j \in 1 .. k |-> m - k + j - 1]
  BY <1>2, <1>5, <1>6, SeqEqual, Zenon
<1>8. QED
  BY <1>3, <1>7

-----------------------------------------------------------------------------
(* The inductive invariant                                                 *)

LEMMA InitIInv == Init => IInv
<1> SUFFICES ASSUME Init PROVE IInv
  OBVIOUS
<1>1. argc \in 0 .. MaxArgc /\ stack = Prefix(argc)
  BY DEF Init, Prefix
<1>2. stack \in Seq(0 .. MaxArgc)
  BY <1>1, PrefixSeq
<1>3. args = Above(numParams - 1)
  BY DEF Init, Above, NullArg
<1>4. QED
  BY <1>1, <1>2, <1>3, SizeTBitsAssumption DEF Init, IInv, TypeOK, minArgs

(* A step that keeps the inputs keeps everything derived from them.        *)
LEMMA InputsStable ==
  ASSUME UNCHANGED Inputs
  PROVE  /\ isVarArgs' = isVarArgs /\ numParams' = numParams /\ argc' = argc
         /\ minArgs' = minArgs /\ Expected' = Expected
         /\ \A n \in Int : Above(n)' = Above(n)
BY DEF Inputs, minArgs, Expected, Binding!ExpectedArgs, Binding!minArgs, Binding!Positions,
   Above, NullArg, Binding!NullArg

(* The binding's entry for a fixed parameter.                              *)
LEMMA ExpectedFixed ==
  ASSUME isVarArgs \in BOOLEAN, numParams \in Nat, argc \in Nat,
         NEW k \in 0 .. (minArgs - 1)
  PROVE  Expected[k] = IF k < argc THEN Binding!ValueArg(k) ELSE NullArg
BY DEF Expected, Binding!ExpectedArgs, Binding!minArgs, minArgs, NullArg

(* Filling parameter n of Above(n) with what the binding expects there.    *)
LEMMA AboveStep ==
  ASSUME numParams \in Nat, NEW n \in 0 .. numParams - 1
  PROVE  [Above(n) EXCEPT ![n] = Expected[n]] = Above(n - 1)
<1> DEFINE P == [Above(n) EXCEPT ![n] = Expected[n]]
           S == {Expected[k] : k \in 0 .. numParams - 1} \cup {NullArg}
<1>1. \A k \in 0 .. numParams - 1 : P[k] = Above(n - 1)[k]
  BY DEF Above
<1>2. P \in [0 .. numParams - 1 -> S] /\ Above(n - 1) \in [0 .. numParams - 1 -> S]
  BY DEF Above
<1>3. QED
  BY <1>1, <1>2, Zenon

LEMMA NextIInv == IInv /\ [Next]_vars => IInv'
<1> SUFFICES ASSUME IInv, [Next]_vars PROVE IInv'
  OBVIOUS
<1>0. /\ isVarArgs \in BOOLEAN /\ numParams \in 0 .. MaxParams /\ argc \in 0 .. MaxArgc
      /\ i \in -1 .. MaxParams /\ stack \in Seq(0 .. MaxArgc)
      /\ DOMAIN args = 0 .. numParams - 1
      /\ varArgCountPassed \in -1 .. (2 ^ SizeTBits - 1)
      /\ isVarArgs => numParams >= 1
      /\ minArgs \in 0 .. numParams
  BY DEF IInv, TypeOK, minArgs
<1>1. CASE CheckArgCount
  <2>1. /\ UNCHANGED Inputs /\ pc = "start"
        /\ UNCHANGED << i, stack, args, varArgCountPassed >>
    BY <1>1 DEF CheckArgCount
  <2>2. /\ isVarArgs' = isVarArgs /\ numParams' = numParams /\ argc' = argc
        /\ minArgs' = minArgs /\ Expected' = Expected /\ \A n \in Int : Above(n)' = Above(n)
    BY <2>1, InputsStable
  <2>3. i = minArgs - 1 /\ stack = Prefix(argc) /\ args = Above(numParams - 1)
    BY <2>1 DEF IInv
  <2>4. TypeOK'
    BY <1>1, <2>1, <2>2, <1>0 DEF CheckArgCount, TypeOK, Done
  <2>5. CASE ~isVarArgs /\ argc > minArgs
    <3>1. pc' = "tooMany"
      BY <1>1, <2>5, Zenon DEF CheckArgCount
    <3>2. QED
      BY <2>1, <2>2, <2>4, <3>1, <1>0 DEF IInv
  <2>6. CASE isVarArgs
    <3>1. pc' = "popVarArgs"
      BY <1>1, <2>6, Zenon DEF CheckArgCount
    <3>2. QED
      BY <2>1, <2>2, <2>3, <2>4, <2>6, <3>1, <1>0 DEF IInv
  <2>7. CASE ~isVarArgs /\ argc <= minArgs
    <3>0. ~(~isVarArgs /\ argc > minArgs) /\ ~isVarArgs
      BY <2>7, <1>0
    <3>1. pc' = "args"
      BY <1>1, <3>0, Zenon DEF CheckArgCount
    <3>2. minArgs = numParams /\ i + 1 = numParams
      BY <2>3, <2>7, <1>0 DEF minArgs
    <3>3. SmallerOf(argc, i + 1) = argc
      BY <3>2, <2>7, <1>0 DEF SmallerOf
    <3>4. i' \in -1 .. minArgs' - 1 /\ stack' = Prefix(SmallerOf(argc', i' + 1))
          /\ args' = Above(i')
      BY <2>1, <2>2, <2>3, <3>2, <3>3, <1>0
    <3>5. QED
      BY <2>2, <2>4, <2>7, <3>1, <3>4, <1>0 DEF IInv
  <2>8. QED
    BY <2>5, <2>6, <2>7, <1>0
<1>2. CASE PopVarArgs
  <2> DEFINE n == SizeT(argc - minArgs)
  <2>1. /\ UNCHANGED Inputs /\ i' = i /\ pc = "popVarArgs" /\ varArgCountPassed' = n
        /\ \/ /\ n <= Len(stack)
              /\ args' = [args EXCEPT ![numParams - 1] =
                            Binding!ArrayArg(SubSeq(stack, Len(stack) - n + 1, Len(stack)))]
              /\ stack' = SubSeq(stack, 1, Len(stack) - n)
              /\ pc' = "args"
           \/ /\ pc' = "argError"
              /\ UNCHANGED << stack, args >>
    BY <1>2 DEF PopVarArgs
  <2>2. /\ isVarArgs' = isVarArgs /\ numParams' = numParams /\ argc' = argc
        /\ minArgs' = minArgs /\ Expected' = Expected /\ \A k \in Int : Above(k)' = Above(k)
    BY <2>1, InputsStable
  <2>3. /\ i = minArgs - 1 /\ stack = Prefix(argc) /\ args = Above(numParams - 1)
        /\ isVarArgs /\ Len(stack) = argc
    BY <2>1, <1>0, PrefixSeq DEF IInv
  <2>4. minArgs = numParams - 1 /\ numParams >= 1
    BY <2>3, <1>0 DEF minArgs
  <2>5. /\ n \in 0 .. (2 ^ SizeTBits - 1)
        /\ argc >= minArgs => n = argc - minArgs
        /\ argc < minArgs => n > argc
    <3>1. argc \in 0 .. MaxArgc /\ minArgs \in 0 .. MaxParams
      BY <1>0
    <3>2. QED
      BY <3>1, VarArgCount, Zenon
  <2>6. varArgCountPassed' \in -1 .. (2 ^ SizeTBits - 1)
    BY <2>1, <2>5
  <2>7. CASE pc' = "argError"
    <3>1. UNCHANGED << stack, args >>
      BY <2>1, <2>7
    <3>2. QED
      BY <2>1, <2>2, <2>3, <2>6, <2>7, <3>1, <1>0 DEF IInv, TypeOK, Done
  <2>8. CASE pc' = "args"
    <3>1. /\ n <= Len(stack)
          /\ args' = [args EXCEPT ![numParams - 1] =
                        Binding!ArrayArg(SubSeq(stack, Len(stack) - n + 1, Len(stack)))]
          /\ stack' = SubSeq(stack, 1, Len(stack) - n)
      BY <2>1, <2>8
    <3>2. argc >= minArgs /\ n = argc - minArgs /\ minArgs \in 0 .. argc
      BY <3>1, <2>3, <2>4, <2>5, <1>0
    <3>3. stack' = Prefix(minArgs)
      BY <3>1, <3>2, <2>3, <1>0, PrefixBottom
    <3>4. SubSeq(stack, Len(stack) - n + 1, Len(stack)) = Binding!Positions(minArgs, argc - 1)
      <4>1. argc - (argc - minArgs) = minArgs
        BY <1>0
      <4>2. SubSeq(Prefix(argc), argc - (argc - minArgs) + 1, argc)
              = Binding!Positions(argc - (argc - minArgs), argc - 1)
        BY <3>2, <1>0, PrefixTop
      <4>3. QED
        BY <4>2, <4>1, <3>2, <2>3
    <3>5. Expected[numParams - 1] = Binding!ArrayArg(Binding!Positions(minArgs, argc - 1))
      BY <2>3, <2>4, <1>0 DEF Expected, Binding!ExpectedArgs, Binding!minArgs, minArgs
    <3>6. args' = Above(i)
      <4>1. args' = [Above(numParams - 1) EXCEPT ![numParams - 1] = Expected[numParams - 1]]
        BY <3>1, <3>4, <3>5, <2>3, Zenon
      <4>2. QED
        BY <4>1, <2>3, <2>4, <1>0, AboveStep
    <3>7. SmallerOf(argc, i + 1) = minArgs
      BY <2>3, <3>2 DEF SmallerOf
    <3>8. stack' \in Seq(0 .. MaxArgc)
      BY <3>3, <3>2, <1>0, PrefixSeq
    <3>9. QED
      BY <2>1, <2>2, <2>3, <2>4, <2>6, <2>8, <3>3, <3>6, <3>7, <3>8, <1>0
         DEF IInv, TypeOK
  <2>9. QED
    BY <2>1, <2>7, <2>8
<1>3. CASE PopArg
  <2>1. /\ UNCHANGED Inputs /\ UNCHANGED varArgCountPassed /\ pc = "args" /\ i >= 0
    BY <1>3 DEF PopArg
  <2>2. /\ isVarArgs' = isVarArgs /\ numParams' = numParams /\ argc' = argc
        /\ minArgs' = minArgs /\ Expected' = Expected /\ \A k \in Int : Above(k)' = Above(k)
    BY <2>1, InputsStable
  <2>3. /\ i \in 0 .. minArgs - 1 /\ stack = Prefix(SmallerOf(argc, i + 1))
        /\ args = Above(i) /\ (isVarArgs \/ argc <= minArgs)
    BY <2>1 DEF IInv
  <2>4. Expected[i] = IF i < argc THEN Binding!ValueArg(i) ELSE NullArg
    BY <2>3, <1>0, ExpectedFixed
  <2>5. [Above(i) EXCEPT ![i] = Expected[i]] = Above(i - 1)
    <3>1. numParams \in Nat /\ i \in 0 .. numParams - 1
      BY <2>3, <1>0
    <3>2. QED
      BY <3>1, AboveStep, Zenon
  <2>6. CASE i >= argc /\ args' = [args EXCEPT ![i] = Binding!NullArg]
             /\ UNCHANGED << stack, pc >> /\ i' = i - 1
    <3>a. ~(i < argc)
      BY <2>6, <1>0
    <3>b. Expected[i] = Binding!NullArg
      BY <2>4, <3>a, Zenon DEF NullArg
    <3>1. args' = Above(i')
      BY <2>3, <2>5, <2>6, <3>b, Zenon
    <3>2. stack' = Prefix(SmallerOf(argc', i' + 1))
      BY <2>2, <2>3, <2>6, <1>0 DEF SmallerOf
    <3>c. Above(i)' = Above(i') /\ i' \in -1 .. minArgs' - 1
      BY <2>2, <2>3, <2>6, <1>0
    <3>d. TypeOK'
      BY <2>1, <2>2, <2>3, <2>6, <3>1, <1>0 DEF TypeOK, Above
    <3>3. QED
      BY <2>1, <2>2, <2>3, <2>6, <3>1, <3>2, <3>c, <3>d, <1>0 DEF IInv
  <2>7. CASE i < argc /\ args' = [args EXCEPT ![i] = Binding!ValueArg(stack[Len(stack)])]
             /\ stack' = SubSeq(stack, 1, Len(stack) - 1) /\ i' = i - 1 /\ UNCHANGED pc
    <3>1. stack = Prefix(i + 1) /\ Len(stack) = i + 1 /\ stack[Len(stack)] = i
      BY <2>3, <2>7, <1>0, PrefixSeq DEF SmallerOf, Prefix
    <3>a. Expected[i] = Binding!ValueArg(stack[Len(stack)])
      BY <2>4, <2>7, <3>1, Zenon
    <3>2. args' = Above(i')
      BY <2>3, <2>5, <2>7, <3>a, Zenon
    <3>3. stack' = Prefix(i) /\ stack' \in Seq(0 .. MaxArgc)
      <4>1. i + 1 \in 0 .. MaxArgc /\ i \in 0 .. i + 1 /\ i \in 0 .. MaxArgc /\ Len(stack) - 1 = i
        BY <3>1, <2>3, <2>7, <1>0
      <4>2. SubSeq(Prefix(i + 1), 1, i) = Prefix(i)
        BY <4>1, PrefixBottom, Zenon
      <4>3. Prefix(i) \in Seq(0 .. MaxArgc)
        BY <4>1, PrefixSeq, Zenon
      <4>4. QED
        BY <4>1, <4>2, <4>3, <3>1, <2>7, Zenon
    <3>4. SmallerOf(argc', i' + 1) = i
      BY <2>2, <2>3, <2>7, <1>0 DEF SmallerOf
    <3>c. Above(i)' = Above(i') /\ i' \in -1 .. minArgs' - 1
      BY <2>2, <2>3, <2>7, <1>0
    <3>d. TypeOK'
      BY <2>1, <2>2, <2>3, <2>7, <3>2, <3>3, <1>0 DEF TypeOK, Above
    <3>5. QED
      <4>1. stack' = Prefix(SmallerOf(argc', i' + 1))
        BY <3>3, <3>4
      <4>2. pc' = "args"
        BY <2>1, <2>7
      <4>3. isVarArgs' => numParams' >= 1
        BY <2>2, <1>0
      <4>4. isVarArgs' \/ argc' <= minArgs'
        BY <2>2, <2>3
      <4>5. args' = Above(i)'
        BY <3>2, <3>c
      <4>6. QED
        BY <3>d, <4>1, <4>2, <4>3, <4>4, <4>5, <3>c DEF IInv
  <2>8. CASE i < argc /\ pc' = "argError" /\ UNCHANGED << i, stack, args >>
    BY <2>1, <2>2, <2>3, <2>8, <1>0 DEF IInv, TypeOK, Done
  <2>9. QED
    BY <1>3, <2>6, <2>7, <2>8 DEF PopArg
<1>4. CASE ArgsPopped
  <2>1. /\ UNCHANGED Inputs /\ UNCHANGED << i, stack, args, varArgCountPassed >>
        /\ pc = "args" /\ i < 0 /\ pc' = "body"
    BY <1>4 DEF ArgsPopped
  <2>2. /\ isVarArgs' = isVarArgs /\ numParams' = numParams /\ argc' = argc
        /\ minArgs' = minArgs /\ Expected' = Expected
    BY <2>1, InputsStable
  <2>3. i = -1 /\ args = Above(-1) /\ (isVarArgs \/ argc <= minArgs)
    BY <2>1 DEF IInv
  <2>4. Above(-1) = Expected
    BY <1>0 DEF Above, Expected, Binding!ExpectedArgs
  <2>5. QED
    BY <2>1, <2>2, <2>3, <2>4, <1>0 DEF IInv, TypeOK, Done
<1>5. CASE MethodBody
  <2>1. /\ UNCHANGED Inputs /\ UNCHANGED << i, stack, args, varArgCountPassed >>
        /\ pc = "body" /\ pc' \in {"returned", "javaError", "resultError"}
    BY <1>5 DEF MethodBody
  <2>2. /\ isVarArgs' = isVarArgs /\ numParams' = numParams /\ argc' = argc
        /\ minArgs' = minArgs /\ Expected' = Expected
    BY <2>1, InputsStable
  <2>3. QED
    BY <2>1, <2>2, <1>0 DEF IInv, TypeOK, Done
<1>6. CASE UNCHANGED vars
  <2>1. UNCHANGED Inputs /\ UNCHANGED << pc, i, stack, args, varArgCountPassed >>
    BY <1>6 DEF vars, Inputs
  <2>2. /\ isVarArgs' = isVarArgs /\ numParams' = numParams /\ argc' = argc
        /\ minArgs' = minArgs /\ Expected' = Expected /\ \A k \in Int : Above(k)' = Above(k)
    BY <2>1, InputsStable
  <2>3. QED
    BY <2>1, <2>2, <1>0 DEF IInv, TypeOK
<1>7. QED
  BY <1>1, <1>2, <1>3, <1>4, <1>5, <1>6 DEF Next

-----------------------------------------------------------------------------
(* The refinement                                                          *)

AbsVars == << isVarArgs, numParams, argc, status, bound >>

(* Where the mapping puts a program counter.                               *)
LEMMA StatusOf ==
  /\ pc \in {"start", "popVarArgs", "args"} => status = "calling" /\ bound = << >>
  /\ pc = "tooMany" => status = "rejected" /\ bound = << >>
  /\ pc = "argError" => status = "failed" /\ bound = << >>
  /\ pc = "body" => status = "invoked" /\ bound = args
  /\ pc = "returned" => status = "returned" /\ bound = args
  /\ pc \in {"javaError", "resultError"} => status = "threw" /\ bound = args
BY DEF status, bound

(* Every step of JavaMethodDuk is a step of JavaMethodBinding under the    *)
(* mapping, or leaves the mapped state alone.                              *)
LEMMA NextRefines == IInv /\ [Next]_vars => [Binding!Next]_AbsVars
<1> SUFFICES ASSUME IInv, [Next]_vars PROVE [Binding!Next]_AbsVars
  OBVIOUS
<1>0. /\ isVarArgs \in BOOLEAN /\ numParams \in 0 .. MaxParams /\ argc \in 0 .. MaxArgc
      /\ Binding!minArgs = minArgs
  BY DEF IInv, TypeOK, Binding!minArgs, minArgs
<1>a. StatusOf /\ StatusOf'
  BY StatusOf, PTL
<1>1. CASE CheckArgCount
  <2>1. UNCHANGED << isVarArgs, numParams, argc, args >> /\ pc = "start"
    BY <1>1 DEF CheckArgCount, Inputs
  <2>2. CASE ~isVarArgs /\ argc > minArgs
    <3>1. pc' = "tooMany"
      BY <1>1, <2>2, Zenon DEF CheckArgCount
    <3>2. Binding!Reject
      BY <1>0, <1>a, <2>1, <2>2, <3>1 DEF Binding!Reject
    <3>3. QED
      BY <3>2 DEF Binding!Next
  <2>3. CASE ~(~isVarArgs /\ argc > minArgs)
    <3>1. pc' \in {"popVarArgs", "args"}
      BY <1>1, <2>3, Zenon DEF CheckArgCount
    <3>2. QED
      BY <1>a, <2>1, <3>1 DEF AbsVars
  <2>4. QED
    BY <2>2, <2>3
<1>2. CASE PopVarArgs
  <2>1. UNCHANGED << isVarArgs, numParams, argc >> /\ pc = "popVarArgs"
        /\ pc' \in {"args", "argError"} /\ isVarArgs
    BY <1>2 DEF PopVarArgs, Inputs, IInv
  <2>2. CASE pc' = "args"
    BY <1>a, <2>1, <2>2 DEF AbsVars
  <2>3. CASE pc' = "argError"
    <3>1. Binding!Fail
      BY <1>0, <1>a, <2>1, <2>3 DEF Binding!Fail
    <3>2. QED
      BY <3>1 DEF Binding!Next
  <2>4. QED
    BY <2>1, <2>2, <2>3
<1>3. CASE PopArg
  <2>1. UNCHANGED << isVarArgs, numParams, argc >> /\ pc = "args"
        /\ pc' \in {"args", "argError"}
    BY <1>3 DEF PopArg, Inputs
  <2>2. CASE pc' = "args"
    BY <1>a, <2>1, <2>2 DEF AbsVars
  <2>3. CASE pc' = "argError"
    <3>1. isVarArgs \/ argc <= minArgs
      BY <2>1 DEF IInv
    <3>2. Binding!Fail
      BY <1>0, <1>a, <2>1, <2>3, <3>1 DEF Binding!Fail
    <3>3. QED
      BY <3>2 DEF Binding!Next
  <2>4. QED
    BY <2>1, <2>2, <2>3
<1>4. CASE ArgsPopped
  <2>1. UNCHANGED << isVarArgs, numParams, argc, args >> /\ pc = "args" /\ pc' = "body"
    BY <1>4 DEF ArgsPopped, Inputs
  <2>2. args' = Expected /\ (isVarArgs \/ argc <= minArgs)
    <3>1. IInv'
      BY <1>4, NextIInv
    <3>2. Expected' = Expected
      BY <2>1 DEF Expected, Binding!ExpectedArgs, Binding!minArgs, Binding!Positions
    <3>3. QED
      BY <2>1, <3>1, <3>2 DEF IInv
  <2>3. Binding!Invoke
    BY <1>0, <1>a, <2>1, <2>2 DEF Binding!Invoke, Expected
  <2>4. QED
    BY <2>3 DEF Binding!Next
<1>5. CASE MethodBody
  <2>1. UNCHANGED << isVarArgs, numParams, argc, args >> /\ pc = "body"
        /\ pc' \in {"returned", "javaError", "resultError"}
    BY <1>5 DEF MethodBody, Inputs
  <2>2. Binding!Complete
    BY <1>a, <2>1 DEF Binding!Complete
  <2>3. QED
    BY <2>2 DEF Binding!Next
<1>6. CASE UNCHANGED vars
  BY <1>6 DEF vars, AbsVars, status, bound
<1>7. QED
  BY <1>1, <1>2, <1>3, <1>4, <1>5, <1>6 DEF Next

(* The initial states of the call map to initial states of the binding.   *)
LEMMA InitRefines == Init => Binding!Init
BY DEF Init, Binding!Init, status, bound

(* Type correctness of the Duktape JavaMethod::invoke, for every bound and *)
(* every size_t width that holds the argument counts.                      *)
THEOREM TypeCorrect == Spec => []TypeOK
<1>1. IInv => TypeOK
  BY DEF IInv
<1>2. QED
  BY InitIInv, NextIInv, <1>1, PTL DEF Spec

(* JavaMethod::invoke on Duktape binds the script's arguments as the       *)
(* binding promises: popping the vararg tail with popArray and then the    *)
(* fixed arguments from the last one down puts JS argument k in parameter *)
(* k, null in those the script left out and the trailing arguments, in    *)
(* order, in the collector; a variadic call with too few arguments, whose *)
(* size_t count wraps, ends as a failed conversion.                        *)
THEOREM Implementation == Spec => BindingRefinement
<1>1. Spec => []IInv
  BY InitIInv, NextIInv, PTL DEF Spec
<1>2. QED
  BY <1>1, InitRefines, NextRefines, PTL DEF Spec, BindingRefinement, Binding!Spec, AbsVars

=============================================================================
