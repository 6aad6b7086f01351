---------------------- MODULE JavaScriptMethodDukProofs ----------------------
(***************************************************************************)
(* Proofs about JavaScriptMethodDuk for every value of MaxJavaArgs and     *)
(* MaxVarArgs: the Duktape stack discipline of JavaScriptMethod::invoke    *)
(* (the stack is back at its entry height on every exit, and duk_pcall     *)
(* sees exactly the callee and the JS arguments in order).                 *)
(*                                                                         *)
(* Neither property is inductive: they speak of the exits and of the call, *)
(* not of the pushes before them.  IInv strengthens them by giving the     *)
(* stack in every state: while pushing, the callee and the first i         *)
(* arguments (Frame(i)); at the call, the callee and all NumJsArgs         *)
(* arguments; after the call, the one result or error; at an exit,         *)
(* nothing.                                                                *)
(***************************************************************************)
EXTENDS JavaScriptMethodDuk, SequenceTheorems, TLAPS

(* The number of JS arguments the call passes: the fixed Java arguments    *)
(* and, for a vararg method, the elements instead of the array.            *)
NumJsArgs ==
  IF isVarArgs THEN numJavaArguments - 1 + varArgCount ELSE numJavaArguments

(* The b entries of the callee (the function, or the object and the key),  *)
(* then the JS values of argument positions 0 .. k-1.                      *)
Frame(b, k) ==
  [j \in 1 .. b + k |-> IF j = 1 THEN Target ELSE IF j <= b THEN Key ELSE Arg(j - b - 1)]

IInv ==
  /\ TypeOK
  /\ isVarArgs => numJavaArguments >= 1
  /\ ~isVarArgs => varArgCount = 0
  /\ pc = "push" =>
       /\ numArguments = numJavaArguments
       /\ i <= numArguments
       /\ isVarArgs => i <= numArguments - 1
       /\ stack = Frame(Base, i)
  /\ pc = "call" => numArguments = NumJsArgs /\ stack = Frame(Base, NumJsArgs)
  /\ pc \in {"result", "error"} => Len(stack) = 1
  /\ pc \in Done => stack = << >>

-----------------------------------------------------------------------------
(* Lemmas about Frame                                                      *)

(* Every entry a frame or a vararg spread can hold, without a bound on the *)
(* position.                                                               *)
AnyEntry == {Target, Key} \cup {Arg(p) : p \in Nat}

(* A frame is a sequence of Base + k entries.                              *)
LEMMA FrameSeq ==
  ASSUME NEW b \in {1, 2}, NEW k \in Nat
  PROVE  /\ Frame(b, k) \in Seq(AnyEntry)
         /\ Len(Frame(b, k)) = b + k
<1>1. b \in {1, 2}
  OBVIOUS
<1>2. Frame(b, k) \in [1 .. b + k -> AnyEntry]
  BY <1>1 DEF Frame, AnyEntry
<1>3. QED
  BY <1>1, <1>2, SeqDef

(* A bounded frame is a stack of the entries TypeOK allows.                *)
LEMMA FrameType ==
  ASSUME NEW b \in {1, 2}, NEW k \in 0 .. (MaxJavaArgs + MaxVarArgs)
  PROVE  Frame(b, k) \in Seq(StackEntry)
<1>1. b \in {1, 2}
  OBVIOUS
<1>2. Frame(b, k) \in [1 .. b + k -> StackEntry]
  BY <1>1, MaxJavaArgsAssumption, MaxVarArgsAssumption DEF Frame, StackEntry, Target, Key, Arg
<1>3. QED
  BY <1>1, <1>2, SeqDef

(* A function on 1 .. n is a sequence.                                     *)
LEMMA FunIsSeq ==
  ASSUME NEW S, NEW n \in Nat, NEW f \in [1 .. n -> S]
  PROVE  f \in Seq(S) /\ Len(f) = n
<1>1. f \in Seq(S)
  BY SeqDef, Zenon
<1>2. QED
  BY <1>1, LenProperties

(* Pushing the value of the next position extends the frame by one.        *)
LEMMA FrameAppend ==
  ASSUME NEW b \in {1, 2}, NEW k \in Nat
  PROVE  Append(Frame(b, k), Arg(k)) = Frame(b, k + 1)
<1> DEFINE F == Frame(b, k)
           G == Frame(b, k + 1)
<1>1. b \in {1, 2}
  OBVIOUS
<1>2. F \in Seq(AnyEntry) /\ Len(F) = b + k
  BY FrameSeq
<1>3. G \in Seq(AnyEntry) /\ Len(G) = b + k + 1
  <2>1. k + 1 \in Nat
    OBVIOUS
  <2>2. G \in Seq(AnyEntry) /\ Len(G) = b + (k + 1)
    BY <2>1, FrameSeq
  <2>3. QED
    BY <1>1, <2>2
<1>4. Arg(k) \in AnyEntry
  BY DEF AnyEntry
<1>5. /\ Append(F, Arg(k)) \in Seq(AnyEntry)
      /\ Len(Append(F, Arg(k))) = Len(F) + 1
      /\ \A j \in 1 .. Len(F) : Append(F, Arg(k))[j] = F[j]
      /\ Append(F, Arg(k))[Len(F) + 1] = Arg(k)
  BY <1>2, <1>4, AppendProperties
<1>6. \A p \in 1 .. Len(Append(F, Arg(k))) : Append(F, Arg(k))[p] = G[p]
  <2> SUFFICES ASSUME NEW p \in 1 .. Len(Append(F, Arg(k)))
               PROVE  Append(F, Arg(k))[p] = G[p]
    BY Zenon
  <2>0. p \in 1 .. b + k + 1
    BY <1>1, <1>2, <1>5
  <2>1. CASE p <= b + k
    <3>1. Append(F, Arg(k))[p] = F[p]
      BY <1>1, <1>2, <1>5, <2>0, <2>1
    <3>2. F[p] = G[p]
      BY <1>1, <2>0, <2>1 DEF Frame
    <3>3. QED
      BY <3>1, <3>2
  <2>2. CASE ~(p <= b + k)
    <3>1. p = Len(F) + 1
      BY <1>1, <1>2, <2>0, <2>2
    <3>2. G[p] = Arg(k)
      BY <1>1, <2>0, <2>2 DEF Frame
    <3>3. QED
      BY <1>5, <3>1, <3>2
  <2>3. QED
    BY <2>1, <2>2
<1>7. Len(Append(F, Arg(k))) = Len(G)
  BY <1>1, <1>2, <1>3, <1>5
<1>8. QED
  BY <1>3, <1>5, <1>6, <1>7, SeqEqual, Zenon

(* Spreading v vararg elements after position k - 1 gives the frame of    *)
(* k + v arguments.                                                        *)
LEMMA FrameConcat ==
  ASSUME NEW b \in {1, 2}, NEW k \in Nat, NEW v \in Nat
  PROVE  Frame(b, k) \o [j \in 1 .. v |-> Arg(k + j - 1)] = Frame(b, k + v)
<1> DEFINE F == Frame(b, k)
           V == [j \in 1 .. v |-> Arg(k + j - 1)]
           G == Frame(b, k + v)
<1>1. b \in {1, 2}
  OBVIOUS
<1>2. F \in Seq(AnyEntry) /\ Len(F) = b + k
  BY FrameSeq
<1>3. G \in Seq(AnyEntry) /\ Len(G) = b + k + v
  <2>1. k + v \in Nat
    OBVIOUS
  <2>2. G \in Seq(AnyEntry) /\ Len(G) = b + (k + v)
    BY <2>1, FrameSeq, Zenon
  <2>3. QED
    BY <1>1, <2>2
<1>4. V \in Seq(AnyEntry) /\ Len(V) = v
  <2>1. V \in [1 .. v -> AnyEntry]
    BY DEF AnyEntry
  <2>2. QED
    BY <2>1, FunIsSeq, Zenon
<1>5. /\ F \o V \in Seq(AnyEntry)
      /\ Len(F \o V) = Len(F) + Len(V)
      /\ \A j \in 1 .. Len(F) + Len(V) :
           (F \o V)[j] = IF j <= Len(F) THEN F[j] ELSE V[j - Len(F)]
  BY <1>2, <1>4, ConcatProperties, Zenon
<1>6. \A p \in 1 .. Len(F \o V) : (F \o V)[p] = G[p]
  <2> SUFFICES ASSUME NEW p \in 1 .. Len(F \o V) PROVE (F \o V)[p] = G[p]
    BY Zenon
  <2>0. p \in 1 .. b + k + v
    BY <1>1, <1>2, <1>4, <1>5
  <2>1. CASE p <= b + k
    BY <1>1, <1>2, <1>4, <1>5, <2>0, <2>1 DEF Frame
  <2>2. CASE ~(p <= b + k)
    <3>0. p - (b + k) \in 1 .. v /\ p \in 1 .. Len(F) + Len(V) /\ ~(p <= Len(F))
      BY <1>1, <1>2, <1>4, <2>0, <2>2
    <3>1. (F \o V)[p] = V[p - Len(F)]
      BY <1>5, <3>0
    <3>2. V[p - (b + k)] = Arg(k + (p - (b + k)) - 1)
      BY <3>0
    <3>3. G[p] = Arg(p - b - 1)
      BY <1>1, <2>0, <2>2 DEF Frame
    <3>4. p - Len(F) = p - (b + k) /\ k + (p - (b + k)) - 1 = p - b - 1
      BY <1>1, <1>2, <2>0
    <3>5. QED
      BY <3>1, <3>2, <3>3, <3>4
  <2>3. QED
    BY <2>1, <2>2
<1>7. Len(F \o V) = Len(G)
  BY <1>1, <1>2, <1>3, <1>4, <1>5
<1>8. QED
  BY <1>3, <1>5, <1>6, <1>7, SeqEqual, Zenon

(* Popping the callee and the k arguments leaves nothing.                  *)
LEMMA FrameDrop ==
  ASSUME NEW b \in {1, 2}, NEW k \in Nat
  PROVE  SubSeq(Frame(b, k), 1, Len(Frame(b, k)) - (b + k)) = << >>
<1>1. Len(Frame(b, k)) - (b + k) = 0
  BY FrameSeq
<1>2. QED
  BY <1>1, SubSeqEmpty

(* What duk_pcall leaves below the callee: nothing for a function, the     *)
(* object for a method.                                                    *)
LEMMA FrameBelowArgs ==
  ASSUME NEW b \in {1, 2}, NEW k \in Nat
  PROVE  SubSeq(Frame(b, k), 1, Len(Frame(b, k)) - k - 1) =
           IF b = 1 THEN << >> ELSE << Target >>
<1> DEFINE F == Frame(b, k)
<1>1. F \in Seq(AnyEntry) /\ Len(F) = b + k
  BY FrameSeq
<1>2. CASE b = 1
  <2>1. Len(F) - k - 1 = 0
    BY <1>1, <1>2
  <2>2. SubSeq(F, 1, 0) = << >>
    BY SubSeqEmpty
  <2>3. SubSeq(F, 1, Len(F) - k - 1) = << >>
    BY <2>1, <2>2
  <2>4. QED
    BY <1>2, <2>3, Zenon
<1>3. CASE b = 2
  <2>1. Len(F) - k - 1 = 1
    BY <1>1, <1>3
  <2>2. \A j \in 1 .. 1 : F[j] \in AnyEntry
    BY <1>1, <2>1, ElementOfSeq
  <2>3. /\ SubSeq(F, 1, 1) \in Seq(AnyEntry)
        /\ Len(SubSeq(F, 1, 1)) = 1
        /\ SubSeq(F, 1, 1)[1] = F[1]
    BY <2>2, SubSeqProperties
  <2>4. F[1] = Target
    BY DEF Frame
  <2>5. << Target >> \in Seq(AnyEntry) /\ Len(<< Target >>) = 1 /\ << Target >>[1] = Target
    BY DEF AnyEntry
  <2>6. \A p \in 1 .. Len(SubSeq(F, 1, 1)) : SubSeq(F, 1, 1)[p] = << Target >>[p]
    BY <2>3, <2>4, <2>5
  <2>7. Len(SubSeq(F, 1, 1)) = Len(<< Target >>)
    BY <2>3, <2>5
  <2>8. SubSeq(F, 1, 1) = << Target >>
    BY <2>3, <2>5, <2>6, <2>7, SeqEqual, Zenon
  <2>9. QED
    BY <1>3, <2>1, <2>8
<1>4. QED
  BY <1>2, <1>3, Zenon

-----------------------------------------------------------------------------
(* IInv is inductive                                                       *)

(* Base is 1 for a lambda and 2 for a method, and is kept by a step that    *)
(* keeps isLambda.                                                         *)
LEMMA BaseRange ==
  /\ Base \in {1, 2}
  /\ Base = 1 <=> isLambda
  /\ isLambda' = isLambda => Base' = Base
BY DEF Base

LEMMA InitIInv == Init => IInv
<1> SUFFICES ASSUME Init PROVE IInv
  OBVIOUS
<1> USE MaxJavaArgsAssumption, MaxVarArgsAssumption
<1>1. stack = Frame(Base, 0)
  <2>1. CASE isLambda
    <3>1. Base = 1 /\ stack = << Target >>
      BY <2>1 DEF Init, Base
    <3>2. QED
      BY <3>1 DEF Frame
  <2>2. CASE ~isLambda
    <3>1. Base = 2 /\ stack = << Target, Key >>
      BY <2>2 DEF Init, Base
    <3>2. QED
      BY <3>1 DEF Frame
  <2>3. QED
    BY <2>1, <2>2
<1>2. Frame(Base, 0) \in Seq(StackEntry)
  <2>1. Base \in {1, 2} /\ 0 \in 0 .. (MaxJavaArgs + MaxVarArgs)
    BY BaseRange
  <2>2. QED
    BY <2>1, FrameType, Zenon
<1>3. numJavaArguments \in 0 .. MaxJavaArgs /\ varArgCount \in 0 .. MaxVarArgs
  BY DEF Init
<1>4. TypeOK
  BY <1>1, <1>2, <1>3 DEF Init, TypeOK, Done
<1>5. QED
  BY <1>1, <1>4 DEF Init, IInv, Done

(* Appending to the empty sequence gives a one-element sequence.          *)
LEMMA AppendEmpty ==
  ASSUME NEW x
  PROVE  Append(<< >>, x) = << x >>
OBVIOUS

(* The catch of a failed push (lines 128-132) empties what the call        *)
(* pushed.                                                                 *)
LEMMA PushFailure ==
  ASSUME IInv, pc = "push"
  PROVE  SubSeq(stack, 1, Len(stack) - (Base + i)) = << >>
<1>1. Base \in {1, 2} /\ i \in Nat /\ stack = Frame(Base, i)
  BY BaseRange DEF IInv, TypeOK
<1>2. QED
  BY <1>1, FrameDrop

(* The conjuncts of IInv about the exits and the states after the call    *)
(* hold in every state whose pc is at an exit with an empty stack.         *)
LEMMA ExitIInv ==
  ASSUME TypeOK', pc' \in Done, stack' = << >>,
         isVarArgs' => numJavaArguments' >= 1, ~isVarArgs' => varArgCount' = 0
  PROVE  IInv'
BY DEF IInv, Done

(* A step that leaves the inputs alone leaves each of them alone.          *)
LEMMA InputsSame ==
  ASSUME UNCHANGED Inputs
  PROVE  /\ isLambda' = isLambda /\ isVarArgs' = isVarArgs
         /\ numJavaArguments' = numJavaArguments /\ varArgCount' = varArgCount
         /\ awaitJsPromise' = awaitJsPromise /\ returnIsDeferred' = returnIsDeferred
BY DEF Inputs

(* The step keeps the inputs, so the conjuncts of IInv about them hold     *)
(* after it, and TypeOK holds when the new pc, i, numArguments, stack and   *)
(* via are in range.                                                       *)
LEMMA KeepInputs ==
  ASSUME IInv, UNCHANGED Inputs,
         pc' \in {"push", "call", "result", "error"} \cup Done,
         i' \in 0 .. MaxJavaArgs,
         numArguments' \in 0 .. (MaxJavaArgs + MaxVarArgs),
         stack' \in Seq(StackEntry),
         via' \in {"none", "plain", "deferred"}
  PROVE  /\ TypeOK'
         /\ isVarArgs' => numJavaArguments' >= 1
         /\ ~isVarArgs' => varArgCount' = 0
         /\ NumJsArgs' = NumJsArgs
<1>1. /\ isLambda' = isLambda /\ isVarArgs' = isVarArgs
      /\ numJavaArguments' = numJavaArguments /\ varArgCount' = varArgCount
      /\ awaitJsPromise' = awaitJsPromise /\ returnIsDeferred' = returnIsDeferred
  BY InputsSame
<1>2. QED
  BY <1>1 DEF IInv, TypeOK, NumJsArgs

LEMMA NextIInv == IInv /\ [Next]_vars => IInv'
<1> SUFFICES ASSUME IInv, [Next]_vars PROVE IInv'
  OBVIOUS
<1> USE MaxJavaArgsAssumption, MaxVarArgsAssumption
<1>0. /\ Base \in {1, 2} /\ i \in Nat /\ numArguments \in Nat
      /\ numArguments \in 0 .. (MaxJavaArgs + MaxVarArgs) /\ i \in 0 .. MaxJavaArgs
  BY BaseRange DEF IInv, TypeOK
<1>1. CASE PushArg
  <2>0. /\ pc = "push" /\ i < numArguments /\ ~(isVarArgs /\ i = numArguments - 1)
        /\ UNCHANGED Inputs /\ numArguments' = numArguments /\ via' = via
    BY <1>1 DEF PushArg
  <2>s. Base' = Base /\ isVarArgs' = isVarArgs
    BY <2>0, InputsSame, BaseRange
  <2>p. numArguments = numJavaArguments /\ stack = Frame(Base, i)
        /\ (isVarArgs => i <= numArguments - 1)
    BY <2>0 DEF IInv
  <2>1. CASE stack' = Append(stack, Arg(i)) /\ i' = i + 1 /\ pc' = pc
    <3>1. stack' = Frame(Base', i')
      <4>1. Append(Frame(Base, i), Arg(i)) = Frame(Base, i + 1)
        BY <1>0, FrameAppend, Zenon
      <4>2. QED
        BY <2>1, <2>p, <2>s, <4>1
    <3>2. /\ i' \in 0 .. MaxJavaArgs /\ i' <= numArguments'
          /\ (isVarArgs' => i' <= numArguments' - 1)
      BY <1>0, <2>0, <2>1, <2>s, <2>p DEF IInv, TypeOK
    <3>3. stack' \in Seq(StackEntry)
      BY <1>0, <2>s, <3>1, <3>2, FrameType
    <3>4. via' \in {"none", "plain", "deferred"} /\ numArguments' \in 0 .. (MaxJavaArgs + MaxVarArgs)
      BY <1>0, <2>0 DEF IInv, TypeOK
    <3>5. /\ TypeOK'
          /\ isVarArgs' => numJavaArguments' >= 1
          /\ ~isVarArgs' => varArgCount' = 0
      BY <2>0, <2>1, <3>2, <3>3, <3>4, KeepInputs
    <3>6. numArguments' = numJavaArguments'
      BY <2>0, <2>p, InputsSame
    <3>7. QED
      BY <2>0, <2>1, <3>1, <3>2, <3>5, <3>6 DEF IInv, Done
  <2>2. CASE stack' = SubSeq(stack, 1, Len(stack) - (Base + i)) /\ pc' = "argError" /\ i' = i
    <3>1. stack' = << >>
      BY <2>0, <2>2, PushFailure
    <3>2. /\ TypeOK'
          /\ isVarArgs' => numJavaArguments' >= 1
          /\ ~isVarArgs' => varArgCount' = 0
      <4>1. << >> \in Seq(StackEntry) /\ "argError" \in Done
        BY DEF Done
      <4>2. via' \in {"none", "plain", "deferred"}
        BY <2>0 DEF IInv, TypeOK
      <4>3. QED
        BY <1>0, <2>0, <2>2, <3>1, <4>1, <4>2, KeepInputs, Zenon
    <3>3. QED
      BY <2>2, <3>1, <3>2 DEF IInv, Done
  <2>3. QED
    BY <1>1, <2>1, <2>2 DEF PushArg

<1>2. CASE PushVarArgs
  <2>0. /\ pc = "push" /\ isVarArgs /\ i = numArguments - 1
        /\ UNCHANGED Inputs /\ i' = i /\ via' = via
    BY <1>2 DEF PushVarArgs
  <2>s. Base' = Base /\ isVarArgs' = isVarArgs
    BY <2>0, InputsSame, BaseRange
  <2>p. numArguments = numJavaArguments /\ stack = Frame(Base, i)
    BY <2>0 DEF IInv
  <2>v. via' \in {"none", "plain", "deferred"}
    BY <2>0 DEF IInv, TypeOK
  <2>1. CASE /\ stack' = stack \o [j \in 1 .. varArgCount |-> Arg(i + j - 1)]
             /\ numArguments' = i + varArgCount /\ pc' = "call"
    <3>1. i + varArgCount = NumJsArgs /\ NumJsArgs \in 0 .. (MaxJavaArgs + MaxVarArgs)
      BY <2>0, <2>p DEF IInv, TypeOK, NumJsArgs
    <3>2. varArgCount \in Nat
      BY DEF IInv, TypeOK
    <3>3. stack' = Frame(Base, NumJsArgs)
      <4>1. Frame(Base, i) \o [j \in 1 .. varArgCount |-> Arg(i + j - 1)]
              = Frame(Base, i + varArgCount)
        BY <1>0, <3>2, FrameConcat, Zenon
      <4>2. QED
        BY <2>1, <2>p, <3>1, <4>1, Zenon
    <3>4. stack' \in Seq(StackEntry)
      BY <1>0, <3>1, <3>3, FrameType
    <3>5. /\ TypeOK'
          /\ isVarArgs' => numJavaArguments' >= 1
          /\ ~isVarArgs' => varArgCount' = 0
          /\ NumJsArgs' = NumJsArgs
      BY <1>0, <2>0, <2>1, <2>v, <3>1, <3>4, KeepInputs
    <3>6. numArguments' = NumJsArgs' /\ stack' = Frame(Base', NumJsArgs')
      BY <2>1, <2>s, <3>1, <3>3, <3>5, Zenon
    <3>7. QED
      BY <2>1, <3>5, <3>6, Zenon DEF IInv, Done
  <2>2. CASE /\ stack' = SubSeq(stack, 1, Len(stack) - (Base + i)) /\ pc' = "argError"
             /\ numArguments' = numArguments
    <3>1. stack' = << >>
      BY <2>0, <2>2, PushFailure
    <3>2. /\ TypeOK'
          /\ isVarArgs' => numJavaArguments' >= 1
          /\ ~isVarArgs' => varArgCount' = 0
      <4>1. << >> \in Seq(StackEntry) /\ "argError" \in Done
        BY DEF Done
      <4>2. QED
        BY <1>0, <2>0, <2>2, <2>v, <3>1, <4>1, KeepInputs, Zenon
    <3>3. QED
      BY <2>2, <3>1, <3>2 DEF IInv, Done
  <2>3. QED
    BY <1>2, <2>1, <2>2, Zenon DEF PushVarArgs
<1>3. CASE ArgsPushed
  <2>0. /\ pc = "push" /\ i >= numArguments /\ pc' = "call"
        /\ UNCHANGED Inputs /\ i' = i /\ numArguments' = numArguments
        /\ stack' = stack /\ via' = via
    BY <1>3 DEF ArgsPushed
  <2>s. Base' = Base
    BY <2>0, InputsSame, BaseRange
  <2>1. ~isVarArgs /\ numArguments = NumJsArgs /\ stack = Frame(Base, NumJsArgs)
    BY <2>0 DEF IInv, TypeOK, NumJsArgs
  <2>2. /\ TypeOK'
        /\ isVarArgs' => numJavaArguments' >= 1
        /\ ~isVarArgs' => varArgCount' = 0
        /\ NumJsArgs' = NumJsArgs
    BY <1>0, <2>0, KeepInputs DEF IInv, TypeOK
  <2>3. QED
    BY <2>0, <2>s, <2>1, <2>2 DEF IInv, Done
<1>4. CASE Call
  <2>0. /\ pc = "call" /\ UNCHANGED Inputs /\ i' = i /\ numArguments' = numArguments
        /\ via' = via
    BY <1>4 DEF Call
  <2>f. stack = Frame(Base, numArguments)
    BY <2>0 DEF IInv
  <2>1. SubSeq(stack, 1, Len(stack) - numArguments - 1) =
          IF Base = 1 THEN << >> ELSE << Target >>
    BY <1>0, <2>f, FrameBelowArgs, Zenon
  <2>2. PICK r \in {"ret", "err"} :
          /\ stack' = IF isLambda
                        THEN Append(SubSeq(stack, 1, Len(stack) - numArguments - 1), << r, 0 >>)
                        ELSE Append(SubSeq(SubSeq(stack, 1, Len(stack) - numArguments - 1), 2,
                                           Len(SubSeq(stack, 1, Len(stack) - numArguments - 1))),
                                    << r, 0 >>)
          /\ pc' = IF r = "ret" THEN "result" ELSE "error"
    BY <1>4, Zenon DEF Call
  <2>3. SubSeq(<< Target >>, 2, 1) = << >>
    BY SubSeqEmpty
  <2>4. stack' = << << r, 0 >> >>
    <3>1. CASE isLambda
      <4>1. Base = 1
        BY <3>1, BaseRange
      <4>2. stack' = Append(<< >>, << r, 0 >>)
        BY <2>1, <2>2, <3>1, <4>1, Zenon
      <4>3. QED
        BY <4>2, AppendEmpty
    <3>2. CASE ~isLambda
      <4>1. Base # 1
        BY <3>2, BaseRange
      <4>2. stack' = Append(SubSeq(<< Target >>, 2, Len(<< Target >>)), << r, 0 >>)
        BY <2>1, <2>2, <3>2, <4>1, Zenon
      <4>3. Len(<< Target >>) = 1
        OBVIOUS
      <4>4. QED
        BY <2>3, <4>2, <4>3, AppendEmpty, Zenon
    <3>3. QED
      BY <3>1, <3>2
  <2>5. stack' \in Seq(StackEntry) /\ Len(stack') = 1
    BY <2>4 DEF StackEntry
  <2>6. pc' \in {"result", "error"} /\ via' \in {"none", "plain", "deferred"}
    BY <2>0, <2>2 DEF IInv, TypeOK
  <2>7. /\ TypeOK'
        /\ isVarArgs' => numJavaArguments' >= 1
        /\ ~isVarArgs' => varArgCount' = 0
    BY <1>0, <2>0, <2>5, <2>6, KeepInputs
  <2>8. QED
    BY <2>5, <2>6, <2>7 DEF IInv, Done
<1>5. CASE Result
  <2>0. /\ pc = "result" /\ stack' = SubSeq(stack, 1, Len(stack) - 1)
        /\ pc' \in {"returned", "resultError"}
        /\ UNCHANGED Inputs /\ i' = i /\ numArguments' = numArguments
        /\ via' \in {"plain", "deferred"}
    BY <1>5 DEF Result
  <2>1. stack' = << >>
    <3>1. Len(stack) - 1 = 0
      BY <2>0 DEF IInv
    <3>2. SubSeq(stack, 1, 0) = << >>
      BY SubSeqEmpty
    <3>3. QED
      BY <2>0, <3>1, <3>2, Zenon
  <2>2. /\ TypeOK'
        /\ isVarArgs' => numJavaArguments' >= 1
        /\ ~isVarArgs' => varArgCount' = 0
    <3>1. << >> \in Seq(StackEntry) /\ pc' \in Done
      BY <2>0 DEF Done
    <3>2. QED
      BY <1>0, <2>0, <2>1, <3>1, KeepInputs, Zenon
  <2>3. QED
    BY <2>0, <2>1, <2>2 DEF IInv, Done
<1>6. CASE RaiseJsError
  <2>0. /\ pc = "error" /\ stack' = SubSeq(stack, 1, Len(stack) - 1) /\ pc' = "jsError"
        /\ UNCHANGED Inputs /\ i' = i /\ numArguments' = numArguments /\ via' = via
    BY <1>6 DEF RaiseJsError
  <2>1. stack' = << >>
    <3>1. Len(stack) - 1 = 0
      BY <2>0 DEF IInv
    <3>2. SubSeq(stack, 1, 0) = << >>
      BY SubSeqEmpty
    <3>3. QED
      BY <2>0, <3>1, <3>2, Zenon
  <2>2. /\ TypeOK'
        /\ isVarArgs' => numJavaArguments' >= 1
        /\ ~isVarArgs' => varArgCount' = 0
    <3>1. << >> \in Seq(StackEntry) /\ pc' \in Done /\ via' \in {"none", "plain", "deferred"}
      BY <2>0 DEF Done, IInv, TypeOK
    <3>2. QED
      BY <1>0, <2>0, <2>1, <3>1, KeepInputs, Zenon
  <2>3. QED
    BY <2>0, <2>1, <2>2 DEF IInv, Done
<1>7. CASE UNCHANGED vars
  <2>1. /\ isLambda' = isLambda /\ isVarArgs' = isVarArgs
        /\ numJavaArguments' = numJavaArguments /\ varArgCount' = varArgCount
        /\ awaitJsPromise' = awaitJsPromise /\ returnIsDeferred' = returnIsDeferred
        /\ pc' = pc /\ i' = i /\ numArguments' = numArguments /\ stack' = stack /\ via' = via
    BY <1>7 DEF vars
  <2>2. Base' = Base
    BY <2>1, BaseRange
  <2>3. QED
    BY <2>1, <2>2 DEF IInv, TypeOK, NumJsArgs
<1>8. QED
  BY <1>1, <1>2, <1>3, <1>4, <1>5, <1>6, <1>7 DEF Next


-----------------------------------------------------------------------------
(* The invariants                                                          *)

(* The frame of n arguments is the callee followed by the JS values of     *)
(* positions 0 .. n-1.                                                     *)
LEMMA FrameIsCallee ==
  ASSUME NEW b \in {1, 2}, NEW n \in Nat
  PROVE  Frame(b, n) =
           (IF b = 1 THEN << Target >> ELSE << Target, Key >>) \o [j \in 1 .. n |-> Arg(j - 1)]
<1>1. Frame(b, 0) = IF b = 1 THEN << Target >> ELSE << Target, Key >>
  <2>1. CASE b = 1
    BY <2>1 DEF Frame
  <2>2. CASE b = 2
    BY <2>2 DEF Frame
  <2>3. QED
    BY <2>1, <2>2
<1>2. Frame(b, 0) \o [j \in 1 .. n |-> Arg(0 + j - 1)] = Frame(b, 0 + n)
  BY FrameConcat, Zenon
<1>3. [j \in 1 .. n |-> Arg(0 + j - 1)] = [j \in 1 .. n |-> Arg(j - 1)] /\ 0 + n = n
  OBVIOUS
<1>4. QED
  BY <1>1, <1>2, <1>3, Zenon

LEMMA IInvProperties == IInv => TypeOK /\ StackBalancedOnExit /\ CallFrameAtCall
<1> SUFFICES ASSUME IInv PROVE TypeOK /\ StackBalancedOnExit /\ CallFrameAtCall
  OBVIOUS
<1>1. StackBalancedOnExit
  BY DEF IInv, StackBalancedOnExit
<1>2. CallFrameAtCall
  <2> SUFFICES ASSUME pc = "call"
               PROVE  /\ stack = (IF isLambda THEN << Target >> ELSE << Target, Key >>)
                                 \o ExpectedJsArgs
                      /\ numArguments = Len(ExpectedJsArgs)
    BY DEF CallFrameAtCall
  <2>1. numArguments = NumJsArgs /\ stack = Frame(Base, NumJsArgs)
    BY DEF IInv
  <2>2. NumJsArgs \in Nat /\ Base \in {1, 2} /\ (Base = 1 <=> isLambda)
    BY <2>1, BaseRange DEF IInv, TypeOK
  <2>3. ExpectedJsArgs = [j \in 1 .. NumJsArgs |-> Arg(j - 1)]
    BY DEF ExpectedJsArgs, NumJsArgs
  <2>4. Frame(Base, NumJsArgs) =
          (IF Base = 1 THEN << Target >> ELSE << Target, Key >>)
            \o [j \in 1 .. NumJsArgs |-> Arg(j - 1)]
    BY <2>2, FrameIsCallee, Zenon
  <2>5. Len([j \in 1 .. NumJsArgs |-> Arg(j - 1)]) = NumJsArgs
    BY <2>2
  <2>6. QED
    BY <2>1, <2>2, <2>3, <2>4, <2>5, Zenon
<1>3. QED
  BY <1>1, <1>2 DEF IInv

(* Type correctness of JavaScriptMethod::invoke on Duktape, for every       *)
(* bound on the argument counts.                                           *)
THEOREM TypeCorrect == Spec => []TypeOK
<1>1. Init => IInv
  BY InitIInv
<1>2. IInv /\ [Next]_vars => IInv'
  BY NextIInv
<1>3. IInv => TypeOK
  BY IInvProperties
<1>4. QED
  BY <1>1, <1>2, <1>3, PTL DEF Spec

(* Every exit of JavaScriptMethod::invoke on Duktape (a result, a failed  *)
(* push, a JS error, a failed result conversion) leaves the value stack at *)
(* its entry height, for every bound on the argument counts.               *)
THEOREM StackBalanced == Spec => []StackBalancedOnExit
<1>1. IInv => StackBalancedOnExit
  BY IInvProperties
<1>2. QED
  BY InitIInv, NextIInv, <1>1, PTL DEF Spec

(* duk_pcall / duk_pcall_prop in JavaScriptMethod::invoke see exactly the  *)
(* callee and the JS arguments in order, numArguments of them, for every  *)
(* bound on the argument counts.                                           *)
THEOREM CallFrame == Spec => []CallFrameAtCall
<1>1. IInv => CallFrameAtCall
  BY IInvProperties
<1>2. QED
  BY InitIInv, NextIInv, <1>1, PTL DEF Spec

=============================================================================
