--------------------------- MODULE MethodCodecsProofs ---------------------------
(***************************************************************************)
(* Proofs about MethodCodecs, the constructors of JavaMethod and           *)
(* JavaScriptMethod, for every bound on the number of parameters:          *)
(*   - the model is well typed;                                            *)
(*   - once a constructor has returned, its codec table is complete: each  *)
(*     fixed position holds its parameter's codec and the vararg position  *)
(*     a codec other than the array's.                                    *)
(* The first lemmas are facts about the Parameter.kt operators over the    *)
(* type universe of TypeDescriptor.                                        *)
(***************************************************************************)
EXTENDS MethodCodecs, TLAPS

USE MaxParamsAssumption

(* KClass.java of each classifier without type arguments.                  *)
LEMMA PlainKClassJavaValues ==
  /\ PlainKClassJava("Int") = JClass("int")
  /\ PlainKClassJava("String") = JClass("String")
  /\ PlainKClassJava("Any") = JClass("Object")
  /\ PlainKClassJava("IntArray") = JArray("int")
  /\ PlainKClassJava("List") = JClass("List")
  /\ PlainKClassJava("Deferred") = JClass("Deferred")
BY Zenon DEF PlainKClassJava

(* A Kotlin type is a plain type or a generic one with one argument.       *)
LEMMA KTypeCases ==
  ASSUME NEW t \in KTypes
  PROVE  \/ \E c \in PlainClassifiers : t = [classifier |-> c, args |-> << >>]
         \/ \E c \in GenericClassifiers, a \in TypeArguments :
              t = [classifier |-> c, args |-> << a >>]
BY DEF KTypes, PlainTypes

(* The KClass of the type argument of a generic type is none or a plain    *)
(* classifier other than a type parameter or IntArray.                     *)
LEMMA ArgKClassValues ==
  ASSUME NEW c \in GenericClassifiers, NEW a \in TypeArguments
  PROVE  ArgKClass([classifier |-> c, args |-> << a >>]) \in {"none", "Int", "String", "Any"}
<1>1. CASE a = Star
  BY <1>1 DEF ArgKClass
<1>2. CASE a # Star
  <2>1. a \in PlainTypes /\ a.classifier # "IntArray"
    BY <1>2 DEF TypeArguments
  <2>2. a.classifier \in {"Int", "String", "Any", "T"}
    BY <2>1 DEF PlainTypes, PlainClassifiers
  <2>3. QED
    BY <2>2 DEF ArgKClass
<1>3. QED
  BY <1>1, <1>2

(* The class the JVM uses for a parameter of type Array<X>: the array of   *)
(* X's object type, and Object[] when X is a star or a type parameter.     *)
ArrayErasure(t) ==
  IF ArgKClass(t) = "none" THEN JArray("Object")
  ELSE JArray(KClassJavaObjectType(ArgKClass(t)).name)

(* findJavaClass (lines 244-265) on a Kotlin Array type: the class of the  *)
(* arrays the JVM passes for it, the array of the argument's object type.  *)
LEMMA FindJavaClassArray ==
  ASSUME NEW a \in TypeArguments
  PROVE  LET t == [classifier |-> "Array", args |-> << a >>]
         IN  findJavaClass(t) = ArrayErasure(t)
<1> DEFINE t == [classifier |-> "Array", args |-> << a >>]
           ak == ArgKClass(t)
<1>0. ak \in {"none", "Int", "String", "Any"}
  BY ArgKClassValues DEF GenericClassifiers
<1>1. findJavaClass(t) =
        IF ak # "none" /\ IsPrimitive(PlainKClassJava(ak))
          THEN JArray(KClassJavaObjectType(ak).name) ELSE KClassJava(t)
  BY Zenon DEF findJavaClass
<1>2. KClassJava(t) = IF ak = "none" THEN JArray("Object") ELSE JArray(PlainKClassJava(ak).name)
  BY DEF KClassJava
<1>3. ArrayErasure(t) =
        IF ak = "none" THEN JArray("Object") ELSE JArray(KClassJavaObjectType(ak).name)
  BY DEF ArrayErasure
<1>4. CASE ak = "none"
  BY <1>1, <1>2, <1>3, <1>4
<1>5. CASE ak = "Int"
  <2>1. IsPrimitive(PlainKClassJava(ak))
    BY <1>5, PlainKClassJavaValues DEF IsPrimitive
  <2>2. QED
    BY <1>1, <1>3, <1>5, <2>1
<1>6. CASE ak \in {"String", "Any"}
  <2>1. ~IsPrimitive(PlainKClassJava(ak))
    BY <1>6, PlainKClassJavaValues DEF IsPrimitive, JClass
  <2>2. KClassJavaObjectType(ak) = PlainKClassJava(ak)
    BY <1>6 DEF KClassJavaObjectType
  <2>3. QED
    BY <1>1, <1>2, <1>3, <1>6, <2>1, <2>2
<1>7. QED
  BY <1>0, <1>4, <1>5, <1>6

(* findJavaClass yields a class or null for every Kotlin type.             *)
LEMMA FindJavaClassType ==
  ASSUME NEW t \in KTypes
  PROVE  findJavaClass(t) \in JavaClasses \cup {NoClass}
<1>1. CASE \E c \in PlainClassifiers : t = [classifier |-> c, args |-> << >>]
  <2>1. PICK c \in PlainClassifiers : t = [classifier |-> c, args |-> << >>]
    BY <1>1
  <2>2. CASE c = "T"
    BY <2>1, <2>2, Zenon DEF findJavaClass
  <2>3. CASE c # "T"
    <3>1. findJavaClass(t) = PlainKClassJava(c)
      BY <2>1, <2>3, Zenon DEF findJavaClass, KClassJava, PlainClassifiers
    <3>2. QED
      BY <2>3, <3>1, PlainKClassJavaValues DEF PlainClassifiers, JavaClasses, JavaNames, JClass, JArray
  <2>4. QED
    BY <2>2, <2>3
<1>2. CASE \E c \in GenericClassifiers, a \in TypeArguments :
             t = [classifier |-> c, args |-> << a >>]
  <2>1. PICK c \in GenericClassifiers, a \in TypeArguments :
               t = [classifier |-> c, args |-> << a >>]
    BY <1>2
  <2>2. CASE c = "Array"
    <3>1. findJavaClass(t) = ArrayErasure(t)
      BY <2>1, <2>2, FindJavaClassArray
    <3>2. ArgKClass(t) \in {"none", "Int", "String", "Any"}
      BY <2>1, ArgKClassValues
    <3>3. ArgKClass(t) # "none" =>
            KClassJavaObjectType(ArgKClass(t)) \in {JClass("Integer"), JClass("String"), JClass("Object")}
      BY <3>2, PlainKClassJavaValues DEF KClassJavaObjectType
    <3>4. ArrayErasure(t) \in {JArray("Object"), JArray("Integer"), JArray("String")}
      BY <3>3 DEF ArrayErasure, JClass
    <3>5. QED
      BY <3>1, <3>4 DEF JavaClasses, JavaNames, JArray
  <2>3. CASE c # "Array"
    <3>1. findJavaClass(t) = PlainKClassJava(c)
      BY <2>1, <2>3, Zenon DEF findJavaClass, KClassJava, GenericClassifiers
    <3>2. QED
      BY <2>3, <3>1, PlainKClassJavaValues DEF GenericClassifiers, JavaClasses, JavaNames, JClass
  <2>4. QED
    BY <2>2, <2>3
<1>3. QED
  BY <1>1, <1>2, KTypeCases

(* A Parameter built from a Kotlin type (lines 80-100) is a Parameter.     *)
LEMMA ParameterOfKTypeType ==
  ASSUME NEW t \in KTypes
  PROVE  ParameterOfKType(t) \in Parameters
BY FindJavaClassType DEF ParameterOfKType, Parameters

(* Every declared parameter the reflection layer hands over is a Parameter.*)
LEMMA DeclaredAreParameters == DeclaredParameters \subseteq Parameters
BY ParameterOfKTypeType DEF DeclaredParameters, ParameterOfClass, Parameters

(* The Parameter of the first type argument of a declared Kotlin type.     *)
LEMMA FirstArgParameterType ==
  ASSUME NEW t \in KTypes
  PROVE  \/ FirstArgParameter(ParameterOfKType(t)) = NullParameter
         \/ \E a \in TypeArguments \ {Star} :
              /\ t.args = << a >>
              /\ FirstArgParameter(ParameterOfKType(t)) = ParameterOfKType(a)
<1>1. ParameterOfKType(t).kotlinType = t
  BY DEF ParameterOfKType
<1>2. CASE \E c \in PlainClassifiers : t = [classifier |-> c, args |-> << >>]
  BY <1>1, <1>2 DEF FirstArgParameter
<1>3. CASE \E c \in GenericClassifiers, a \in TypeArguments :
             t = [classifier |-> c, args |-> << a >>]
  <2>1. PICK c \in GenericClassifiers, a \in TypeArguments :
               t = [classifier |-> c, args |-> << a >>]
    BY <1>3
  <2>2. CASE a = Star
    BY <1>1, <2>1, <2>2 DEF FirstArgParameter
  <2>3. CASE a # Star
    BY <1>1, <2>1, <2>3 DEF FirstArgParameter
  <2>4. QED
    BY <2>2, <2>3
<1>4. QED
  BY <1>2, <1>3, KTypeCases

(* getGenericParameter (lines 191-201) of a declared parameter is a        *)
(* Parameter or null.                                                      *)
LEMMA GenericParameterType ==
  ASSUME NEW p \in DeclaredParameters
  PROVE  getGenericParameter(p) \in Parameters \cup {NullParameter}
<1>1. CASE \E c \in JavaClasses : p = ParameterOfClass(c)
  <2>1. p.kotlinType = NoType
    BY <1>1 DEF ParameterOfClass
  <2>2. QED
    BY <2>1 DEF getGenericParameter, ParameterOfClass, Parameters, JavaClasses, JavaNames, JClass
<1>2. CASE \E t \in KTypes : p = ParameterOfKType(t)
  <2>1. PICK t \in KTypes : p = ParameterOfKType(t)
    BY <1>2
  <2>2. p.kotlinType = t /\ t # NoType
    BY <2>1, NullAssumption DEF ParameterOfKType
  <2>3. getGenericParameter(p) = FirstArgParameter(ParameterOfKType(t))
    BY <2>1, <2>2 DEF getGenericParameter
  <2>4. \A a \in TypeArguments \ {Star} : a \in KTypes
    BY DEF TypeArguments, KTypes
  <2>5. QED
    BY <2>3, <2>4, FirstArgParameterType, ParameterOfKTypeType
<1>3. QED
  BY <1>1, <1>2 DEF DeclaredParameters

(* The codec of a vararg parameter is made from something other than the   *)
(* array parameter itself: its element type, Object, or null.              *)
LEMMA GenericDiffers ==
  ASSUME NEW p \in ArrayParameters
  PROVE  getGenericParameter(p) # p
<1>0. p \in DeclaredParameters /\ p \in Parameters /\ p # NullParameter
  BY DeclaredAreParameters, NullAssumption DEF ArrayParameters
<1>1. CASE \E c \in JavaClasses : p = ParameterOfClass(c)
  <2>1. p.kotlinType = NoType /\ p.javaClass.dims = 1
    BY <1>0, <1>1 DEF ParameterOfClass, ArrayParameters
  <2>2. getGenericParameter(p).javaClass.dims = 0
    BY <2>1 DEF getGenericParameter, ParameterOfClass, JClass
  <2>3. QED
    BY <2>1, <2>2
<1>2. CASE \E t \in KTypes : p = ParameterOfKType(t)
  <2>1. PICK t \in KTypes : p = ParameterOfKType(t)
    BY <1>2
  <2>2. p.kotlinType = t /\ t # NoType
    BY <2>1, NullAssumption DEF ParameterOfKType
  <2>3. t.classifier \in {"Array", "IntArray"}
    BY <1>0, <2>2 DEF ArrayParameters
  <2>4. getGenericParameter(p) = FirstArgParameter(ParameterOfKType(t))
    BY <2>1, <2>2 DEF getGenericParameter
  <2>5. ASSUME NEW a \in TypeArguments \ {Star}
        PROVE  ParameterOfKType(a).kotlinType # t
    <3>1. a.classifier \in PlainClassifiers \ {"IntArray"}
      BY DEF TypeArguments, PlainTypes
    <3>2. a.classifier # t.classifier
      BY <2>3, <3>1 DEF PlainClassifiers
    <3>3. QED
      BY <3>2 DEF ParameterOfKType
  <2>6. QED
    BY <1>0, <2>1, <2>2, <2>4, <2>5, FirstArgParameterType
<1>3. QED
  BY <1>0, <1>1, <1>2 DEF DeclaredParameters

-----------------------------------------------------------------------------
(* The codec table                                                         *)

(* The codec each position of m_argumentTypes is to hold: the element's    *)
(* at the vararg position, the parameter's own everywhere else.            *)
ExpectedCodec(j) ==
  IF isVarArgs /\ j = NumParameters - 1
    THEN Codec(getGenericParameter(params[NumParameters]), ElementBoxed)
    ELSE Codec(params[j + 1], ParamBoxed)

(* The table after the first n iterations of the parameter loop.           *)
Filled(n) ==
  [j \in 0 .. (NumParameters - 1) |->
     IF j < n THEN Codec(params[j + 1], ParamBoxed) ELSE NoCodec]

(* The table once the parameter loop is over.                              *)
Full == [j \in 0 .. (NumParameters - 1) |-> ExpectedCodec(j)]

(* What the reflection layer hands the constructor, and never changes.     *)
InputsOK ==
  /\ owner \in Owners /\ isLambda \in BOOLEAN /\ isVarArgs \in BOOLEAN
  /\ NumParameters \in 0 .. MaxParams
  /\ params \in [1 .. NumParameters -> DeclaredParameters]
  /\ isVarArgs => NumParameters >= 1 /\ params[NumParameters] \in ArrayParameters

(* The inductive invariant: the loop has filled the positions below i,     *)
(* the return codec exists exactly when its step has run, and after the    *)
(* loop the table is Full.                                                 *)
IInv ==
  /\ TypeOK
  /\ InputsOK
  /\ pc = "returnType" =>
       /\ ~hasReturnType /\ methodBody = "none"
       /\ owner = "JavaScriptMethod" => i = 0 /\ argumentTypes = << >>
       /\ owner = "JavaMethod" => argumentTypes = Full
  /\ pc = "loop" =>
       /\ i \in 0 .. NumParameters /\ (isVarArgs => i < NumParameters)
       /\ argumentTypes = Filled(i)
       /\ hasReturnType = (owner = "JavaScriptMethod") /\ methodBody = "none"
  /\ pc = "body" => owner = "JavaMethod" /\ hasReturnType /\ argumentTypes = Full
  /\ pc = "built" =>
       /\ hasReturnType /\ argumentTypes = Full
       /\ owner = "JavaMethod" => methodBody # "none"

(* The table after no iteration is the resized one.                        *)
LEMMA FilledZero == Filled(0) = Resized
BY DEF Filled, Resized

(* A table built from declared parameters holds codecs and empty slots.    *)
LEMMA FilledType ==
  ASSUME InputsOK, NEW n \in Nat
  PROVE  Filled(n) \in [0 .. (NumParameters - 1) -> Codecs \cup {NoCodec}]
<1>1. \A j \in 0 .. (NumParameters - 1) : params[j + 1] \in Parameters
  BY DeclaredAreParameters DEF InputsOK
<1>2. ParamBoxed \in BOOLEAN
  BY Zenon DEF InputsOK, ParamBoxed
<1>3. QED
  BY <1>1, <1>2 DEF Filled, Codecs, Codec

(* Every position is to hold a codec.                                     *)
LEMMA ExpectedCodecType ==
  ASSUME InputsOK
  PROVE  \A j \in 0 .. (NumParameters - 1) : ExpectedCodec(j) \in Codecs
<1>1. \A j \in 0 .. (NumParameters - 1) : params[j + 1] \in Parameters
  BY DeclaredAreParameters DEF InputsOK
<1>2. ParamBoxed \in BOOLEAN /\ ElementBoxed \in BOOLEAN
  BY Zenon DEF InputsOK, ParamBoxed, ElementBoxed
<1>3. isVarArgs => getGenericParameter(params[NumParameters]) \in Parameters \cup {NullParameter}
  BY GenericParameterType DEF InputsOK
<1>4. QED
  BY <1>1, <1>2, <1>3 DEF ExpectedCodec, Codecs, Codec

LEMMA FullType ==
  ASSUME InputsOK
  PROVE  Full \in [0 .. (NumParameters - 1) -> Codecs \cup {NoCodec}]
BY ExpectedCodecType DEF Full

(* The shape TypeOK asks of m_argumentTypes.                              *)
TableOK(t) == \E m \in 0 .. MaxParams : t \in [0 .. m - 1 -> Codecs \cup {NoCodec}]

(* The codec table of a state is typed when it is one of these.            *)
LEMMA TableType ==
  ASSUME InputsOK
  PROVE  /\ \A n \in Nat : TableOK(Filled(n))
         /\ TableOK(Full)
         /\ TableOK(<< >>)
<1>1. NumParameters \in 0 .. MaxParams
  BY DEF InputsOK
<1>2. ASSUME NEW n \in Nat
      PROVE  TableOK(Filled(n))
  <2>1. Filled(n) \in [0 .. NumParameters - 1 -> Codecs \cup {NoCodec}]
    BY FilledType
  <2>2. QED
    BY <1>1, <2>1, Zenon DEF TableOK
<1>3. TableOK(Full)
  <2>1. Full \in [0 .. NumParameters - 1 -> Codecs \cup {NoCodec}]
    BY FullType
  <2>2. QED
    BY <1>1, <2>1, Zenon DEF TableOK
<1>4. TableOK(<< >>)
  <2>1. << >> \in [0 .. 0 - 1 -> Codecs \cup {NoCodec}]
    OBVIOUS
  <2>2. 0 \in 0 .. MaxParams
    OBVIOUS
  <2>3. QED
    BY <2>1, <2>2, Zenon DEF TableOK
<1>5. QED
  BY <1>2, <1>3, <1>4

LEMMA InitIInv == Init => IInv
<1> SUFFICES ASSUME Init PROVE IInv
  OBVIOUS
<1>1. PICK n \in (IF isVarArgs THEN 1 ELSE 0) .. MaxParams :
        params \in [1 .. n -> DeclaredParameters]
  BY DEF Init
<1>2. NumParameters = n /\ params \in Seq(DeclaredParameters)
  BY <1>1 DEF NumParameters
<1>3. InputsOK
  BY <1>1, <1>2 DEF Init, InputsOK, Owners
<1>4. TableOK(argumentTypes)
  <2>1. CASE owner = "JavaMethod"
    <3>1. argumentTypes = Filled(0)
      BY <2>1, FilledZero DEF Init
    <3>2. QED
      BY <1>3, <3>1, TableType
  <2>2. CASE owner = "JavaScriptMethod"
    <3>1. argumentTypes = << >>
      BY <2>2 DEF Init
    <3>2. QED
      BY <1>3, <3>1, TableType
  <2>3. QED
    BY <2>1, <2>2 DEF Init, Owners
<1>5. /\ pc \in {"returnType", "loop", "body", "built", "failed"}
      /\ i \in 0 .. MaxParams
      /\ hasReturnType \in BOOLEAN
      /\ methodBody \in {"none", "callLambda", "callMethod"}
  <2>1. /\ pc = (IF owner = "JavaMethod" THEN "loop" ELSE "returnType")
        /\ i = 0 /\ hasReturnType = FALSE /\ methodBody = "none"
    BY DEF Init
  <2>2. pc \in {"returnType", "loop", "body", "built", "failed"}
    BY <2>1
  <2>3. i \in 0 .. MaxParams
    BY <2>1
  <2>4. hasReturnType \in BOOLEAN
    BY <2>1, Zenon
  <2>5. methodBody \in {"none", "callLambda", "callMethod"}
    BY <2>1
  <2>6. QED
    BY <2>2, <2>3, <2>4, <2>5
<1>6. TypeOK
  BY <1>2, <1>3, <1>4, <1>5, Zenon DEF TypeOK, TableOK, InputsOK, Owners
<1>7. CASE owner = "JavaMethod"
  <2>1. pc = "loop" /\ i = 0 /\ argumentTypes = Filled(0) /\ methodBody = "none"
    BY <1>7, FilledZero DEF Init
  <2>2. hasReturnType = (owner = "JavaScriptMethod")
    BY <1>7, Zenon DEF Init
  <2>3. i \in 0 .. NumParameters /\ (isVarArgs => i < NumParameters)
    BY <1>3, <2>1 DEF InputsOK
  <2>4. QED
    BY <1>3, <1>6, <2>1, <2>2, <2>3 DEF IInv
<1>8. CASE owner = "JavaScriptMethod"
  <2>1. pc = "returnType" /\ i = 0 /\ argumentTypes = << >> /\ methodBody = "none"
    BY <1>8 DEF Init
  <2>2. ~hasReturnType
    BY Zenon DEF Init
  <2>3. QED
    BY <1>3, <1>6, <2>1, <2>2, <1>8, Zenon DEF IInv
<1>9. QED
  BY <1>7, <1>8 DEF Init, Owners

(* The reflected inputs never change, and with them what is defined from   *)
(* them.                                                                   *)
LEMMA InputsStable ==
  ASSUME UNCHANGED Inputs
  PROVE  /\ InputsOK' = InputsOK
         /\ NumParameters' = NumParameters
         /\ ParamBoxed' = ParamBoxed /\ ElementBoxed' = ElementBoxed
         /\ AfterLoop' = AfterLoop
         /\ \A n \in Nat : Filled(n)' = Filled(n)
         /\ Full' = Full
BY DEF Inputs, InputsOK, NumParameters, ParamBoxed, ElementBoxed, AfterLoop,
       Filled, Full, ExpectedCodec

(* One iteration of the loop over a fixed parameter (lines 59-60).         *)
LEMMA FilledStep ==
  ASSUME InputsOK, NEW n \in 0 .. (NumParameters - 1)
  PROVE  [Filled(n) EXCEPT ![n] = Codec(params[n + 1], ParamBoxed)] = Filled(n + 1)
<1> DEFINE D == 0 .. (NumParameters - 1)
           S == Codecs \cup {NoCodec}
           L == [Filled(n) EXCEPT ![n] = Codec(params[n + 1], ParamBoxed)]
<1>1. Filled(n) \in [D -> S] /\ Filled(n + 1) \in [D -> S]
  BY FilledType
<1>2. Codec(params[n + 1], ParamBoxed) \in S
  BY <1>1 DEF Filled
<1>3. L \in [D -> S]
  BY <1>1, <1>2
<1>4. \A j \in D : L[j] = Filled(n + 1)[j]
  BY DEF Filled
<1>5. QED
  BY <1>1, <1>3, <1>4, Zenon

(* A loop over the parameters of a method without varargs fills the table.*)
LEMMA FilledFull ==
  ASSUME InputsOK, ~isVarArgs
  PROVE  Filled(NumParameters) = Full
BY DEF Filled, Full, ExpectedCodec, InputsOK

(* The vararg codec completes the table (lines 62-68).                     *)
LEMMA VarArgFull ==
  ASSUME InputsOK, isVarArgs
  PROVE  [Filled(NumParameters - 1) EXCEPT ![NumParameters - 1] =
            Codec(getGenericParameter(params[NumParameters]), ElementBoxed)] = Full
<1> DEFINE D == 0 .. (NumParameters - 1)
           S == Codecs \cup {NoCodec}
           L == [Filled(NumParameters - 1) EXCEPT ![NumParameters - 1] =
                   Codec(getGenericParameter(params[NumParameters]), ElementBoxed)]
<1>0. NumParameters - 1 \in Nat
  BY DEF InputsOK
<1>1. Filled(NumParameters - 1) \in [D -> S] /\ Full \in [D -> S]
  BY <1>0, FilledType, FullType
<1>2. Codec(getGenericParameter(params[NumParameters]), ElementBoxed) \in S
  <2>1. NumParameters - 1 \in D
    BY DEF InputsOK
  <2>2. Full[NumParameters - 1] = Codec(getGenericParameter(params[NumParameters]), ElementBoxed)
    BY <2>1 DEF Full, ExpectedCodec
  <2>3. QED
    BY <1>1, <2>1, <2>2
<1>3. L \in [D -> S]
  BY <1>1, <1>2, Zenon
<1>4. \A j \in D : L[j] = Full[j]
  BY DEF Filled, Full, ExpectedCodec, InputsOK
<1>5. QED
  BY <1>1, <1>3, <1>4, Zenon

(* TypeOK after a step that keeps the inputs.                              *)
LEMMA TypeStep ==
  ASSUME TypeOK, UNCHANGED Inputs,
         pc' \in {"returnType", "loop", "body", "built", "failed"},
         i' \in 0 .. MaxParams, TableOK(argumentTypes'),
         hasReturnType' \in BOOLEAN,
         methodBody' \in {"none", "callLambda", "callMethod"}
  PROVE  TypeOK'
BY Zenon DEF TypeOK, TableOK, Inputs

LEMMA NextIInv == IInv /\ [Next]_vars => IInv'
<1> SUFFICES ASSUME IInv, [Next]_vars PROVE IInv'
  OBVIOUS
<1>0. /\ TypeOK /\ InputsOK
      /\ UNCHANGED Inputs
      /\ InputsOK' = InputsOK /\ NumParameters' = NumParameters
      /\ ParamBoxed' = ParamBoxed /\ ElementBoxed' = ElementBoxed
      /\ AfterLoop' = AfterLoop
      /\ \A n \in Nat : Filled(n)' = Filled(n)
      /\ Full' = Full
  <2>1. UNCHANGED Inputs
    BY DEF Next, vars, Inputs, MakeReturnType, MakeParamType, MakeVarArgType,
           LoopDone, MakeMethodBody
  <2>2. QED
    BY <2>1, InputsStable DEF IInv
<1>a. /\ NumParameters \in 0 .. MaxParams /\ i \in 0 .. MaxParams
      /\ isVarArgs \in BOOLEAN /\ hasReturnType \in BOOLEAN
      /\ isVarArgs => NumParameters >= 1
  BY <1>0 DEF InputsOK, TypeOK
(* A step that only moves to "failed" keeps the invariant.                 *)
<1>f. ASSUME pc' = "failed", UNCHANGED << i, argumentTypes, hasReturnType, methodBody >>
      PROVE  IInv'
  <2>1. /\ pc' \in {"returnType", "loop", "body", "built", "failed"}
        /\ i' \in 0 .. MaxParams /\ TableOK(argumentTypes')
        /\ hasReturnType' \in BOOLEAN
        /\ methodBody' \in {"none", "callLambda", "callMethod"}
    BY <1>0, <1>a, <1>f, Zenon DEF TypeOK, TableOK
  <2>2. TypeOK'
    BY <1>0, <2>1, TypeStep, Zenon
  <2>3. QED
    BY <1>0, <1>f, <2>2, Zenon DEF IInv
<1>1. CASE MakeReturnType
  <2>1. /\ pc = "returnType" /\ ~hasReturnType /\ methodBody = "none"
        /\ owner = "JavaScriptMethod" => i = 0 /\ argumentTypes = << >>
        /\ owner = "JavaMethod" => argumentTypes = Full
        /\ UNCHANGED << i, methodBody >>
    BY <1>1 DEF IInv, MakeReturnType, Inputs
  <2>2. CASE /\ hasReturnType' = TRUE
             /\ pc' = IF owner = "JavaScriptMethod" THEN "loop" ELSE "body"
             /\ argumentTypes' = IF owner = "JavaScriptMethod" THEN Resized ELSE argumentTypes
    <3>1. CASE owner = "JavaScriptMethod"
      <4>1. pc' = "loop" /\ argumentTypes' = Filled(0) /\ i' = 0
        BY <2>1, <2>2, <3>1, FilledZero
      <4>2. /\ pc' \in {"returnType", "loop", "body", "built", "failed"}
            /\ i' \in 0 .. MaxParams /\ TableOK(argumentTypes')
            /\ hasReturnType' \in BOOLEAN
            /\ methodBody' \in {"none", "callLambda", "callMethod"}
        <5>1. TableOK(argumentTypes')
          BY <4>1, <1>0, TableType
        <5>2. i' \in 0 .. MaxParams
          BY <4>1
        <5>3. QED
          BY <2>1, <2>2, <4>1, <5>1, <5>2, Zenon
      <4>3. TypeOK'
        BY <1>0, <4>2, TypeStep, Zenon
      <4>4. (hasReturnType = (owner = "JavaScriptMethod") /\ methodBody = "none")'
        BY <2>1, <2>2, <3>1, <1>0, Zenon DEF Inputs
      <4>5. (i \in 0 .. NumParameters /\ (isVarArgs => i < NumParameters))'
        <5>1. isVarArgs' = isVarArgs
          BY <1>0 DEF Inputs
        <5>2. QED
          BY <4>1, <5>1, <1>0, <1>a
      <4>6. QED
        BY <1>0, <4>1, <4>3, <4>4, <4>5, Zenon DEF IInv
    <3>2. CASE owner = "JavaMethod"
      <4>1. pc' = "body" /\ argumentTypes' = Full
        BY <2>1, <2>2, <3>2
      <4>2. /\ pc' \in {"returnType", "loop", "body", "built", "failed"}
            /\ i' \in 0 .. MaxParams /\ TableOK(argumentTypes')
            /\ hasReturnType' \in BOOLEAN
            /\ methodBody' \in {"none", "callLambda", "callMethod"}
        <5>1. TableOK(argumentTypes')
          BY <4>1, <1>0, TableType
        <5>2. QED
          BY <1>a, <2>1, <2>2, <4>1, <5>1, Zenon
      <4>3. TypeOK'
        BY <1>0, <4>2, TypeStep, Zenon
      <4>4. QED
        BY <1>0, <2>2, <3>2, <4>1, <4>3, Zenon DEF IInv, Inputs
    <3>3. QED
      BY <3>1, <3>2, <1>0 DEF TypeOK, Owners
  <2>3. CASE pc' = "failed" /\ UNCHANGED << hasReturnType, argumentTypes >>
    BY <2>1, <2>3, <1>f
  <2>4. QED
    BY <1>1, <2>2, <2>3, Zenon DEF MakeReturnType
<1>2. CASE MakeParamType
  <2>1. /\ pc = "loop" /\ i < NumParameters /\ ~(isVarArgs /\ i = NumParameters - 1)
        /\ i \in 0 .. NumParameters /\ argumentTypes = Filled(i)
        /\ hasReturnType = (owner = "JavaScriptMethod") /\ methodBody = "none"
        /\ UNCHANGED << hasReturnType, methodBody >>
    BY <1>2 DEF IInv, MakeParamType
  <2>2. CASE /\ argumentTypes' = [argumentTypes EXCEPT ![i] = Codec(params[i + 1], ParamBoxed)]
             /\ i' = i + 1
             /\ UNCHANGED pc
    <3>1. argumentTypes' = Filled(i')
      <4>1. i \in 0 .. (NumParameters - 1)
        BY <1>a, <2>1
      <4>2. [Filled(i) EXCEPT ![i] = Codec(params[i + 1], ParamBoxed)] = Filled(i + 1)
        BY <1>0, <4>1, FilledStep
      <4>3. QED
        BY <2>1, <2>2, <4>2
    <3>2. i' \in 0 .. NumParameters /\ (isVarArgs => i' < NumParameters) /\ i' \in 0 .. MaxParams
      BY <1>a, <2>1, <2>2
    <3>3. /\ pc' \in {"returnType", "loop", "body", "built", "failed"}
          /\ i' \in 0 .. MaxParams /\ TableOK(argumentTypes')
          /\ hasReturnType' \in BOOLEAN
          /\ methodBody' \in {"none", "callLambda", "callMethod"}
      <4>1. TableOK(argumentTypes')
        BY <3>1, <3>2, <1>0, TableType
      <4>2. QED
        BY <1>a, <2>1, <2>2, <3>2, <4>1, Zenon
    <3>4. TypeOK'
      BY <1>0, <3>3, TypeStep, Zenon
    <3>5. (hasReturnType = (owner = "JavaScriptMethod") /\ methodBody = "none")'
      BY <2>1, <1>0, Zenon DEF Inputs
    <3>6. (i \in 0 .. NumParameters /\ (isVarArgs => i < NumParameters))'
      BY <1>0, <3>2 DEF Inputs
    <3>7. (argumentTypes = Filled(i))'
      BY <1>0, <3>1, <3>2
    <3>8. QED
      BY <1>0, <2>1, <2>2, <3>4, <3>5, <3>6, <3>7, Zenon DEF IInv
  <2>3. CASE pc' = "failed" /\ UNCHANGED << i, argumentTypes >>
    BY <2>1, <2>3, <1>f
  <2>4. QED
    BY <1>2, <2>2, <2>3 DEF MakeParamType
<1>3. CASE MakeVarArgType
  <2>1. /\ pc = "loop" /\ isVarArgs /\ i = NumParameters - 1
        /\ argumentTypes = Filled(i)
        /\ hasReturnType = (owner = "JavaScriptMethod") /\ methodBody = "none"
        /\ UNCHANGED << i, hasReturnType, methodBody >>
    BY <1>3 DEF IInv, MakeVarArgType
  <2>2. CASE /\ argumentTypes' = [argumentTypes EXCEPT ![i] =
                  Codec(getGenericParameter(params[i + 1]), ElementBoxed)]
             /\ pc' = AfterLoop
    <3>1. argumentTypes' = Full
      <4>1. i + 1 = NumParameters
        BY <1>a, <2>1
      <4>2. QED
        BY <1>0, <2>1, <2>2, <4>1, VarArgFull
    <3>2. pc' \in {"returnType", "built"}
      BY <2>2, <1>0 DEF AfterLoop
    <3>3. /\ pc' \in {"returnType", "loop", "body", "built", "failed"}
          /\ i' \in 0 .. MaxParams /\ TableOK(argumentTypes')
          /\ hasReturnType' \in BOOLEAN
          /\ methodBody' \in {"none", "callLambda", "callMethod"}
      <4>1. TableOK(argumentTypes')
        BY <3>1, <1>0, TableType
      <4>2. QED
        BY <1>a, <2>1, <3>2, <4>1, Zenon
    <3>4. TypeOK'
      BY <1>0, <3>3, TypeStep, Zenon
    <3>5. CASE owner = "JavaScriptMethod"
      <4>1. pc' = "built" /\ hasReturnType'
        BY <2>1, <2>2, <3>5, <1>0, Zenon DEF AfterLoop
      <4>2. owner' = "JavaScriptMethod"
        BY <3>5, <1>0 DEF Inputs
      <4>3. QED
        BY <1>0, <3>1, <3>4, <4>1, <4>2, Zenon DEF IInv
    <3>6. CASE owner = "JavaMethod"
      <4>1. pc' = "returnType" /\ ~hasReturnType' /\ methodBody' = "none"
        BY <2>1, <2>2, <3>6, <1>0, Zenon DEF AfterLoop
      <4>2. owner' = "JavaMethod"
        BY <3>6, <1>0 DEF Inputs
      <4>3. QED
        BY <1>0, <3>1, <3>4, <4>1, <4>2, Zenon DEF IInv
    <3>7. QED
      BY <3>5, <3>6, <1>0 DEF TypeOK, Owners
  <2>3. CASE pc' = "failed" /\ UNCHANGED argumentTypes
    BY <2>1, <2>3, <1>f
  <2>4. QED
    BY <1>3, <2>2, <2>3 DEF MakeVarArgType
<1>4. CASE LoopDone
  <2>1. /\ pc = "loop" /\ i >= NumParameters /\ i \in 0 .. NumParameters
        /\ (isVarArgs => i < NumParameters) /\ argumentTypes = Filled(i)
        /\ hasReturnType = (owner = "JavaScriptMethod") /\ methodBody = "none"
        /\ pc' = AfterLoop
        /\ UNCHANGED << i, argumentTypes, hasReturnType, methodBody >>
    BY <1>4 DEF IInv, LoopDone, Inputs
  <2>2. argumentTypes' = Full
    <3>1. ~isVarArgs /\ i = NumParameters
      BY <1>a, <2>1
    <3>2. QED
      BY <1>0, <2>1, <3>1, FilledFull
  <2>3. pc' \in {"returnType", "built"}
    BY <2>1, <1>0 DEF AfterLoop
  <2>4. /\ pc' \in {"returnType", "loop", "body", "built", "failed"}
        /\ i' \in 0 .. MaxParams /\ TableOK(argumentTypes')
        /\ hasReturnType' \in BOOLEAN
        /\ methodBody' \in {"none", "callLambda", "callMethod"}
    <3>1. TableOK(argumentTypes')
      BY <2>2, <1>0, TableType
    <3>2. QED
      BY <1>a, <2>1, <2>3, <3>1, Zenon
  <2>5. TypeOK'
    BY <1>0, <2>4, TypeStep, Zenon
  <2>6. CASE owner = "JavaScriptMethod"
    <3>1. pc' = "built" /\ hasReturnType'
      BY <2>1, <2>6, <1>0, Zenon DEF AfterLoop
    <3>2. owner' = "JavaScriptMethod"
      BY <2>6, <1>0 DEF Inputs
    <3>3. QED
      BY <1>0, <2>2, <2>5, <3>1, <3>2, Zenon DEF IInv
  <2>7. CASE owner = "JavaMethod"
    <3>1. pc' = "returnType" /\ ~hasReturnType' /\ methodBody' = "none"
      BY <2>1, <2>7, <1>0, Zenon DEF AfterLoop
    <3>2. owner' = "JavaMethod"
      BY <2>7, <1>0 DEF Inputs
    <3>3. QED
      BY <1>0, <2>2, <2>5, <3>1, <3>2, Zenon DEF IInv
  <2>8. QED
    BY <2>6, <2>7, <1>0 DEF TypeOK, Owners
<1>5. CASE MakeMethodBody
  <2>1. /\ pc = "body" /\ owner = "JavaMethod" /\ hasReturnType /\ argumentTypes = Full
        /\ methodBody' \in {"callLambda", "callMethod"} /\ pc' = "built"
        /\ UNCHANGED << i, argumentTypes, hasReturnType >>
    BY <1>5 DEF IInv, MakeMethodBody
  <2>2. /\ pc' \in {"returnType", "loop", "body", "built", "failed"}
        /\ i' \in 0 .. MaxParams /\ TableOK(argumentTypes')
        /\ hasReturnType' \in BOOLEAN
        /\ methodBody' \in {"none", "callLambda", "callMethod"}
    BY <1>0, <1>a, <2>1, Zenon DEF TypeOK, TableOK
  <2>3. TypeOK'
    BY <1>0, <2>2, TypeStep, Zenon
  <2>4. QED
    BY <1>0, <2>1, <2>3, Zenon DEF IInv
<1>6. CASE UNCHANGED vars
  <2>1. TypeOK'
    BY <1>0, <1>6, Zenon DEF vars, TypeOK, TableOK, Inputs
  <2>2. QED
    BY <1>0, <1>6, <2>1, Zenon
       DEF vars, IInv, InputsOK, Filled, Full, ExpectedCodec, NumParameters,
           ParamBoxed, ElementBoxed
<1>7. QED
  BY <1>1, <1>2, <1>3, <1>4, <1>5, <1>6 DEF Next

(* The invariant gives the complete codec table of a returned constructor. *)
LEMMA IInvComplete == IInv => CodecTableComplete
<1> SUFFICES ASSUME IInv, pc = "built"
             PROVE  /\ DOMAIN argumentTypes = 0 .. NumParameters - 1
                    /\ \A j \in DOMAIN argumentTypes :
                         /\ argumentTypes[j] # NoCodec
                         /\ (argumentTypes[j].of = params[j + 1])
                              <=> ~(isVarArgs /\ j = NumParameters - 1)
                    /\ hasReturnType
                    /\ owner = "JavaMethod" => methodBody # "none"
  BY DEF CodecTableComplete
<1>0. InputsOK /\ argumentTypes = Full /\ hasReturnType
      /\ (owner = "JavaMethod" => methodBody # "none")
  BY DEF IInv
<1>1. DOMAIN argumentTypes = 0 .. NumParameters - 1
  BY <1>0 DEF Full
<1>2. ASSUME NEW j \in 0 .. NumParameters - 1
      PROVE  /\ argumentTypes[j] # NoCodec
             /\ (argumentTypes[j].of = params[j + 1]) <=> ~(isVarArgs /\ j = NumParameters - 1)
  <2>1. argumentTypes[j] = ExpectedCodec(j)
    BY <1>0 DEF Full
  <2>2. argumentTypes[j] # NoCodec
    BY <1>0, <2>1, ExpectedCodecType, NoCodecAssumption
  <2>3. CASE isVarArgs /\ j = NumParameters - 1
    <3>1. argumentTypes[j].of = getGenericParameter(params[NumParameters])
      BY <2>1, <2>3 DEF ExpectedCodec, Codec
    <3>2. params[NumParameters] \in ArrayParameters
      BY <1>0, <2>3 DEF InputsOK
    <3>3. j + 1 = NumParameters
      BY <2>3, <1>0 DEF InputsOK
    <3>4. getGenericParameter(params[NumParameters]) # params[NumParameters]
      BY <3>2, GenericDiffers
    <3>5. QED
      BY <2>2, <2>3, <3>1, <3>3, <3>4
  <2>4. CASE ~(isVarArgs /\ j = NumParameters - 1)
    <3>1. argumentTypes[j].of = params[j + 1]
      BY <2>1, <2>4 DEF ExpectedCodec, Codec
    <3>2. QED
      BY <2>2, <2>4, <3>1
  <2>5. QED
    BY <2>3, <2>4
<1>3. QED
  BY <1>0, <1>1, <1>2

-----------------------------------------------------------------------------

(* Every state of both invoker constructors is well typed: in particular   *)
(* m_argumentTypes always has one slot per position up to MaxParams and    *)
(* holds codecs or empty pointers only.                                    *)
THEOREM TypeCorrect == Spec => []TypeOK
<1>1. IInv => TypeOK
  BY DEF IInv
<1>2. QED
  BY <1>1, InitIInv, NextIInv, PTL DEF Spec

(* Once JavaMethod::JavaMethod or JavaScriptMethod::JavaScriptMethod has   *)
(* returned, for every number of declared parameters: every argument       *)
(* position holds a codec, every position but the vararg one its own      *)
(* parameter's and the vararg position one that is not the array's, and   *)
(* the return codec and, for a JavaMethod, the method body exist; the      *)
(* invokers index this table by argument position.                         *)
THEOREM CodecsComplete == Spec => []CodecTableComplete
<1>1. QED
  BY IInvComplete, InitIInv, NextIInv, PTL DEF Spec

=============================================================================
