---------------------------- MODULE MethodCodecs ----------------------------
(***************************************************************************)
(* The constructors of the two invokers, which build one codec (JavaType)  *)
(* per declared parameter and one for the return value:                    *)
(*   - JavaMethod::JavaMethod (src/unnamed/part_001, lines 35-97), for a   *)
(*     host method or lambda the script calls;                             *)
(*   - JavaScriptMethod::JavaScriptMethod (JavaScriptMethod.cpp, 33-75),   *)
(*     for a script function the host calls.                               *)
(* The invokers then index m_argumentTypes by argument position and use    *)
(* the codec at the vararg position for the whole trailing array           *)
(* (pushArray, fromJavaArray, popArray, toJavaArray).                      *)
(*                                                                         *)
(* A codec is modelled by the Parameter it was made from and its boxed    *)
(* flag.  makeUniqueType (JavaTypeProvider, not in the sources) and the    *)
(* JNI reflection calls may throw; each such step either succeeds or       *)
(* throws out of the constructor.                                          *)
(***************************************************************************)
EXTENDS TypeDescriptor

CONSTANTS
  MaxParams,  \* most declared parameters of a method
  NoCodec     \* an empty std::unique_ptr<JavaType> (after resize)

ASSUME MaxParamsAssumption == MaxParams \in Nat

Owners == {"JavaMethod", "JavaScriptMethod"}

(* What the reflection layer hands over as a declared parameter: a        *)
(* Parameter with Kotlin type information, or one with a Java class only.  *)
DeclaredParameters ==
  {ParameterOfKType(t) : t \in KTypes} \cup {ParameterOfClass(c) : c \in JavaClasses}

(* A vararg parameter is array-typed: Array<X> or a primitive array in    *)
(* Kotlin, an array class in Java.                                         *)
ArrayParameters ==
  {p \in DeclaredParameters :
     IF p.kotlinType = NoType THEN p.javaClass.dims = 1
     ELSE p.kotlinType.classifier \in {"Array", "IntArray"}}

Codec(p, boxed) == [of |-> p, boxed |-> boxed]

VARIABLES
  owner,            \* which constructor runs
  isLambda,         \* the isLambda argument
  isVarArgs,        \* methodInterface.isVarArgs()
  params,           \* methodInterface.getParameters(), first is position 0
  pc,               \* where the constructor is
  i,                \* index of the parameter loop
  argumentTypes,    \* m_argumentTypes
  hasReturnType,    \* m_returnValueType was made
  methodBody        \* m_methodBody (JavaMethod only)

vars == << owner, isLambda, isVarArgs, params, pc, i, argumentTypes,
           hasReturnType, methodBody >>

Inputs == << owner, isLambda, isVarArgs, params >>

NumParameters == Len(params)

(* m_argumentTypes.resize(numParameters): every position empty.            *)
Resized == [j \in 0 .. NumParameters - 1 |-> NoCodec]

(* The boxed flag of the codecs of the fixed parameters and of the vararg *)
(* element: a JavaScriptMethod always boxes the parameters (a Proxy passes *)
(* objects) and never the element (JavaScriptMethod.cpp 65, 72); a         *)
(* JavaMethod boxes both exactly for a lambda (part_001 54, 60).           *)
ParamBoxed   == IF owner = "JavaScriptMethod" THEN TRUE ELSE isLambda
ElementBoxed == IF owner = "JavaScriptMethod" THEN FALSE ELSE isLambda

(* Where the constructor goes when the parameter loop is over.             *)
AfterLoop == IF owner = "JavaScriptMethod" THEN "built" ELSE "returnType"

Init ==
  /\ owner \in Owners
  /\ isLambda \in BOOLEAN
  /\ isVarArgs \in BOOLEAN
  /\ \E n \in (IF isVarArgs THEN 1 ELSE 0) .. MaxParams :
       params \in [1 .. n -> DeclaredParameters]
  /\ isVarArgs => params[Len(params)] \in ArrayParameters
  \* part_001 39-45: JavaMethod resizes the table before anything else;
  \* JavaScriptMethod.cpp 37-41: JavaScriptMethod builds the return codec first
  /\ pc = IF owner = "JavaMethod" THEN "loop" ELSE "returnType"
  /\ i = 0
  /\ argumentTypes = IF owner = "JavaMethod" THEN Resized ELSE << >>
  /\ hasReturnType = FALSE
  /\ methodBody = "none"

(* JavaScriptMethod.cpp 43-56 and part_001 65-69: the return codec is made *)
(* (boxed for a JavaScriptMethod, boxed as isLambda for a JavaMethod), or  *)
(* makeUniqueType throws.  A JavaScriptMethod then resizes its table.      *)
MakeReturnType ==
  /\ pc = "returnType"
  /\ \/ /\ hasReturnType' = TRUE
        /\ pc' = IF owner = "JavaScriptMethod" THEN "loop" ELSE "body"
        /\ argumentTypes' = IF owner = "JavaScriptMethod" THEN Resized ELSE argumentTypes
     \/ /\ pc' = "failed"
        /\ UNCHANGED << hasReturnType, argumentTypes >>
  /\ UNCHANGED << Inputs, i, methodBody >>

(* Mutant: the vararg branch has no break and falls through to the boxed  *)
(* codec of the array itself.                                              *)
MakeVarArgTypeNoBreak ==
  /\ pc = "loop"
  /\ i < NumParameters
  /\ isVarArgs /\ i = NumParameters - 1
  /\ \/ /\ argumentTypes' = [argumentTypes EXCEPT ![i] = Codec(params[i + 1], ParamBoxed)]
        /\ i' = i + 1
        /\ UNCHANGED pc
     \/ /\ pc' = "failed"
        /\ UNCHANGED << i, argumentTypes >>
  /\ UNCHANGED << Inputs, hasReturnType, methodBody >>

(* Mutant: the parameter loop runs while i <= numParameters.              *)
MakeParamTypeOffByOne ==
  /\ pc = "loop"
  /\ i <= NumParameters
  /\ ~(isVarArgs /\ i = NumParameters - 1)
  /\ \/ /\ argumentTypes' = [argumentTypes EXCEPT ![i] = Codec(params[i + 1], ParamBoxed)]
        /\ i' = i + 1
        /\ UNCHANGED pc
     \/ /\ pc' = "failed"
        /\ UNCHANGED << i, argumentTypes >>
  /\ UNCHANGED << Inputs, hasReturnType, methodBody >>

(* JavaScriptMethod.cpp 59-60, 70-74 and part_001 48-50, 60: the codec of  *)
(* a fixed parameter, or makeUniqueType throws.                            *)
MakeParamType ==
  /\ pc = "loop"
  /\ i < NumParameters
  /\ ~(isVarArgs /\ i = NumParameters - 1)
  /\ \/ /\ argumentTypes' = [argumentTypes EXCEPT ![i] = Codec(params[i + 1], ParamBoxed)]
        /\ i' = i + 1
        /\ UNCHANGED pc
     \/ /\ pc' = "failed"
        /\ UNCHANGED << i, argumentTypes >>
  /\ UNCHANGED << Inputs, hasReturnType, methodBody >>

(* JavaScriptMethod.cpp 62-68 and part_001 52-58: the last parameter of a  *)
(* vararg method gets the codec of getGenericParameter(), and the loop     *)
(* breaks; or the JNI calls or makeUniqueType throw.                       *)
MakeVarArgType ==
  /\ pc = "loop"
  /\ i < NumParameters
  /\ isVarArgs /\ i = NumParameters - 1
  /\ \/ /\ argumentTypes' = [argumentTypes EXCEPT ![i] =
                               Codec(getGenericParameter(params[i + 1]), ElementBoxed)]
        /\ pc' = AfterLoop
     \/ /\ pc' = "failed"
        /\ UNCHANGED argumentTypes
  /\ UNCHANGED << Inputs, i, hasReturnType, methodBody >>

(* JavaScriptMethod.cpp 59 and part_001 48: the loop ends.                 *)
LoopDone ==
  /\ pc = "loop"
  /\ i >= NumParameters
  /\ pc' = AfterLoop
  /\ UNCHANGED << Inputs, i, argumentTypes, hasReturnType, methodBody >>

(* part_001 71-96: the body calls the lambda through callLambda, or the    *)
(* reflected method through its jmethodID.                                 *)
MakeMethodBody ==
  /\ pc = "body"
  /\ methodBody' = IF isLambda THEN "callLambda" ELSE "callMethod"
  /\ pc' = "built"
  /\ UNCHANGED << Inputs, i, argumentTypes, hasReturnType >>

Next ==
  \/ MakeReturnType
  \/ MakeParamType
  \/ MakeVarArgType
  \/ LoopDone
  \/ MakeMethodBody

Spec == Init /\ [][Next]_vars

-----------------------------------------------------------------------------
(* Properties                                                              *)

Codecs == {Codec(p, b) : p \in Parameters \cup {NullParameter}, b \in BOOLEAN}

(* An empty unique_ptr holds no codec.                                    *)
ASSUME NoCodecAssumption == \A c \in Codecs : c # NoCodec

TypeOK ==
  /\ owner \in Owners
  /\ isLambda \in BOOLEAN
  /\ isVarArgs \in BOOLEAN
  /\ params \in Seq(DeclaredParameters)
  /\ pc \in {"returnType", "loop", "body", "built", "failed"}
  /\ i \in 0 .. MaxParams
  /\ \E n \in 0 .. MaxParams :
       argumentTypes \in [0 .. n - 1 -> Codecs \cup {NoCodec}]
  /\ hasReturnType \in BOOLEAN
  /\ methodBody \in {"none", "callLambda", "callMethod"}

(* What the invokers rely on when they index m_argumentTypes by argument   *)
(* position (JavaScriptMethod.cpp 122 and 183, part_001 130 and 170): once *)
(* a constructor has returned, every position of a declared parameter      *)
(* holds a codec; every position but the vararg one holds the codec of its *)
(* own parameter, and the vararg position a codec that is not the array's  *)
(* (pushArray and fromJavaArray expand the array with it, so the array's   *)
(* own codec there would nest the array in itself); and the return codec   *)
(* and, for a JavaMethod, the method body exist.  Which element descriptor *)
(* the vararg codec is made from, possibly a null Parameter, is the        *)
(* subject of VarArgElementAsSpecified.                                    *)
CodecTableComplete ==
  pc = "built" =>
    /\ DOMAIN argumentTypes = 0 .. NumParameters - 1
    /\ \A j \in DOMAIN argumentTypes :
         /\ argumentTypes[j] # NoCodec
         /\ (argumentTypes[j].of = params[j + 1]) <=> ~(isVarArgs /\ j = NumParameters - 1)
    /\ hasReturnType
    /\ owner = "JavaMethod" => methodBody # "none"

(* The vararg element descriptor of the spec (section 4.1): the array's    *)
(* generic element type if known, else its raw component type, else       *)
(* OpaqueObject (java.lang.Object).                                        *)
SpecVarArgElement(p) ==
  CASE p.kotlinType # NoType /\ p.kotlinType.args # << >> /\ p.kotlinType.args[1] # Star ->
         ParameterOfKType(p.kotlinType.args[1])
    [] p.javaClass # NoClass /\ ComponentType(p.javaClass) # NoClass ->
         ParameterOfClass(ComponentType(p.javaClass))
    [] OTHER -> ParameterOfClass(JClass("Object"))

(* Spec section 4.1, "Varargs element": the codec both constructors build  *)
(* for the trailing vararg parameter is made from the element descriptor  *)
(* the spec prescribes; in particular it is never made from a null         *)
(* Parameter.                                                              *)
VarArgElementAsSpecified ==
  (pc = "built" /\ isVarArgs) =>
    argumentTypes[NumParameters - 1].of = SpecVarArgElement(params[NumParameters])

=============================================================================
