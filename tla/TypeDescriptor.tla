--------------------------- MODULE TypeDescriptor ---------------------------
(***************************************************************************)
(* The reflected description of a parameter or a return value, Parameter  *)
(* in Parameter.kt (src/unnamed/part_000, lines 69-265), as pure           *)
(* operators over a small universe of Kotlin types and Java classes.       *)
(*                                                                         *)
(* A Kotlin type (KType) is a record of its classifier and its type        *)
(* arguments; a type argument is a type or the star projection.  Whether a *)
(* type is nullable is read by nothing modelled here and is left out.      *)
(* The classifier "T" stands for a type parameter (a KTypeParameter).  A   *)
(* Java class is a record of a name and an array depth (0 or 1).           *)
(*                                                                         *)
(* Kotlin reflection is modelled by what the code relies on: KClass.java,  *)
(* KClass.javaObjectType, Class.componentType and Class.isPrimitive.  As   *)
(* the comment at line 251 records, the reflected class of Array<Int> is   *)
(* int[] and not Integer[].                                                *)
(***************************************************************************)
EXTENDS Naturals, Sequences

CONSTANTS
  NoType,        \* kotlinType == null
  NoClass,       \* a null Class<*>
  NullParameter  \* a Parameter? that is null

-----------------------------------------------------------------------------
(* Java classes                                                            *)

JavaNames == {"int", "Integer", "String", "Object", "List", "Deferred"}

JClass(n) == [name |-> n, dims |-> 0]
JArray(n) == [name |-> n, dims |-> 1]

JavaClasses == [name : JavaNames, dims : {0, 1}]

IsPrimitive(c) == c = JClass("int")

(* Class.componentType: the element class of an array class, else null.    *)
ComponentType(c) == IF c.dims = 1 THEN JClass(c.name) ELSE NoClass

-----------------------------------------------------------------------------
(* Kotlin types                                                            *)

(* Classifiers without type arguments ("T" is a type parameter), and the   *)
(* generic ones.                                                           *)
PlainClassifiers == {"Int", "String", "Any", "IntArray", "T"}
GenericClassifiers == {"List", "Deferred", "Array"}

(* The star projection: a type argument without a type.                  *)
Star == [projection |-> "*"]

PlainTypes == {[classifier |-> c, args |-> << >>] : c \in PlainClassifiers}

(* Type arguments: one level of nesting, so no array of arrays.           *)
TypeArguments == {a \in PlainTypes : a.classifier # "IntArray"} \cup {Star}

KTypes ==
  PlainTypes \cup
  {[classifier |-> c, args |-> << a >>] : c \in GenericClassifiers, a \in TypeArguments}

(* The KClass of the first type argument, or none for a star projection or *)
(* a type parameter: the `?.type?.classifier as? KClass` chain of line 252.*)
ArgKClass(t) ==
  IF t.args = << >> \/ t.args[1] = Star \/ t.args[1].classifier = "T"
    THEN "none" ELSE t.args[1].classifier

(* KClass.java of a class without type arguments.                          *)
PlainKClassJava(k) ==
  CASE k = "Int"      -> JClass("int")
    [] k = "String"   -> JClass("String")
    [] k = "Any"      -> JClass("Object")
    [] k = "IntArray" -> JArray("int")
    [] k = "List"     -> JClass("List")
    [] k = "Deferred" -> JClass("Deferred")

(* KClass.java of the classifier of t.  The KClass of Array<X> reflects    *)
(* the array of X's class, which for X = Int is int[] (line 251).          *)
KClassJava(t) ==
  IF t.classifier # "Array" THEN PlainKClassJava(t.classifier)
  ELSE IF ArgKClass(t) = "none" THEN JArray("Object")
  ELSE JArray(PlainKClassJava(ArgKClass(t)).name)

(* KClass.javaObjectType: the wrapper class of a primitive.               *)
KClassJavaObjectType(k) ==
  IF k = "Int" THEN JClass("Integer") ELSE PlainKClassJava(k)

-----------------------------------------------------------------------------
(* Parameter.kt                                                            *)

Parameters == [kotlinType : KTypes \cup {NoType}, javaClass : JavaClasses \cup {NoClass}]

(* Lines 244-265: findJavaClass.  A classifier that is a type parameter    *)
(* yields null (the `is KType` branch is never taken: a classifier is a    *)
(* KClass or a KTypeParameter).  For kotlin.Array with a primitive        *)
(* component the class is rebuilt as the array of the boxed type, else it *)
(* is the classifier's javaObjectType, for an array class its java.        *)
findJavaClass(t) ==
  CASE t.classifier = "T" -> NoClass
    [] t.classifier = "Array" ->
         IF ArgKClass(t) # "none" /\ IsPrimitive(PlainKClassJava(ArgKClass(t)))
           THEN JArray(KClassJavaObjectType(ArgKClass(t)).name)
           ELSE KClassJava(t)
    [] OTHER -> KClassJava(t)

(* A null reference is no Kotlin type, no class and no Parameter.         *)
ASSUME NullAssumption ==
  /\ \A t \in KTypes : t # NoType
  /\ \A c \in JavaClasses : c # NoClass
  /\ \A p \in Parameters : p # NullParameter

(* Lines 80-100: a Parameter built from a Kotlin type or parameter.        *)
ParameterOfKType(t) == [kotlinType |-> t, javaClass |-> findJavaClass(t)]

(* Lines 102-103: a Parameter built from a Java class only.                *)
ParameterOfClass(c) == [kotlinType |-> NoType, javaClass |-> c]

(* The first type argument as a Parameter, or null when there is none or  *)
(* it is a star projection (`arguments.firstOrNull()?.type?.let`).         *)
FirstArgParameter(p) ==
  IF p.kotlinType.args = << >> \/ p.kotlinType.args[1] = Star
    THEN NullParameter ELSE ParameterOfKType(p.kotlinType.args[1])

(* Lines 191-201: getGenericParameter.                                     *)
getGenericParameter(p) ==
  IF p.kotlinType = NoType THEN ParameterOfClass(JClass("Object"))
  ELSE FirstArgParameter(p)

(* Lines 162-181: getComponentType.                                        *)
getComponentType(p) ==
  LET javaComponentType ==
        IF p.javaClass = NoClass THEN NoClass ELSE ComponentType(p.javaClass)
  IN  CASE javaComponentType # NoClass /\ IsPrimitive(javaComponentType) ->
             ParameterOfClass(javaComponentType)
        [] p.kotlinType = NoType /\ javaComponentType = NoClass ->
             ParameterOfClass(JClass("Object"))
        [] p.kotlinType = NoType -> ParameterOfClass(javaComponentType)
        [] OTHER -> FirstArgParameter(p)

=============================================================================
