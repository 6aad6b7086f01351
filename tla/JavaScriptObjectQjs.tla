------------------------- MODULE JavaScriptObjectQjs -------------------------
(***************************************************************************)
(* A script object registered as a host-side proxy, QuickJS flavour        *)
(* (JavaScriptObject.cpp, lines 138-224): the constructor, with its eager  *)
(* check and the method table it builds, and call(), which looks the       *)
(* method up in the table and then fetches the function from the object   *)
(* it is handed at call time.                                              *)
(*                                                                         *)
(* The property values the constructor and call() fetch are held by        *)
(* JS_AUTORELEASE_VALUE and released on every path, so no reference count  *)
(* is kept here.  Building a method wrapper may throw; line 183 catches    *)
(* every std::exception.                                                   *)
(***************************************************************************)
EXTENDS Naturals

CONSTANT NumMethods

ASSUME NumMethodsAssumption == NumMethods \in Nat

Methods == 1 .. NumMethods

CtorDone == {"registered", "notObject", "noMethod", "notCallable", "wrapError"}

CallOutcome == {"none", "notFound", "notObject", "returned", "jsError",
                "argError", "resultError"}

VARIABLES
  isObject,   \* JS_IsObject(jsObjectValue) && !JS_IsNull(jsObjectValue)
  check,      \* the check argument
  hasProp,    \* hasProp[m]: the property named like method m is not undefined
  callable,   \* callable[m]: JS_IsFunction on that property
  pc,         \* where the constructor is
  k,          \* index of the method loop
  registered, \* the methods with an entry in m_methods
  lastCall    \* how the last call() ended

vars == << isObject, check, hasProp, callable, pc, k, registered, lastCall >>

Object == << isObject, check >>

(* The refinement mapping to the abstract registration.                   *)
status == CASE pc = "registered"               -> "registered"
            [] pc \in CtorDone \ {"registered"} -> "failed"
            [] OTHER                            -> "registering"

table == IF pc = "registered" THEN registered ELSE {}

Registration == INSTANCE ProxyRegistration WITH status <- status, table <- table

Init ==
  /\ isObject \in BOOLEAN
  /\ check \in BOOLEAN
  /\ hasProp \in [Methods -> BOOLEAN]
  /\ callable \in [Methods -> BOOLEAN]
  /\ \A m \in Methods : callable[m] => hasProp[m]
  /\ pc = "start"
  /\ k = 1
  /\ registered = {}
  /\ lastCall = "none"

(* Lines 147-154: a value that is no object is refused.                    *)
CheckObject ==
  /\ pc = "start"
  /\ pc' = IF isObject THEN "loop" ELSE "notObject"
  /\ UNCHANGED << Object, hasProp, callable, k, registered, lastCall >>

(* Lines 164-174: an undefined property or one that is not a function     *)
(* makes the constructor throw.                                            *)
CheckMethod ==
  /\ pc = "loop"
  /\ k <= NumMethods
  /\ pc' = CASE check /\ ~hasProp[k]                -> "noMethod"
             [] check /\ hasProp[k] /\ ~callable[k] -> "notCallable"
             [] OTHER                                -> "wrap"
  /\ UNCHANGED << Object, hasProp, callable, k, registered, lastCall >>

(* Mutant: the wrapper is entered under the next method's key.           *)
WrapMethodWrongKey ==
  /\ pc = "wrap"
  /\ \/ /\ registered' = registered \cup {k + 1}
        /\ k' = k + 1
        /\ pc' = "loop"
     \/ /\ registered' = {}
        /\ pc' = "wrapError"
        /\ UNCHANGED k
  /\ UNCHANGED << Object, hasProp, callable, lastCall >>

(* Lines 176-186: the JavaScriptMethod is built and entered in m_methods,  *)
(* or any exception clears m_methods and is rethrown.                      *)
WrapMethod ==
  /\ pc = "wrap"
  /\ \/ /\ registered' = registered \cup {k}
        /\ k' = k + 1
        /\ pc' = "loop"
     \/ /\ registered' = {}
        /\ pc' = "wrapError"
        /\ UNCHANGED k
  /\ UNCHANGED << Object, hasProp, callable, lastCall >>

(* Mutant: the loop stops before the last method.                        *)
LoopDoneEarly ==
  /\ pc = "loop"
  /\ k >= NumMethods
  /\ pc' = "registered"
  /\ UNCHANGED << Object, hasProp, callable, k, registered, lastCall >>

(* Line 158: every method is wrapped.                                      *)
LoopDone ==
  /\ pc = "loop"
  /\ k > NumMethods
  /\ pc' = "registered"
  /\ UNCHANGED << Object, hasProp, callable, k, registered, lastCall >>

(* After registration the script may redefine or delete the properties.    *)
Mutate ==
  /\ pc = "registered"
  /\ hasProp' \in [Methods -> BOOLEAN]
  /\ callable' \in [Methods -> BOOLEAN]
  /\ \A m \in Methods : callable'[m] => hasProp'[m]
  /\ UNCHANGED << Object, pc, k, registered, lastCall >>

(* Lines 190-224: call() of host method m (0: a method the proxy was not   *)
(* built with) with the object value the caller holds now (an object or    *)
(* not): an unknown method throws runtime_error, a value that is no object *)
(* invalid_argument; otherwise the property is fetched without checking it *)
(* is a function (lines 219-221 are commented out) and invoked, so a       *)
(* property that is no longer a function makes JS_Call raise a TypeError.  *)
Call ==
  /\ pc = "registered"
  /\ \E m \in Methods \cup {0}, objectNow \in BOOLEAN :
       lastCall' \in
         CASE m \notin registered -> {"notFound"}
           [] ~objectNow          -> {"notObject"}
           [] ~callable[m]        -> {"jsError"}
           [] OTHER               -> {"returned", "jsError", "argError", "resultError"}
  /\ UNCHANGED << Object, hasProp, callable, pc, k, registered >>

Next ==
  \/ CheckObject
  \/ CheckMethod
  \/ WrapMethod
  \/ LoopDone
  \/ Mutate
  \/ Call

Spec == Init /\ [][Next]_vars

-----------------------------------------------------------------------------
(* Properties                                                              *)

TypeOK ==
  /\ isObject \in BOOLEAN
  /\ check \in BOOLEAN
  /\ hasProp \in [Methods -> BOOLEAN]
  /\ callable \in [Methods -> BOOLEAN]
  /\ pc \in {"start", "loop", "wrap"} \cup CtorDone
  /\ k \in 1 .. (NumMethods + 1)
  /\ registered \subseteq Methods
  /\ lastCall \in CallOutcome

(* Registration contract of the JavaScriptObject constructor (QuickJS): a  *)
(* proxy is built only for an object, with a method table holding every   *)
(* interface method, and with the eager check only if every method was     *)
(* then a callable property (spec section 4.6 and property 5).             *)
RegistrationRefinement == Registration!Spec

=============================================================================
