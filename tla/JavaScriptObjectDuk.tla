------------------------- MODULE JavaScriptObjectDuk -------------------------
(***************************************************************************)
(* A script object registered as a host-side proxy, Duktape flavour        *)
(* (JavaScriptObject.cpp, lines 41-132): the constructor, with its eager   *)
(* check and the method table it builds, and call(), which dispatches a    *)
(* host method to its JavaScriptMethod.                                    *)
(*                                                                         *)
(* stack holds what the constructor pushed on the Duktape value stack      *)
(* above its entry height.  Building the wrapper of a method (lines 85-91) *)
(* runs JNI and the type provider, which are outside this file and may     *)
(* throw; CtorExceptions is the set of exception kinds they may throw:     *)
(* std::invalid_argument, which line 92 catches, and "other" for any other *)
(* std::exception (a JniException, std::bad_alloc, ...), which it does not *)
(***************************************************************************)
EXTENDS Naturals, Sequences

CONSTANTS
  NumMethods,      \* methods of the proxied interface
  CtorExceptions   \* what building a method wrapper may throw

ASSUME NumMethodsAssumption == NumMethods \in Nat
ASSUME CtorExceptionsAssumption ==
  CtorExceptions \subseteq {"invalid_argument", "other"}

Methods == 1 .. NumMethods

(* The ways the constructor ends: the proxy is built, or an exception.     *)
(* A wrapper that fails ends in "wrapError" when line 92 catches the       *)
(* exception and rethrows it, in "wrapUncaught" when it passes the catch.  *)
CtorDone == {"registered", "notObject", "noMethod", "notCallable", "wrapError",
             "wrapUncaught"}

(* The ways call() ends.                                                   *)
CallOutcome == {"none", "notFound", "returned", "jsError", "argError", "resultError"}

VARIABLES
  isObject,   \* duk_is_object(jsObjectIndex) && !duk_is_null(...)
  check,      \* the check argument
  hasProp,    \* hasProp[m]: the object has a property named like method m
  callable,   \* callable[m]: duk_is_callable on that property
  pc,         \* where the constructor is
  k,          \* index of the method loop
  stack,      \* what the constructor has pushed, bottom first
  registered, \* the methods with an entry in m_methods
  lastCall    \* how the last call() ended

vars == << isObject, check, hasProp, callable, pc, k, stack, registered, lastCall >>

Object == << isObject, check >>

(* The refinement mapping to the abstract registration.                   *)
status == CASE pc = "registered"               -> "registered"
            [] pc \in CtorDone \ {"registered"} -> "failed"
            [] OTHER                            -> "registering"

table == IF pc = "registered" THEN registered ELSE {}

Registration == INSTANCE ProxyRegistration WITH status <- status, table <- table

Init ==
  /\ isObject \in BOOLEAN
  /\ check \in BOOLEAN
  /\ hasProp \in [Methods -> BOOLEAN]
  /\ callable \in [Methods -> BOOLEAN]
  /\ \A m \in Methods : callable[m] => hasProp[m]
  /\ pc = "start"
  /\ k = 1
  /\ stack = << >>
  /\ registered = {}
  /\ lastCall = "none"

(* Lines 51-60: a value that is no object is refused; otherwise the object *)
(* is pushed by its heap pointer for the method loop.                      *)
CheckObject ==
  /\ pc = "start"
  /\ IF isObject THEN /\ pc' = "loop"
                      /\ stack' = << "obj" >>
                 ELSE /\ pc' = "notObject"
                      /\ UNCHANGED stack
  /\ UNCHANGED << Object, hasProp, callable, k, registered, lastCall >>

(* Mutant: duk_is_callable is not consulted.                             *)
CheckMethodNoCallableTest ==
  /\ pc = "loop"
  /\ k <= NumMethods
  /\ pc' = CASE check /\ ~hasProp[k] -> "noMethod"
             [] OTHER                 -> "wrap"
  /\ stack' = IF pc' = "wrap" THEN stack ELSE SubSeq(stack, 1, Len(stack) - 1)
  /\ UNCHANGED << Object, hasProp, callable, k, registered, lastCall >>

(* Mutant: a failed check pops the property only (duk_pop, not duk_pop_2). *)
CheckMethodPopOne ==
  /\ pc = "loop"
  /\ k <= NumMethods
  /\ pc' = CASE check /\ ~hasProp[k]                -> "noMethod"
             [] check /\ hasProp[k] /\ ~callable[k] -> "notCallable"
             [] OTHER                                -> "wrap"
  /\ UNCHANGED << Object, hasProp, callable, k, stack, registered, lastCall >>

(* Lines 70-82: duk_get_prop_string pushes the property; a missing or not  *)
(* callable one pops both it and the object (duk_pop_2) and throws, else   *)
(* the property is popped.  Without the check the method goes straight to  *)
(* its wrapper.                                                            *)
CheckMethod ==
  /\ pc = "loop"
  /\ k <= NumMethods
  /\ pc' = CASE check /\ ~hasProp[k]                -> "noMethod"
             [] check /\ hasProp[k] /\ ~callable[k] -> "notCallable"
             [] OTHER                                -> "wrap"
  /\ stack' = IF pc' = "wrap" THEN stack ELSE SubSeq(stack, 1, Len(stack) - 1)
  /\ UNCHANGED << Object, hasProp, callable, k, registered, lastCall >>

(* Mutant: the wrapper is entered under the next method's key.           *)
WrapMethodWrongKey ==
  /\ pc = "wrap"
  /\ \/ /\ registered' = registered \cup {k + 1}
        /\ k' = k + 1
        /\ pc' = "loop"
        /\ UNCHANGED stack
     \/ /\ "invalid_argument" \in CtorExceptions
        /\ stack' = SubSeq(stack, 1, Len(stack) - 1)
        /\ pc' = "wrapError"
        /\ UNCHANGED << k, registered >>
     \/ /\ "other" \in CtorExceptions
        /\ pc' = "wrapUncaught"
        /\ UNCHANGED << k, stack, registered >>
  /\ UNCHANGED << Object, hasProp, callable, lastCall >>

(* Lines 84-95: the JavaScriptMethod is built and entered in m_methods, or *)
(* building it throws: std::invalid_argument pops the object and is       *)
(* rethrown, any other exception leaves the constructor as it is.          *)
WrapMethod ==
  /\ pc = "wrap"
  /\ \/ /\ registered' = registered \cup {k}
        /\ k' = k + 1
        /\ pc' = "loop"
        /\ UNCHANGED stack
     \/ /\ "invalid_argument" \in CtorExceptions
        /\ stack' = SubSeq(stack, 1, Len(stack) - 1)
        /\ pc' = "wrapError"
        /\ UNCHANGED << k, registered >>
     \/ /\ "other" \in CtorExceptions
        /\ pc' = "wrapUncaught"
        /\ UNCHANGED << k, stack, registered >>
  /\ UNCHANGED << Object, hasProp, callable, lastCall >>

(* Line 98: every method is wrapped; the object is popped.                 *)
LoopDone ==
  /\ pc = "loop"
  /\ k > NumMethods
  /\ stack' = SubSeq(stack, 1, Len(stack) - 1)
  /\ pc' = "registered"
  /\ UNCHANGED << Object, hasProp, callable, k, registered, lastCall >>

(* After registration the script may redefine or delete the properties.    *)
Mutate ==
  /\ pc = "registered"
  /\ hasProp' \in [Methods -> BOOLEAN]
  /\ callable' \in [Methods -> BOOLEAN]
  /\ \A m \in Methods : callable'[m] => hasProp'[m]
  /\ UNCHANGED << Object, pc, k, stack, registered, lastCall >>

(* Lines 101-132: call() of host method m (0 stands for a method the       *)
(* proxy was not built with) looks it up in m_methods and invokes it with  *)
(* duk_pcall_prop on the property's current value: a property that is no   *)
(* longer callable makes the call raise a JS error.                        *)
Call ==
  /\ pc = "registered"
  /\ \E m \in Methods \cup {0} :
       lastCall' \in
         CASE m \notin registered -> {"notFound"}
           [] ~callable[m]        -> {"jsError"}
           [] OTHER               -> {"returned", "jsError", "argError", "resultError"}
  /\ UNCHANGED << Object, hasProp, callable, pc, k, stack, registered >>

Next ==
  \/ CheckObject
  \/ CheckMethod
  \/ WrapMethod
  \/ LoopDone
  \/ Mutate
  \/ Call

Spec == Init /\ [][Next]_vars

-----------------------------------------------------------------------------
(* Properties                                                              *)

TypeOK ==
  /\ isObject \in BOOLEAN
  /\ check \in BOOLEAN
  /\ hasProp \in [Methods -> BOOLEAN]
  /\ callable \in [Methods -> BOOLEAN]
  /\ pc \in {"start", "loop", "wrap"} \cup CtorDone
  /\ k \in 1 .. (NumMethods + 1)
  /\ stack \in Seq({"obj"})
  /\ registered \subseteq Methods
  /\ lastCall \in CallOutcome

(* Registration contract of the JavaScriptObject constructor: a proxy is   *)
(* built only for an object, with a method table holding every interface  *)
(* method, and with the eager check only if every method was then a        *)
(* callable property (spec section 4.6 and property 5).                    *)
RegistrationRefinement == Registration!Spec

(* Duktape stack discipline of the constructor (CHECK_STACK at line 49):   *)
(* whether the proxy is built or the constructor throws, the value stack   *)
(* is back at its entry height.                                            *)
StackBalancedOnExit == pc \in CtorDone => stack = << >>

(* The stack height on every exit of the constructor, whatever building a *)
(* wrapper throws: the object pushed at line 60 is popped on every path    *)
(* (duk_pop_2 on a failed check, duk_pop in the invalid_argument catch and *)
(* after the loop), and an exception that line 92 does not catch leaves    *)
(* exactly that one object on the stack and nothing more.                  *)
StackAtExit ==
  pc \in CtorDone => stack = IF pc = "wrapUncaught" THEN << "obj" >> ELSE << >>

=============================================================================
