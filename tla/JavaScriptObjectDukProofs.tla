----------------------- MODULE JavaScriptObjectDukProofs -----------------------
(***************************************************************************)
(* Proofs about JavaScriptObjectDuk, the Duktape proxy constructor and     *)
(* call() (JavaScriptObject.cpp 41-132), for every number of methods:      *)
(*   - the model is well typed;                                            *)
(*   - it implements ProxyRegistration, whatever a method wrapper throws;  *)
(*   - whatever building a wrapper throws, every exit of the constructor  *)
(*     leaves its value stack at the entry height, except an exception     *)
(*     line 92 does not catch, which leaves exactly the object pushed at   *)
(*     line 60 (run duk_proxy_uncaught_wrap_error shows that exit).        *)
(***************************************************************************)
EXTENDS JavaScriptObjectDuk, SequenceTheorems, TLAPS

(* The inductive invariant: while the loop runs the object is on the stack *)
(* and the methods below k are wrapped (and, with the check, were callable *)
(* properties); the exits have the stack heights StackAtExit states.      *)
IInv ==
  /\ TypeOK
  /\ pc = "start" => k = 1 /\ registered = {} /\ stack = << >>
  /\ pc \in {"loop", "wrap"} =>
       /\ isObject /\ stack = << "obj" >> /\ registered = 1 .. (k - 1)
       /\ check => \A m \in 1 .. (k - 1) : hasProp[m] /\ callable[m]
  /\ pc = "wrap" => k <= NumMethods /\ (check => hasProp[k] /\ callable[k])
  /\ pc \in {"notObject", "noMethod", "notCallable"} => stack = << >>
  /\ pc = "registered" => stack = << >> /\ registered = Methods
  /\ pc = "wrapError" => stack = << >>
  /\ pc = "wrapUncaught" => stack = << "obj" >>

USE NumMethodsAssumption, CtorExceptionsAssumption

(* Popping the object leaves the stack empty.                              *)
LEMMA PopObject == SubSeq(<< "obj" >>, 1, Len(<< "obj" >>) - 1) = << >>
<1>1. Len(<< "obj" >>) - 1 = 0
  OBVIOUS
<1>2. SubSeq(<< "obj" >>, 1, 0) = << >>
  BY SubSeqEmpty
<1>3. QED
  BY <1>1, <1>2

LEMMA InitIInv == Init => IInv
BY DEF Init, IInv, TypeOK, CallOutcome

(* What the eager check of method k decides (lines 70-82).                 *)
LEMMA CheckOutcome ==
  ASSUME CheckMethod, check \in BOOLEAN, hasProp[k] \in BOOLEAN, callable[k] \in BOOLEAN
  PROVE  \/ pc' = "wrap" /\ (check => hasProp[k] /\ callable[k])
         \/ pc' \in {"noMethod", "notCallable"}
<1>1. CASE ~check
  BY <1>1, Zenon DEF CheckMethod
<1>2. CASE check /\ ~hasProp[k]
  BY <1>2, Zenon DEF CheckMethod
<1>3. CASE check /\ hasProp[k] /\ ~callable[k]
  BY <1>3, Zenon DEF CheckMethod
<1>4. CASE check /\ hasProp[k] /\ callable[k]
  BY <1>4, Zenon DEF CheckMethod
<1>5. QED
  BY <1>1, <1>2, <1>3, <1>4

LEMMA NextIInv == IInv /\ [Next]_vars => IInv'
<1> SUFFICES ASSUME IInv, [Next]_vars PROVE IInv'
  OBVIOUS
<1>0. /\ isObject \in BOOLEAN /\ check \in BOOLEAN
      /\ hasProp \in [Methods -> BOOLEAN] /\ callable \in [Methods -> BOOLEAN]
      /\ k \in 1 .. (NumMethods + 1) /\ stack \in Seq({"obj"}) /\ registered \subseteq Methods
      /\ lastCall \in CallOutcome
  BY DEF IInv, TypeOK
<1>1. CASE CheckObject
  <2>1. pc = "start" /\ k = 1 /\ registered = {} /\ stack = << >>
    BY <1>1 DEF CheckObject, IInv
  <2>2. CASE isObject
    <3>1. pc' = "loop" /\ stack' = << "obj" >>
      BY <1>1, <2>2 DEF CheckObject
    <3>2. QED
      BY <1>1, <2>1, <2>2, <3>1, <1>0 DEF CheckObject, IInv, TypeOK, Object, CtorDone
  <2>3. CASE ~isObject
    <3>1. pc' = "notObject" /\ stack' = stack
      BY <1>1, <2>3 DEF CheckObject
    <3>2. QED
      BY <1>1, <2>1, <2>3, <3>1, <1>0 DEF CheckObject, IInv, TypeOK, Object, CtorDone
  <2>4. QED
    BY <2>2, <2>3, <1>0
<1>2. CASE CheckMethod
  <2>1. /\ pc = "loop" /\ k <= NumMethods /\ isObject /\ stack = << "obj" >>
        /\ registered = 1 .. (k - 1)
        /\ check => \A m \in 1 .. (k - 1) : hasProp[m] /\ callable[m]
        /\ UNCHANGED << Object, hasProp, callable, k, registered, lastCall >>
    BY <1>2 DEF CheckMethod, IInv
  <2>2. \/ pc' = "wrap" /\ (check => hasProp[k] /\ callable[k])
        \/ pc' \in {"noMethod", "notCallable"}
    <3>1. hasProp[k] \in BOOLEAN /\ callable[k] \in BOOLEAN
      BY <2>1, <1>0 DEF Methods
    <3>2. QED
      BY <1>2, <3>1, <1>0, CheckOutcome, Zenon
  <2>3. CASE pc' = "wrap" /\ (check => hasProp[k] /\ callable[k])
    <3>1. stack' = stack
      BY <1>2, <2>3 DEF CheckMethod
    <3>2. QED
      BY <2>1, <2>3, <3>1, <1>0 DEF IInv, TypeOK, Object, CtorDone
  <2>4. CASE pc' \in {"noMethod", "notCallable"}
    <3>1. stack' = << >>
      BY <1>2, <2>1, <2>4, PopObject DEF CheckMethod
    <3>2. QED
      BY <2>1, <2>4, <3>1, <1>0 DEF IInv, TypeOK, Object, CtorDone
  <2>5. QED
    BY <2>2, <2>3, <2>4
<1>3. CASE WrapMethod
  <2>1. /\ pc = "wrap" /\ k <= NumMethods /\ isObject /\ stack = << "obj" >>
        /\ registered = 1 .. (k - 1)
        /\ check => \A m \in 1 .. (k - 1) : hasProp[m] /\ callable[m]
        /\ check => hasProp[k] /\ callable[k]
        /\ UNCHANGED << Object, hasProp, callable, lastCall >>
    BY <1>3 DEF WrapMethod, IInv
  <2>2. CASE registered' = registered \cup {k} /\ k' = k + 1 /\ pc' = "loop" /\ UNCHANGED stack
    <3>1. registered' = 1 .. (k' - 1)
      BY <2>1, <2>2, <1>0
    <3>2. check' => \A m \in 1 .. (k' - 1) : hasProp'[m] /\ callable'[m]
      BY <2>1, <2>2, <1>0 DEF Object
    <3>3. k' \in 1 .. (NumMethods + 1) /\ registered' \subseteq Methods
      BY <2>1, <2>2, <1>0 DEF Methods
    <3>4. TypeOK'
      BY <2>1, <2>2, <3>3, <1>0 DEF TypeOK, Object, CtorDone
    <3>5. /\ isObject' /\ stack' = << "obj" >> /\ pc' = "loop"
      BY <2>1, <2>2 DEF Object
    <3>6. QED
      BY <3>1, <3>2, <3>4, <3>5 DEF IInv
  <2>3. CASE /\ "invalid_argument" \in CtorExceptions
             /\ stack' = SubSeq(stack, 1, Len(stack) - 1)
             /\ pc' = "wrapError" /\ UNCHANGED << k, registered >>
    <3>1. stack' = << >>
      BY <2>1, <2>3, PopObject
    <3>2. QED
      BY <2>1, <2>3, <3>1, <1>0 DEF IInv, TypeOK, Object, CtorDone
  <2>4. CASE /\ "other" \in CtorExceptions
             /\ pc' = "wrapUncaught" /\ UNCHANGED << k, stack, registered >>
    BY <2>1, <2>4, <1>0 DEF IInv, TypeOK, Object, CtorDone
  <2>5. QED
    BY <1>3, <2>2, <2>3, <2>4 DEF WrapMethod
<1>4. CASE LoopDone
  <2>1. /\ pc = "loop" /\ k > NumMethods /\ stack = << "obj" >>
        /\ registered = 1 .. (k - 1)
        /\ pc' = "registered" /\ stack' = SubSeq(stack, 1, Len(stack) - 1)
        /\ UNCHANGED << Object, hasProp, callable, k, registered, lastCall >>
    BY <1>4 DEF LoopDone, IInv
  <2>2. stack' = << >> /\ registered' = Methods
    BY <2>1, <1>0, PopObject DEF Methods
  <2>3. QED
    BY <2>1, <2>2, <1>0 DEF IInv, TypeOK, Object, CtorDone
<1>5. CASE Mutate
  BY <1>5, <1>0 DEF Mutate, IInv, TypeOK, Object, CtorDone
<1>6. CASE Call
  <2>1. /\ pc = "registered"
        /\ UNCHANGED << Object, hasProp, callable, pc, k, stack, registered >>
        /\ \E m \in Methods \cup {0} :
             lastCall' \in
               CASE m \notin registered -> {"notFound"}
                 [] ~callable[m]        -> {"jsError"}
                 [] OTHER               -> {"returned", "jsError", "argError", "resultError"}
    BY <1>6 DEF Call
  <2>2. lastCall' \in CallOutcome
    <3>1. PICK m \in Methods \cup {0} :
            lastCall' \in
              CASE m \notin registered -> {"notFound"}
                [] ~callable[m]        -> {"jsError"}
                [] OTHER               -> {"returned", "jsError", "argError", "resultError"}
      BY <2>1
    <3>2. QED
      BY <3>1, Zenon DEF CallOutcome
  <2>3. QED
    BY <2>1, <2>2, <1>0 DEF IInv, TypeOK, Object, CtorDone
<1>7. CASE UNCHANGED vars
  BY <1>7 DEF vars, IInv, TypeOK
<1>8. QED
  BY <1>1, <1>2, <1>3, <1>4, <1>5, <1>6, <1>7 DEF Next

(* The abstract variables, as the refinement mapping gives them.           *)
AbsVars == << isObject, check, hasProp, callable, status, table >>

(* What the mapped status is at each control point.                        *)
LEMMA StatusOf ==
  ASSUME NEW p \in {"start", "loop", "wrap"} \cup CtorDone
  PROVE  /\ p = "registered" => (CASE p = "registered"               -> "registered"
                                   [] p \in CtorDone \ {"registered"} -> "failed"
                                   [] OTHER                            -> "registering") = "registered"
         /\ p \in CtorDone \ {"registered"} =>
              (CASE p = "registered"               -> "registered"
                 [] p \in CtorDone \ {"registered"} -> "failed"
                 [] OTHER                            -> "registering") = "failed"
         /\ p \in {"start", "loop", "wrap"} =>
              (CASE p = "registered"               -> "registered"
                 [] p \in CtorDone \ {"registered"} -> "failed"
                 [] OTHER                            -> "registering") = "registering"
BY Zenon DEF CtorDone

(* The constructor's status before and after a step, by its control point. *)
LEMMA StatusNow ==
  ASSUME TypeOK
  PROVE  /\ pc = "registered" => status = "registered"
         /\ pc \in CtorDone \ {"registered"} => status = "failed"
         /\ pc \in {"start", "loop", "wrap"} => status = "registering"
BY StatusOf DEF status, TypeOK

LEMMA StatusNext ==
  ASSUME TypeOK'
  PROVE  /\ pc' = "registered" => status' = "registered"
         /\ pc' \in CtorDone \ {"registered"} => status' = "failed"
         /\ pc' \in {"start", "loop", "wrap"} => status' = "registering"
BY StatusOf DEF status, TypeOK

LEMMA InitRefines == Init => Registration!Init
<1> SUFFICES ASSUME Init PROVE Registration!Init
  OBVIOUS
<1>1. TypeOK
  BY InitIInv DEF IInv
<1>2. status = "registering" /\ table = {}
  BY <1>1, StatusNow DEF Init, table
<1>3. QED
  BY <1>2 DEF Init, Registration!Init, Registration!Methods, Methods

(* Every step of the constructor or of call() is a step of the abstract    *)
(* registration or leaves its variables alone.                             *)
LEMMA NextRefines == IInv /\ [Next]_vars => [Registration!Next]_AbsVars
<1> SUFFICES ASSUME IInv, [Next]_vars PROVE [Registration!Next]_AbsVars
  OBVIOUS
<1>0. TypeOK /\ TypeOK'
  BY NextIInv DEF IInv
<1>a. /\ pc = "registered" => status = "registered"
      /\ pc \in CtorDone \ {"registered"} => status = "failed"
      /\ pc \in {"start", "loop", "wrap"} => status = "registering"
      /\ pc' = "registered" => status' = "registered"
      /\ pc' \in CtorDone \ {"registered"} => status' = "failed"
      /\ pc' \in {"start", "loop", "wrap"} => status' = "registering"
  BY <1>0, StatusNow, StatusNext
(* A step that keeps the registration's status and table is a stutter.    *)
<1>b. ASSUME UNCHANGED << isObject, check, hasProp, callable >>,
             status' = status, table' = table
      PROVE  [Registration!Next]_AbsVars
  BY <1>b DEF AbsVars
(* A step from registering to failed that keeps the object is Fail.       *)
<1>c. ASSUME UNCHANGED << isObject, check, hasProp, callable >>,
             pc \in {"start", "loop", "wrap"}, pc' \in CtorDone \ {"registered"}
      PROVE  [Registration!Next]_AbsVars
  <2>1. status = "registering" /\ status' = "failed"
    BY <1>c, <1>a
  <2>2. table = {} /\ table' = {}
    BY <1>c DEF table, CtorDone
  <2>3. QED
    BY <1>c, <2>1, <2>2 DEF Registration!Next, Registration!Fail
<1>1. CASE CheckObject
  <2>1. CASE isObject
    <3>1. pc' = "loop" /\ pc = "start"
      BY <1>1, <2>1 DEF CheckObject
    <3>2. status' = status /\ table' = table
      BY <3>1, <1>a DEF table
    <3>3. QED
      BY <1>1, <3>2, <1>b DEF CheckObject, Object
  <2>5. CASE ~isObject
    BY <1>1, <2>5, <1>c DEF CheckObject, Object, CtorDone
  <2>6. QED
    BY <2>1, <2>5
<1>2. CASE CheckMethod
  <2>1. pc = "loop" /\ UNCHANGED << isObject, check, hasProp, callable, registered >>
    BY <1>2 DEF CheckMethod, Object
  <2>2. pc' = "wrap" \/ pc' \in {"noMethod", "notCallable"}
    BY <1>2, Zenon DEF CheckMethod
  <2>3. CASE pc' = "wrap"
    <3>1. status' = status /\ table' = table
      BY <2>1, <2>3, <1>a DEF table
    <3>2. QED
      BY <2>1, <3>1, <1>b
  <2>4. CASE pc' \in {"noMethod", "notCallable"}
    BY <2>1, <2>4, <1>c DEF CtorDone
  <2>5. QED
    BY <2>2, <2>3, <2>4
<1>3. CASE WrapMethod
  <2>1. pc = "wrap" /\ UNCHANGED << isObject, check, hasProp, callable >>
    BY <1>3 DEF WrapMethod, Object
  <2>2. pc' \in {"loop", "wrapError", "wrapUncaught"}
    BY <1>3 DEF WrapMethod
  <2>3. CASE pc' = "loop"
    <3>1. status' = status /\ table' = table
      BY <2>1, <2>3, <1>a DEF table
    <3>2. QED
      BY <2>1, <3>1, <1>b
  <2>4. CASE pc' \in {"wrapError", "wrapUncaught"}
    BY <2>1, <2>4, <1>c DEF CtorDone
  <2>5. QED
    BY <2>2, <2>3, <2>4
<1>4. CASE LoopDone
  <2>1. /\ pc = "loop" /\ k > NumMethods /\ pc' = "registered"
        /\ UNCHANGED << isObject, check, hasProp, callable, registered >>
    BY <1>4 DEF LoopDone, Object
  <2>2. registered = Methods /\ isObject
        /\ (check => \A m \in Methods : hasProp[m] /\ callable[m])
    <3>1. k = NumMethods + 1
      BY <2>1, <1>0 DEF TypeOK
    <3>2. 1 .. (k - 1) = Methods
      BY <3>1 DEF Methods
    <3>3. /\ isObject /\ registered = 1 .. (k - 1)
          /\ check => \A m \in 1 .. (k - 1) : hasProp[m] /\ callable[m]
      BY <2>1 DEF IInv
    <3>4. QED
      BY <3>2, <3>3, Zenon
  <2>3. status = "registering" /\ status' = "registered" /\ table' = Methods
    BY <2>1, <2>2, <1>a DEF table
  <2>4. QED
    BY <2>1, <2>2, <2>3
       DEF Registration!Next, Registration!Register, Registration!Methods, Methods
<1>5. CASE Mutate
  <2>1. /\ pc = "registered"
        /\ hasProp' \in [Methods -> BOOLEAN]
        /\ callable' \in [Methods -> BOOLEAN]
        /\ \A m \in Methods : callable'[m] => hasProp'[m]
        /\ UNCHANGED << isObject, check, pc, registered >>
    BY <1>5 DEF Mutate, Object
  <2>2. status = "registered" /\ status' = status /\ table' = table
    BY <2>1, <1>a DEF table
  <2>3. QED
    BY <2>1, <2>2 DEF Registration!Next, Registration!Mutate, Registration!Methods, Methods
<1>6. CASE Call
  <2>1. UNCHANGED << isObject, check, hasProp, callable, pc, registered >>
    BY <1>6 DEF Call, Object
  <2>2. status' = status /\ table' = table
    BY <2>1 DEF status, table
  <2>3. QED
    BY <2>1, <2>2, <1>b
<1>7. CASE UNCHANGED vars
  <2>1. UNCHANGED << isObject, check, hasProp, callable, pc, registered >>
    BY <1>7 DEF vars
  <2>2. status' = status /\ table' = table
    BY <2>1 DEF status, table
  <2>3. QED
    BY <2>1, <2>2, <1>b
<1>8. QED
  BY <1>1, <1>2, <1>3, <1>4, <1>5, <1>6, <1>7 DEF Next

(* The inductive invariant gives the stack height of every exit.          *)
LEMMA IInvStackAtExit == IInv => StackAtExit
BY DEF IInv, StackAtExit, CtorDone

-----------------------------------------------------------------------------

(* Every state the Duktape proxy constructor and call() reach is well      *)
(* typed: in particular the method loop index stays in 1 .. NumMethods+1   *)
(* and m_methods only ever holds interface methods.                        *)
THEOREM TypeCorrect == Spec => []TypeOK
<1>1. IInv => TypeOK
  BY DEF IInv
<1>2. QED
  BY <1>1, InitIInv, NextIInv, PTL DEF Spec

(* The Duktape JavaScriptObject constructor implements ProxyRegistration:  *)
(* it builds a proxy only for an object, with every interface method in    *)
(* m_methods, and with the eager check only if each method was then a      *)
(* callable property; every other end of the constructor is a failure.     *)
THEOREM Implementation == Spec => RegistrationRefinement
<1>1. Spec => []IInv
  BY InitIInv, NextIInv, PTL DEF Spec
<1>2. QED
  BY <1>1, InitRefines, NextRefines, PTL
     DEF Spec, RegistrationRefinement, Registration!Spec, AbsVars

(* CHECK_STACK of the constructor (line 49), for every set of exceptions  *)
(* building a method wrapper may throw: a built proxy, a refused object,   *)
(* a failed check and a caught std::invalid_argument leave the Duktape     *)
(* value stack at its entry height; an exception line 92 does not catch    *)
(* leaves exactly the object pushed at line 60, one entry and no more.     *)
THEOREM StackDiscipline == Spec => []StackAtExit
<1>1. IInv => StackAtExit
  BY IInvStackAtExit
<1>2. QED
  BY <1>1, InitIInv, NextIInv, PTL DEF Spec

=============================================================================
