------------------------- MODULE ProxyRegistration -------------------------
(***************************************************************************)
(* What registering a script object as a host-side proxy promises          *)
(* (JavaScriptObject constructor, both engines).                           *)
(*                                                                         *)
(* The host hands over NumMethods interface methods and the script value   *)
(* to proxy.  Registration either fails or yields a proxy whose method     *)
(* table holds every interface method; it succeeds only for an object      *)
(* (neither a primitive nor null) and, when the eager check is asked for,  *)
(* only if each method is at that moment a callable property of the        *)
(* object.  A failure may come from any step (building a method wrapper    *)
(* can throw), so failing is always allowed while registering.             *)
(***************************************************************************)
EXTENDS Naturals

CONSTANT NumMethods

Methods == 1 .. NumMethods

VARIABLES
  isObject,  \* the proxied value is an object and not null
  check,     \* the eager check was requested
  hasProp,   \* hasProp[m]: the object has a property named like method m
  callable,  \* callable[m]: that property is callable
  status,    \* "registering", "registered" or "failed"
  table      \* the methods of the proxy's method table

Init ==
  /\ isObject \in BOOLEAN
  /\ check \in BOOLEAN
  /\ hasProp \in [Methods -> BOOLEAN]
  /\ callable \in [Methods -> BOOLEAN]
  /\ \A m \in Methods : callable[m] => hasProp[m]
  /\ status = "registering"
  /\ table = {}

Register ==
  /\ status = "registering"
  /\ isObject
  /\ check => \A m \in Methods : hasProp[m] /\ callable[m]
  /\ status' = "registered"
  /\ table' = Methods
  /\ UNCHANGED << isObject, check, hasProp, callable >>

Fail ==
  /\ status = "registering"
  /\ status' = "failed"
  /\ UNCHANGED << isObject, check, hasProp, callable, table >>

(* Once registered, the script may redefine or delete the properties; the  *)
(* table is fixed.                                                         *)
Mutate ==
  /\ status = "registered"
  /\ hasProp' \in [Methods -> BOOLEAN]
  /\ callable' \in [Methods -> BOOLEAN]
  /\ \A m \in Methods : callable'[m] => hasProp'[m]
  /\ UNCHANGED << isObject, check, status, table >>

Next == Register \/ Fail \/ Mutate

Spec == Init /\ [][Next]_<< isObject, check, hasProp, callable, status, table >>

=============================================================================
