--------------------------- MODULE JavaMethodBinding ---------------------------
(***************************************************************************)
(* What JavaMethod::invoke promises, for both engine flavours, when script *)
(* code calls a registered Java method or lambda with argc arguments.      *)
(*                                                                         *)
(* The method declares numParams parameters, the last one a vararg         *)
(* collector when isVarArgs.  Either the call is rejected because it has   *)
(* too many arguments for a fixed-arity method, or a marshalling error     *)
(* ends it, or the Java method is invoked with exactly the argument vector *)
(* ExpectedArgs: JS argument k for each fixed parameter k < argc, null for *)
(* each fixed parameter the script left out, and for the collector an      *)
(* array of the JS arguments from position minArgs on (empty when there    *)
(* are none).  The invoked method then returns or throws.                  *)
(***************************************************************************)
EXTENDS Integers, Sequences

CONSTANTS
  MaxParams,  \* most parameters a registered Java method declares
  MaxArgc     \* most arguments a script passes


(* A Java argument: null, the conversion of JS argument k, or an array of  *)
(* the conversions of the JS arguments in "from".                          *)
NullArg      == [kind |-> "null",  from |-> << >>]
ValueArg(k)  == [kind |-> "value", from |-> << k >>]
ArrayArg(s)  == [kind |-> "array", from |-> s]

(* The statuses of one call.                                               *)
Status == {"calling", "rejected", "failed", "invoked", "returned", "threw"}

VARIABLES
  isVarArgs,   \* m_isVarArgs
  numParams,   \* m_argumentTypes.size()
  argc,        \* number of JS arguments
  status,      \* where the call is
  bound        \* the argument vector the Java method received

minArgs == IF isVarArgs THEN numParams - 1 ELSE numParams

(* The JS argument positions from first to last, as a sequence.            *)
Positions(first, last) == [j \in 1 .. (last - first + 1) |-> first + j - 1]

ExpectedArgs ==
  [k \in 0 .. (numParams - 1) |->
     IF isVarArgs /\ k = numParams - 1 THEN ArrayArg(Positions(minArgs, argc - 1))
     ELSE IF k < argc THEN ValueArg(k)
     ELSE NullArg]

Init ==
  /\ isVarArgs \in BOOLEAN
  /\ numParams \in (IF isVarArgs THEN 1 ELSE 0) .. MaxParams
  /\ argc \in 0 .. MaxArgc
  /\ status = "calling"
  /\ bound = << >>

(* Too many arguments for a fixed-arity method: nothing is converted.      *)
Reject ==
  /\ status = "calling"
  /\ ~isVarArgs /\ argc > minArgs
  /\ status' = "rejected"
  /\ UNCHANGED << isVarArgs, numParams, argc, bound >>

(* An argument conversion fails.                                           *)
Fail ==
  /\ status = "calling"
  /\ isVarArgs \/ argc <= minArgs
  /\ status' = "failed"
  /\ UNCHANGED << isVarArgs, numParams, argc, bound >>

(* The Java method is invoked with the bound arguments.                    *)
Invoke ==
  /\ status = "calling"
  /\ isVarArgs \/ argc <= minArgs
  /\ bound' = ExpectedArgs
  /\ status' = "invoked"
  /\ UNCHANGED << isVarArgs, numParams, argc >>

(* The Java method returns (its result converted to JS) or throws.         *)
Complete ==
  /\ status = "invoked"
  /\ status' \in {"returned", "threw"}
  /\ UNCHANGED << isVarArgs, numParams, argc, bound >>

Next == Reject \/ Fail \/ Invoke \/ Complete

Spec == Init /\ [][Next]_<< isVarArgs, numParams, argc, status, bound >>

=============================================================================
