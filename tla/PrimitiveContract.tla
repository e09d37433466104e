-------------------------- MODULE PrimitiveContract --------------------------
(***************************************************************************)
(* What a PduPrimitive promises to the threads that call it: it is started *)
(* once, it may fail, it ends once, and every answer a call returns is     *)
(* true of the phase the primitive is in.                                  *)
(***************************************************************************)
CONSTANT Threads

VARIABLES
  phase,   \* "NotStarted", "Started" or "Ended"
  failed,  \* an error has been reported for it
  res      \* the last answer given to each thread

vars == <<phase, failed, res>>

\* The answers that may be given in the current phase.
Truthful(r) ==
  /\ r \in {"Ok", "RxTimeout", "Destroyed"} => phase = "Ended"
  /\ r \in {"Started", "Result", "AlreadyStarted", "Cancelled"} =>
       phase # "NotStarted"
  /\ r = "Error" => failed

Init ==
  /\ phase = "NotStarted"
  /\ failed = FALSE
  /\ res = [t \in Threads |-> "none"]

Begin == phase = "NotStarted" /\ phase' = "Started" /\ UNCHANGED <<failed, res>>

Fail == phase = "Started" /\ ~failed /\ failed' = TRUE /\ UNCHANGED <<phase, res>>

End == phase = "Started" /\ phase' = "Ended" /\ UNCHANGED <<failed, res>>

Call(t) == res' = [res EXCEPT ![t] = "none"] /\ UNCHANGED <<phase, failed>>

Answer(t) ==
  \E r \in {"Started", "AlreadyStarted", "ApiError", "NotStarted",
            "Destroyed", "Cancelled", "Error", "Result", "Ok", "RxTimeout"} :
    /\ Truthful(r)
    /\ res' = [res EXCEPT ![t] = r]
    /\ UNCHANGED <<phase, failed>>

Next == Begin \/ Fail \/ End \/ \E t \in Threads : Call(t) \/ Answer(t)

Spec == Init /\ [][Next]_vars

=============================================================================
