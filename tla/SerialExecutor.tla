--------------------------- MODULE SerialExecutor ---------------------------
(***************************************************************************)
(* What the asynchronous worker promises: the queries put to it are made   *)
(* as driver calls one by one, each once, in the order they were put, and  *)
(* once it is closed it makes no more.  Unless it is forced to close under *)
(* those who use it, no pending query outlives it.                         *)
(***************************************************************************)
EXTENDS Sequences

CONSTANT Query

VARIABLES
  pending,  \* the queries not made yet, oldest first
  made,     \* the queries made, oldest first
  closed,
  forced    \* it may close before it has made every query

vars == <<pending, made, closed, forced>>

Init ==
  /\ \E q \in Query : pending = <<q>>
  /\ made = <<>>
  /\ closed = FALSE
  /\ forced = FALSE

Put(q) == ~closed /\ pending' = Append(pending, q) /\ UNCHANGED <<made, closed, forced>>

Make ==
  /\ ~closed /\ pending # <<>>
  /\ made' = Append(made, Head(pending))
  /\ pending' = Tail(pending)
  /\ UNCHANGED <<closed, forced>>

Force == forced' = TRUE /\ UNCHANGED <<pending, made, closed>>

Close ==
  /\ pending = <<>> \/ forced
  /\ closed' = TRUE
  /\ UNCHANGED <<pending, made, forced>>

Next == Make \/ Force \/ Close \/ \E q \in Query : Put(q)

Spec == Init /\ [][Next]_vars

\* Every query is made in the end, unless the executor is closed before.
FairSpec == Spec /\ WF_vars(Make)

=============================================================================
