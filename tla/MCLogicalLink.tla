--------------------------- MODULE MCLogicalLink ---------------------------
(* Instances of LogicalLink for TLC. *)
EXTENDS LogicalLink

CONSTANTS a, b, p, q, u, default, other

TwoThreads == {a, b}
TwoOwners == {a, b}
OneOwner == {a}
NoSetter == {}

EveryClass == {p, q, u}
Named == {p, u}
UniqueOnly == {u}
OneParam == {p}
NoUnique == {}
TwoValues == {default, other}

AllButRestore == LinkCalls \cup {"update"}
AllButSet == {"connect", "disconnect", "update", "restore"}

EitherMode == {FALSE, TRUE}
NoWorker == {FALSE}
=============================================================================
