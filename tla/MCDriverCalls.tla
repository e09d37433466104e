---------------------------- MODULE MCDriverCalls ----------------------------
(* Instances of DriverCalls for TLC. *)
EXTENDS DriverCalls, TLC

CONSTANTS t1, t2

TwoThreads == {t1, t2}
AllOps == {c.name : c \in Calls} \cup Compound
Both == {TRUE, FALSE}
Symmetry == Permutations(Threads)

=============================================================================
