----------------------------- MODULE MCPrimitive -----------------------------
(* Instances of Primitive for TLC. *)
EXTENDS Primitive, TLC

CONSTANTS t1, t2, t3, h1, h2

Nobody == {}

OneHandle == {h1}
TwoHandles == {h1, h2}
ThreeThreads == {t1, t2, t3}
TwoThreads == {t1, t2}
FirstThread == {t1}

\* The handles are interchangeable.
HandleSymmetry == Permutations(Handles)

=============================================================================
