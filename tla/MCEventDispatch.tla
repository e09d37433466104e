--------------------------- MODULE MCEventDispatch ---------------------------
(* Instances of EventDispatch for TLC. *)
EXTENDS EventDispatch, TLC

CONSTANTS cll, cop, c1, c2

LinkAndPrimitive == {cll, cop}
TwoCallbacks == {c1, c2}
EitherMode == {FALSE, TRUE}
OneAndTwo == cll :> 1 @@ cop :> 2
=============================================================================
