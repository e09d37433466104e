-------------------------------- MODULE MCVci --------------------------------
(* Instances of Vci for TLC. *)
EXTENDS Vci, TLC

CONSTANTS v1, v2, l1, t1, t2

TwoVcis == {v1, v2}
OneLink == {l1}
TwoTasks == {t1, t2}

=============================================================================
